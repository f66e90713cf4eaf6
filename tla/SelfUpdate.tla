------------------------------ MODULE SelfUpdate ------------------------------
(***************************************************************************)
(* The update of DeployCP by itself (UpdateService in                       *)
(* src/internal/services/update_service.go, self-update.sh and update.sh in *)
(* src/scripts/linux).  The panel writes a status file and asks systemd to  *)
(* run the updater; the updater stops the panel, replaces it, starts it     *)
(* again, and takes everything back when a step fails.  The same script can *)
(* be run by hand, without a status file.                                   *)
(***************************************************************************)
EXTENDS Integers

CONSTANTS
  MaxRelease,       \* bound on the releases published
  MaxUpFailures,    \* bound on failing steps and panel crashes
  MaxSnapshotFails, \* bound on updates in which sqlite3 cannot copy the database
  MaxKills,         \* bound on updaters killed, by a reboot or by hand
  UpOverlapping     \* may two updaters run together?

Releases == 1..MaxRelease
Lost == 0    \* an empty database, or no snapshot, no release
Updaters == {"job", "hand"}

ASSUME SelfUpdateAssumption ==
  /\ MaxRelease \in Nat \ {0} /\ MaxUpFailures \in Nat /\ MaxSnapshotFails \in Nat
  /\ MaxKills \in Nat /\ UpOverlapping \in BOOLEAN

VARIABLES
  published,   \* the latest release on GitHub
  latest,      \* setting update_latest_version
  panel,       \* the panel's process: its state, and the version it has read
  core,        \* the release of the binary, of the files around it, and of the database
  job,         \* the status file
  install,     \* StartInstall, which holds installMu
  updater,     \* each updater: its step and what it keeps to go back to
  upFailures, snapshotFails, kills,
  ended        \* have the updaters ended well?  "torn" is killed or unable to go back,
               \* "stopped" that it went back to a panel it had found down

upVars == <<published, latest, panel, core, job, install, updater, upFailures, snapshotFails,
            kills, ended>>

JobStates == {"idle", "queued", "expired", "running", "success", "failed"}
\* "expired" is "queued" for more than two minutes (isStaleQueuedUpdate).
JobActive == job \in {"queued", "expired", "running"}

\* update.sh in order; what follows when a step succeeds.
NextStep == [begin |-> "download", download |-> "prepare", prepare |-> "stop",
             stop |-> "snapshot", snapshot |-> "binary", binary |-> "files",
             files |-> "migrate", migrate |-> "start", start |-> "verify", verify |-> "success"]
\* finish_update; "failed" and "success" are the last write of self-update.sh.
NextUndo == [unstop |-> "unbinary", unbinary |-> "undatabase", undatabase |-> "unfiles",
             unfiles |-> "unstart", unstart |-> "failed"]
UpSteps == DOMAIN NextStep \cup DOMAIN NextUndo \cup {"off", "success", "failed"}
Off == [pc |-> "off", target |-> Lost, old |-> Lost, snapshot |-> FALSE, database |-> Lost,
        wasUp |-> FALSE]

-----------------------------------------------------------------------------
UpFault == upFailures < MaxUpFailures /\ upFailures' = upFailures + 1
UpWorks == UNCHANGED upFailures
Resting == \A u \in Updaters : updater[u].pc = "off"
Panels(state, version) == [state |-> state, version |-> version]
StepTo(u, pc) == updater' = [updater EXCEPT ![u].pc = pc]

\* A process that starts reads its version and migrates the database.
Migrated(database) == IF database = Lost \/ database > core.binary THEN database ELSE core.binary
PanelStarts == /\ panel' = Panels("up", core.binary)
               /\ core' = [core EXCEPT !.database = Migrated(@)]

Publish == /\ published < MaxRelease /\ published' = published + 1
           /\ UNCHANGED <<latest, panel, core, job, install, updater, upFailures,
                          snapshotFails, kills, ended>>

(* CheckNow and StartInstall *)
CheckNow == /\ panel.state = "up"
            /\ latest' = published
            /\ UNCHANGED <<published, panel, core, job, install, updater, upFailures,
                           snapshotFails, kills, ended>>

\* Mutant: an update that was queued and never ran goes on refusing.
NeverStale == JobActive
Refused == JobActive /\ job # "expired"
\* The release the table has, or the one GitHub has when it has none.
StartInstall ==
  /\ panel.state = "up" /\ install = "free" /\ (UpOverlapping \/ updater["hand"].pc = "off")
  /\ ~Refused
  /\ latest' = IF latest = Lost THEN published ELSE latest
  /\ latest' # panel.version
  /\ job' = "queued" /\ install' = "launch"
  /\ UNCHANGED <<published, panel, core, updater, upFailures, snapshotFails, kills, ended>>
InstallRefused == panel.state = "up" /\ UNCHANGED upVars

\* systemd-run: the unit is Type=oneshot, so it returns when the updater has ended.
\* The error of writing that it could not be launched is ignored.
Launch ==
  /\ install = "launch"
  /\ \/ /\ updater["job"].pc = "off"
        /\ updater' = [updater EXCEPT !["job"] = [Off EXCEPT !.pc = "begin", !.target = latest]]
        /\ install' = "wait" /\ UpWorks /\ UNCHANGED job
     \/ /\ UpFault /\ install' = "free" /\ job' \in {job, "failed"} /\ UNCHANGED updater
  /\ UNCHANGED <<published, latest, panel, core, snapshotFails, kills, ended>>
\* It comes back to a panel that is still there only when the updater has failed.
LaunchReturns ==
  /\ install = "wait" /\ updater["job"].pc = "off"
  /\ install' = "free" /\ job' = "failed"
  /\ UNCHANGED <<published, latest, panel, core, updater, upFailures, snapshotFails, kills,
                 ended>>
Expire == /\ job = "queued" /\ job' = "expired"
          /\ UNCHANGED <<published, latest, panel, core, install, updater, upFailures,
                         snapshotFails, kills, ended>>

-----------------------------------------------------------------------------
(* The updater *)
StartByHand ==
  /\ updater["hand"].pc = "off"
  /\ UpOverlapping \/ (updater["job"].pc = "off" /\ install = "free")
  /\ published # core.binary
  /\ updater' = [updater EXCEPT !["hand"] = [Off EXCEPT !.pc = "download", !.target = published]]
  /\ UNCHANGED <<published, latest, panel, core, job, install, upFailures, snapshotFails, kills,
                 ended>>

\* What a step does to the host when it succeeds.
Done(u, pc) ==
  LET target == updater[u].target
      next   == NextStep[pc]
      keep(w) == [updater EXCEPT ![u] = [w EXCEPT !.pc = next]]
      steps  == keep(updater[u])
  IN  CASE pc = "begin"    -> /\ job' = "running" /\ updater' = steps
                              /\ UNCHANGED <<panel, core, install>>
        [] pc = "prepare"  -> /\ updater' = keep([updater[u] EXCEPT !.old = core.binary,
                                                    !.wasUp = panel.state = "up"])
                              /\ UNCHANGED <<job, panel, core, install>>
        [] pc = "stop"     -> /\ IF updater[u].wasUp
                                 THEN panel' = Panels("stopped", Lost) /\ install' = "free"
                                 ELSE UNCHANGED <<panel, install>>
                              /\ updater' = steps /\ UNCHANGED <<job, core>>
        [] pc = "snapshot" -> /\ updater' = keep([updater[u] EXCEPT !.snapshot = TRUE,
                                                                    !.database = core.database])
                              /\ UNCHANGED <<job, panel, core, install>>
        [] pc = "binary"   -> /\ core' = [core EXCEPT !.binary = target] /\ updater' = steps
                              /\ UNCHANGED <<job, panel, install>>
        [] pc = "files"    -> /\ core' = [core EXCEPT !.files = target] /\ updater' = steps
                              /\ UNCHANGED <<job, panel, install>>
        [] pc = "migrate"  -> /\ core' = [core EXCEPT !.database = Migrated(@)]
                              /\ updater' = steps /\ UNCHANGED <<job, panel, install>>
        [] pc = "start"    -> PanelStarts /\ updater' = steps /\ UNCHANGED <<job, install>>
        [] OTHER           -> updater' = steps /\ UNCHANGED <<job, panel, core, install>>
UpdateStep(u) ==
  /\ updater[u].pc \in DOMAIN NextStep
  /\ Done(u, updater[u].pc)
  /\ UNCHANGED <<published, latest, upFailures, snapshotFails, kills, ended>>

\* Mutant: a failure before the migration takes nothing back.
ReadyLate == {"migrate", "start", "verify"}
\* Nothing is taken back before everything is in place to do it.
ReadyAfter == {"stop", "snapshot", "binary", "files", "migrate", "start", "verify"}
\* What a step leaves when it fails; the copy sqlite3 has begun is there, and empty.
UpdateStepFails(u) ==
  LET pc == updater[u].pc
      undo == [updater EXCEPT ![u].pc = IF pc \in ReadyAfter THEN "unstop" ELSE "failed"]
  IN  /\ pc \in DOMAIN NextStep
      /\ IF pc = "snapshot"
         THEN /\ snapshotFails < MaxSnapshotFails /\ snapshotFails' = snapshotFails + 1
              /\ UpWorks
              /\ updater' = [undo EXCEPT ![u].snapshot = TRUE, ![u].database = Lost]
         ELSE UpFault /\ UNCHANGED snapshotFails /\ updater' = undo
      /\ CASE pc = "files"   -> core' = [core EXCEPT !.files = Lost] /\ UNCHANGED panel
           [] pc = "migrate" -> /\ core' \in {core, [core EXCEPT !.database = Migrated(@)]}
                                /\ UNCHANGED panel
           [] pc = "start"   -> /\ panel' = Panels("down", Lost)
                                /\ core' \in {core, [core EXCEPT !.database = Migrated(@)]}
           [] OTHER          -> UNCHANGED <<panel, core>>
      /\ UNCHANGED <<published, latest, job, install, kills, ended>>

\* A command that fails ends finish_update, but for those whose error is ignored.
Undo(u) ==
  LET pc == updater[u].pc
      back == updater[u]
  IN  /\ pc \in DOMAIN NextUndo
      /\ StepTo(u, NextUndo[pc])
      /\ CASE pc = "unstop"     -> /\ panel' = Panels("stopped", Lost) /\ install' = "free"
                                   /\ UNCHANGED core
           [] pc = "unbinary"   -> /\ core' = [core EXCEPT !.binary = back.old]
                                   /\ UNCHANGED <<panel, install>>
           [] pc = "undatabase" -> /\ core' = [core EXCEPT !.database =
                                                IF back.snapshot THEN back.database ELSE @]
                                   /\ UNCHANGED <<panel, install>>
           [] pc = "unfiles"    -> /\ core' = [core EXCEPT !.files = back.old]
                                   /\ UNCHANGED <<panel, install>>
           [] pc = "unstart"    -> /\ IF back.wasUp THEN PanelStarts ELSE UNCHANGED <<panel, core>>
                                   /\ UNCHANGED install
      /\ ended' = IF pc = "unstart" /\ ~back.wasUp /\ ended = "well" THEN "stopped" ELSE ended
      /\ UNCHANGED <<published, latest, job, upFailures, snapshotFails, kills>>
UndoFails(u) ==
  LET pc == updater[u].pc
  IN  /\ pc \in DOMAIN NextUndo \ {"unstop"}
      /\ UpFault /\ ended' = "torn"
      /\ StepTo(u, "failed")
      /\ UNCHANGED <<published, latest, panel, core, job, install, snapshotFails, kills>>

\* self-update.sh writes how it ended; a run by hand writes nothing.
Report(u) ==
  /\ updater[u].pc \in {"success", "failed"}
  /\ job' = IF u = "job" THEN updater[u].pc ELSE job
  /\ updater' = [updater EXCEPT ![u] = Off]
  /\ UNCHANGED <<published, latest, panel, core, install, upFailures, snapshotFails, kills,
                 ended>>

-----------------------------------------------------------------------------
\* The panel dies; systemd starts it again (Restart=on-failure).
PanelCrash ==
  /\ panel.state = "up" /\ UpFault
  /\ panel' = Panels("down", Lost)
  /\ updater' \in IF install = "launch" /\ updater["job"].pc = "off"
                  THEN {updater, [updater EXCEPT !["job"] =
                                    [Off EXCEPT !.pc = "begin", !.target = latest]]}
                  ELSE {updater}
  /\ install' = "free"
  /\ UNCHANGED <<published, latest, core, job, snapshotFails, kills, ended>>
PanelRestarts ==
  /\ panel.state = "down" /\ PanelStarts
  /\ UNCHANGED <<published, latest, job, install, updater, upFailures, snapshotFails, kills,
                 ended>>
\* An operator starts a panel that an updater has left stopped.
StartPanel ==
  /\ panel.state = "stopped" /\ Resting /\ PanelStarts
  /\ UNCHANGED <<published, latest, job, install, updater, upFailures, snapshotFails, kills,
                 ended>>
\* An updater is killed, by a reboot for one, that starts the panel again.
Killed(u) ==
  /\ kills < MaxKills /\ kills' = kills + 1
  /\ updater[u].pc # "off" /\ updater' = [updater EXCEPT ![u] = Off]
  /\ ended' = "torn"
  /\ panel' \in {panel, Panels("down", Lost)}
  /\ install' = IF panel' = panel THEN install ELSE "free"
  /\ UNCHANGED <<published, latest, core, job, upFailures, snapshotFails>>

-----------------------------------------------------------------------------
SelfUpdateInit ==
  /\ published = 1 /\ latest = Lost
  /\ panel = Panels("up", 1) /\ core = [binary |-> 1, files |-> 1, database |-> 1]
  /\ job = "idle" /\ install = "free" /\ updater = [u \in Updaters |-> Off]
  /\ upFailures = 0 /\ snapshotFails = 0 /\ kills = 0 /\ ended = "well"

UpdaterStep(u) == UpdateStep(u) \/ UpdateStepFails(u) \/ Undo(u) \/ UndoFails(u) \/ Report(u)
SelfUpdateNext ==
  \/ Publish \/ CheckNow \/ StartInstall \/ InstallRefused \/ Launch \/ LaunchReturns \/ Expire
  \/ StartByHand \/ PanelCrash \/ PanelRestarts \/ StartPanel
  \/ \E u \in Updaters : UpdaterStep(u) \/ Killed(u)
\* What systemd has started goes on; a handler that has begun goes on;
\* two minutes pass.
SelfUpdateFairness ==
  /\ WF_upVars(Launch) /\ WF_upVars(LaunchReturns) /\ WF_upVars(PanelRestarts)
  /\ WF_upVars(Expire)
  /\ \A u \in Updaters : WF_upVars(UpdaterStep(u))
SelfUpdateSpec == SelfUpdateInit /\ [][SelfUpdateNext]_upVars /\ SelfUpdateFairness

-----------------------------------------------------------------------------
(* Properties *)

SelfUpdateTypeOK ==
  /\ published \in Releases /\ latest \in Releases \cup {Lost}
  /\ panel \in [state : {"up", "down", "stopped"}, version : Releases \cup {Lost}]
  /\ core \in [binary : Releases, files : Releases \cup {Lost}, database : Releases \cup {Lost}]
  /\ job \in JobStates /\ install \in {"free", "launch", "wait"}
  /\ updater \in [Updaters -> [pc : UpSteps, target : Releases \cup {Lost},
                               old : Releases \cup {Lost}, snapshot : BOOLEAN,
                               database : Releases \cup {Lost}, wasUp : BOOLEAN]]
  /\ upFailures \in 0..MaxUpFailures /\ snapshotFails \in 0..MaxSnapshotFails
  /\ kills \in 0..MaxKills /\ ended \in {"well", "stopped", "torn"}

\* Whatever step of an update fails, the panel is of one release afterwards, the old one or
\* the new, and has its database (finish_update, update.sh:332).
ReleaseWhole ==
  Resting /\ ended # "torn" =>
    /\ core.files = core.binary
    /\ core.database # Lost /\ core.database >= core.binary
    /\ panel.state = "up" => panel.version = core.binary

\* An update that was accepted does not refuse the next one forever, and leaves the panel
\* running, unless an updater was killed, could not go back or had found it down
\* (update_service.go:413).
UpdateSettles == Refused ~> ended # "well" \/ (~Refused /\ panel.state = "up")
=============================================================================

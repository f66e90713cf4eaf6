-------------------------- MODULE NginxTransaction --------------------------
(***************************************************************************)
(* The nginx side of the WebsiteService of DeployCP: how the handlers that *)
(* create, change or delete a platform stage its virtual host in           *)
(* sites-available, link it in sites-enabled, validate the whole tree with *)
(* "nginx -t", reload nginx, and put the previous files back when one of   *)
(* these steps fails (src/internal/services/website_service.go).           *)
(*                                                                         *)
(* The service holds no lock.  With Overlapping = TRUE requests interleave *)
(* at every system call, as they do in the program; with Overlapping =     *)
(* FALSE the operators take turns, which is the discipline the rollback    *)
(* assumes and under which it is proved correct.                           *)
(***************************************************************************)
EXTENDS Naturals, FiniteSets

CONSTANTS
  Sites,            \* base names of the platforms' configuration files
  Catchall,         \* 00-deploycp-catchall.conf
  Default,          \* the distribution's sites-enabled/default
  Requests,         \* the handlers and commands that may be running
  Contents,         \* virtual hosts BuildWebsiteConfig may render
  CatchallContent,  \* the unknown-host reject block
  StockContent,     \* the distribution's default server
  Accepted,         \* the files "nginx -t" accepts
  Overlap,          \* <<s, t>>: file t mentions a domain of platform s
  Overlapping,      \* may requests be in flight together?
  FaultyRestore,    \* may a step of the rollback itself fail?
  MaxFaults,        \* bound on failing system calls and commands
  MaxCrashes,       \* bound on crashes of the panel
  Absent, Linked, None

Slots  == Sites \cup {Catchall, Default}
Files  == Contents \cup {CatchallContent, StockContent}
Values == Files \cup {Absent, Linked}
Paths  == Slots \X {"available", "enabled"}
Avail(s) == <<s, "available">>
Enab(s)  == <<s, "enabled">>

ASSUME ConstantsAssumption ==
  /\ Catchall \notin Sites /\ Default \notin Sites /\ Catchall # Default
  /\ {Absent, Linked, None} \cap Files = {}
  /\ Absent # Linked /\ None \notin {Absent, Linked} \cup Paths
  /\ StockContent \in Accepted
  /\ Overlap \subseteq Sites \X Sites
  /\ Overlapping \in BOOLEAN /\ FaultyRestore \in BOOLEAN
  /\ MaxFaults \in Nat /\ MaxCrashes \in Nat

VARIABLES
  disk,     \* the two nginx directories
  running,  \* the configuration the nginx master has loaded
  pc,       \* where each request is
  job,      \* what each request does
  fp,       \* the paths of its transaction
  left,     \* the paths its current loop has not handled
  snap,     \* its snapshots, None where not captured
  target,   \* the file its mutation is writing
  victim,   \* the path it is about to remove or to recreate
  faults, crashes,
  scarred   \* files a crash or a failed rollback may have left half changed

vars == <<disk, running, pc, job, fp, left, snap, target, victim,
          faults, crashes, scarred>>
local == <<job, fp, left, snap, target, victim>>
env   == <<crashes, scarred>>

Resting   == {"idle", "ok", "failed"}
Sweeping  == {"clean", "sweep", "resweep"}
Mutating  == {"stale", "default", "write", "unlink", "link"}
Restoring == {"undo", "revert"}
Staging   == Mutating \cup Restoring \cup {"validate", "reload", "rereload"}
Phases    == Resting \cup Sweeping \cup Staging
               \cup {"disable", "removeConf", "scan", "capture"}

\* What a handler asks for: a platform written with some rendered content, the
\* catch-all installed (host reconciliation), or a platform deleted.
Jobs == [kind : {"write"}, site : Sites, content : Contents]
          \cup [kind : {"delete"}, site : Sites, content : {CatchallContent}]
          \cup [kind : {"catchall"}, site : {Catchall}, content : {CatchallContent}]
NoJob == [kind |-> "none", site |-> None, content |-> None]

(***************************************************************************)
(* What nginx makes of the directories.  An enabled link whose target is   *)
(* missing or refused breaks the whole tree, and so do two servers that    *)
(* are both the default one of port 80.                                    *)
(***************************************************************************)
Live(d, s)     == d[Enab(s)] = Linked
\* Mutant: every link is taken for a dangling one.
DanglingWithoutStat(d, s) == Live(d, s)
Dangling(d, s) == Live(d, s) /\ d[Avail(s)] = Absent
Broken(d) == {s \in Slots :
                \/ Live(d, s) /\ d[Avail(s)] \notin Accepted
                \/ s = Catchall /\ Live(d, Catchall) /\ Live(d, Default)}
Valid(d)  == Broken(d) = {}
Served(d) == [s \in Slots |-> IF Live(d, s) THEN d[Avail(s)] ELSE Absent]

\* Mutant: files left under a former name are not looked for.
NoStalePaths(j, d) == {}
\* The other files that mention the platform's domains, and the links to them.
StalePaths(j, d) ==
  {p \in (Sites \ {j.site}) \X {"available", "enabled"} :
     /\ <<j.site, p[1]>> \in Overlap
     /\ d[Avail(p[1])] # Absent
     /\ p[2] = "enabled" => Live(d, p[1])}

\* The catch-all of EnsureNginxUnknownHostReject, and what writeNginxConfig adds.
CatchallPaths == {Avail(Catchall), Enab(Catchall)}
RejectPaths   == CatchallPaths \cup {Enab(Default)}
OwnPaths(j)   == {Avail(j.site), Enab(j.site)} \cup CatchallPaths
StaleOf(r)    == {p \in fp[r] : p[1] \notin {job[r].site, Catchall}}

\* The order of the transaction's path list.
Rank(j, p) == (IF p[1] = j.site THEN 0 ELSE IF p[1] = Catchall THEN 2 ELSE 4)
                + (IF p[2] = "available" THEN 0 ELSE 1)
FirstOf(j, S) == {p \in S : \A q \in S : Rank(j, p) <= Rank(j, q)}
LastOf(j, S)  == {p \in S : \A q \in S : Rank(j, q) <= Rank(j, p)}

EnabledLinks == {Enab(s) : s \in {t \in Slots : Live(disk, t)}}
NoSnap == [p \in Paths |-> None]

(***************************************************************************)
(* The panel                                                               *)
(***************************************************************************)
Goto(r, step) == pc' = [pc EXCEPT ![r] = step]
Put(p, v)     == disk' = [disk EXCEPT ![p] = v]
Fault         == faults < MaxFaults /\ faults' = faults + 1
NoFault       == UNCHANGED faults

\* The handler returns.
Finish(r, result) ==
  /\ Goto(r, result)
  /\ job'    = [job EXCEPT ![r] = NoJob]
  /\ fp'     = [fp EXCEPT ![r] = {}]
  /\ left'   = [left EXCEPT ![r] = {}]
  /\ snap'   = [snap EXCEPT ![r] = NoSnap]
  /\ target' = [target EXCEPT ![r] = None]
  /\ victim' = [victim EXCEPT ![r] = None]

StartTransaction(r, paths) ==
  /\ Goto(r, "capture")
  /\ fp'   = [fp EXCEPT ![r] = paths]
  /\ left' = [left EXCEPT ![r] = paths]

\* restoreNginxPaths begins; "revert" reloads nginx afterwards.
StartRollback(r, how) ==
  /\ Goto(r, how)
  /\ left'   = [left EXCEPT ![r] = fp[r]]
  /\ victim' = [victim EXCEPT ![r] = None]

Begin(r) ==
  /\ pc[r] \in Resting
  /\ Overlapping \/ \A q \in Requests \ {r} : pc[q] \in Resting
  /\ \E j \in Jobs :
       /\ job' = [job EXCEPT ![r] = j]
       /\ \/ /\ j.kind = "write" /\ Goto(r, "clean")
             /\ left' = [left EXCEPT ![r] = EnabledLinks]
             /\ UNCHANGED fp
          \/ j.kind = "delete" /\ Goto(r, "disable") /\ UNCHANGED <<fp, left>>
          \/ j.kind = "catchall" /\ StartTransaction(r, RejectPaths)
  /\ UNCHANGED <<disk, running, snap, target, victim, faults, env>>

\* Delete: the platform's link and file go first, outside any transaction.
DisableConfig(r) ==
  /\ pc[r] = "disable"
  /\ Put(Enab(job[r].site), Absent)
  /\ Goto(r, "removeConf")
  /\ UNCHANGED <<running, local, faults, env>>

RemoveConfig(r) ==
  /\ pc[r] = "removeConf"
  /\ Put(Avail(job[r].site), Absent)
  /\ StartTransaction(r, RejectPaths)
  /\ UNCHANGED <<running, job, snap, target, victim, faults, env>>

\* cleanupDanglingNginxDir: each entry of one listing is examined, and removed
\* afterwards if its target was missing.
SweepEntry(r) ==
  /\ pc[r] \in Sweeping /\ victim[r] = None
  /\ \E p \in left[r] :
       /\ left'   = [left EXCEPT ![r] = @ \ {p}]
       /\ victim' = [victim EXCEPT ![r] = IF Dangling(disk, p[1]) THEN p ELSE None]
  /\ UNCHANGED <<disk, running, pc, job, fp, snap, target, faults, env>>

SweepRemove(r) ==
  /\ pc[r] \in Sweeping /\ victim[r] # None
  /\ Put(victim[r], Absent)
  /\ victim' = [victim EXCEPT ![r] = None]
  /\ UNCHANGED <<running, pc, job, fp, left, snap, target, faults, env>>

\* Before a platform is written one pass is made, after the catch-all is
\* installed one, and Delete makes a second.
SweepDone(r) ==
  /\ pc[r] \in Sweeping /\ victim[r] = None /\ left[r] = {}
  /\ \/ pc[r] = "clean" /\ Goto(r, "scan") /\ UNCHANGED local
     \/ /\ pc[r] = "sweep" /\ job[r].kind = "delete"
        /\ Goto(r, "resweep")
        /\ left' = [left EXCEPT ![r] = EnabledLinks]
        /\ UNCHANGED <<job, fp, snap, target, victim>>
     \/ /\ pc[r] = "resweep" \/ (pc[r] = "sweep" /\ job[r].kind # "delete")
        /\ Finish(r, "ok")
  /\ UNCHANGED <<disk, running, faults, env>>

\* staleNginxDomainConfigPaths: other files that mention the platform's domains.
ScanStale(r) ==
  /\ pc[r] = "scan"
  /\ StartTransaction(r, OwnPaths(job[r]) \cup StalePaths(job[r], disk))
  /\ UNCHANGED <<disk, running, job, snap, target, victim, faults, env>>

\* Mutant: a link is captured without its target.
CapturedWithoutTarget(p) == IF disk[p] = Linked THEN None ELSE disk[p]
Captured(p) == disk[p]

\* captureNginxPaths, one path at a time, then the first step of mutate.
Capture(r) ==
  /\ pc[r] = "capture"
  /\ \E p \in FirstOf(job[r], left[r]) :
       /\ snap' = [snap EXCEPT ![r][p] = Captured(p)]
       /\ IF left[r] # {p}
          THEN /\ left' = [left EXCEPT ![r] = @ \ {p}]
               /\ UNCHANGED <<pc, target>>
          ELSE /\ Goto(r, IF job[r].kind # "write" THEN "default"
                          ELSE IF StaleOf(r) # {} THEN "stale" ELSE "write")
               /\ left'   = [left EXCEPT ![r] = StaleOf(r)]
               /\ target' = [target EXCEPT ![r] = job[r].site]
  /\ UNCHANGED <<disk, running, job, fp, victim, faults, env>>

\* A failure before the transaction stages anything: the handler returns.
FailEarly(r) ==
  /\ pc[r] \in Sweeping \cup {"disable", "removeConf", "scan", "capture"}
  /\ Fault
  /\ Finish(r, "failed")
  /\ UNCHANGED <<disk, running, env>>

RemoveStale(r) ==
  /\ pc[r] = "stale"
  /\ \E p \in FirstOf(job[r], left[r]) :
       /\ Put(p, Absent)
       /\ left' = [left EXCEPT ![r] = @ \ {p}]
       /\ IF left[r] = {p} THEN Goto(r, "write") ELSE UNCHANGED pc
  /\ UNCHANGED <<running, job, fp, snap, target, victim, faults, env>>

DisableStockDefault(r) ==
  /\ pc[r] = "default"
  /\ IF Live(disk, Default) /\ disk[Avail(Default)] = StockContent
     THEN Put(Enab(Default), Absent) ELSE UNCHANGED disk
  /\ Goto(r, "write")
  /\ target' = [target EXCEPT ![r] = Catchall]
  /\ UNCHANGED <<running, job, fp, left, snap, victim, faults, env>>

WriteConfig(r) ==
  /\ pc[r] = "write"
  /\ Put(Avail(target[r]),
         IF target[r] = Catchall THEN CatchallContent ELSE job[r].content)
  /\ Goto(r, "unlink")
  /\ UNCHANGED <<running, local, faults, env>>

\* Mutant: the old link is not removed.
UnlinkSkipped(r) ==
  /\ pc[r] = "unlink" /\ Goto(r, "link")
  /\ UNCHANGED <<disk, running, local, faults, env>>
\* enableConfig: the old link is removed, whether or not that succeeds, and a
\* new one is made, which fails when a link is there.
Unlink(r) ==
  /\ pc[r] = "unlink"
  /\ \/ Put(Enab(target[r]), Absent) /\ NoFault
     \/ UNCHANGED disk /\ Fault
  /\ Goto(r, "link")
  /\ UNCHANGED <<running, local, env>>

Link(r) ==
  /\ pc[r] = "link" /\ ~Live(disk, target[r])
  /\ Put(Enab(target[r]), Linked)
  /\ IF target[r] = Catchall
     THEN Goto(r, "validate") /\ UNCHANGED target
     ELSE Goto(r, "write") /\ target' = [target EXCEPT ![r] = Catchall]
  /\ UNCHANGED <<running, job, fp, left, snap, victim, faults, env>>

LinkExists(r) ==
  /\ pc[r] = "link" /\ Live(disk, target[r])
  /\ StartRollback(r, "undo")
  /\ UNCHANGED <<disk, running, job, fp, snap, target, faults, env>>

MutateFails(r) ==
  /\ pc[r] \in Mutating \ {"unlink"} /\ Fault
  /\ StartRollback(r, "undo")
  /\ UNCHANGED <<disk, running, job, fp, snap, target, env>>

Validate(r) ==
  /\ pc[r] = "validate"
  /\ \/ /\ Valid(disk) /\ Goto(r, "reload") /\ NoFault
        /\ UNCHANGED <<left, victim>>
     \/ ~Valid(disk) /\ StartRollback(r, "undo") /\ NoFault
     \/ Fault /\ StartRollback(r, "undo")
  /\ UNCHANGED <<disk, running, job, fp, snap, target, env>>

\* nginx refuses to load a tree it cannot parse.
Reload(r) ==
  /\ pc[r] = "reload" /\ Valid(disk)
  /\ running' = Served(disk)
  /\ scarred' = {}
  /\ IF job[r].kind = "write" THEN Finish(r, "ok")
     ELSE /\ Goto(r, "sweep")
          /\ left' = [left EXCEPT ![r] = EnabledLinks]
          /\ UNCHANGED <<job, fp, snap, target, victim>>
  /\ UNCHANGED <<disk, faults, crashes>>

\* The command fails or times out, and nginx may have loaded the tree all the same.
ReloadFails(r) ==
  /\ pc[r] = "reload"
  /\ \/ Fault /\ (UNCHANGED running \/ (Valid(disk) /\ running' = Served(disk)))
     \/ ~Valid(disk) /\ NoFault /\ UNCHANGED running
  /\ StartRollback(r, "revert")
  /\ UNCHANGED <<disk, job, fp, snap, target, env>>

\* restoreNginxPaths: from the last path to the first, the entry is removed and
\* then made again from its snapshot; an error is noted and the loop goes on.
RestoreRemove(r) ==
  /\ pc[r] \in Restoring /\ victim[r] = None
  /\ \E p \in LastOf(job[r], left[r]) :
       /\ left' = [left EXCEPT ![r] = @ \ {p}]
       /\ \/ /\ Put(p, Absent) /\ NoFault
             /\ victim' = [victim EXCEPT ![r] =
                             IF snap[r][p] = Absent THEN None ELSE p]
             /\ UNCHANGED scarred
          \/ /\ FaultyRestore /\ Fault
             /\ scarred' = scarred \cup {p[1]}
             /\ UNCHANGED <<disk, victim>>
  /\ UNCHANGED <<running, pc, job, fp, snap, target, crashes>>

Recreate(r) ==
  /\ pc[r] \in Restoring /\ victim[r] # None
  /\ \/ /\ snap[r][victim[r]] = Linked => disk[victim[r]] = Absent
        /\ Put(victim[r], snap[r][victim[r]])
        /\ NoFault /\ UNCHANGED scarred
     \/ /\ snap[r][victim[r]] = Linked /\ disk[victim[r]] # Absent
        /\ scarred' = scarred \cup {victim[r][1]}
        /\ NoFault /\ UNCHANGED disk
     \/ /\ FaultyRestore /\ Fault
        /\ scarred' = scarred \cup {victim[r][1]}
        /\ UNCHANGED disk
  /\ victim' = [victim EXCEPT ![r] = None]
  /\ UNCHANGED <<running, pc, job, fp, left, snap, target, crashes>>

\* Mutant: the rollback returns at its first path.
RestoredTooSoon(r) == victim[r] = None
Restored(r) == victim[r] = None /\ left[r] = {}

Undone(r) ==
  /\ pc[r] = "undo" /\ Restored(r)
  /\ Finish(r, "failed")
  /\ UNCHANGED <<disk, running, faults, env>>

Revalidate(r) ==
  /\ pc[r] = "revert" /\ Restored(r)
  /\ \/ Valid(disk) /\ NoFault /\ Goto(r, "rereload") /\ UNCHANGED local
     \/ ~Valid(disk) /\ NoFault /\ Finish(r, "failed")
     \/ Fault /\ Finish(r, "failed")
  /\ UNCHANGED <<disk, running, env>>

Rereload(r) ==
  /\ pc[r] = "rereload"
  /\ \/ Valid(disk) /\ NoFault /\ running' = Served(disk)
     \/ ~Valid(disk) /\ NoFault /\ UNCHANGED running
     \/ Fault /\ UNCHANGED running
  /\ Finish(r, "failed")
  /\ UNCHANGED <<disk, env>>

\* The slots a request has staged and has not yet committed or restored.
Touched(r) == IF pc[r] \in Staging THEN {p[1] : p \in fp[r]} ELSE {}

\* The panel's process dies.  The files and nginx stay.
Crash ==
  /\ crashes < MaxCrashes
  /\ \E r \in Requests : pc[r] \notin Resting
  /\ crashes' = crashes + 1
  /\ scarred' = scarred \cup UNION {Touched(r) : r \in Requests}
  /\ pc'     = [r \in Requests |-> "idle"]
  /\ job'    = [r \in Requests |-> NoJob]
  /\ fp'     = [r \in Requests |-> {}]
  /\ left'   = [r \in Requests |-> {}]
  /\ snap'   = [r \in Requests |-> NoSnap]
  /\ target' = [r \in Requests |-> None]
  /\ victim' = [r \in Requests |-> None]
  /\ UNCHANGED <<disk, running, faults>>

-----------------------------------------------------------------------------
\* A new host: only the distribution's default server is there.
FreshDisk == [p \in Paths |-> IF p = Avail(Default) THEN StockContent
                              ELSE IF p = Enab(Default) THEN Linked ELSE Absent]
Init ==
  /\ disk = FreshDisk
  /\ running = Served(FreshDisk)
  /\ pc     = [r \in Requests |-> "idle"]
  /\ job    = [r \in Requests |-> NoJob]
  /\ fp     = [r \in Requests |-> {}]
  /\ left   = [r \in Requests |-> {}]
  /\ snap   = [r \in Requests |-> NoSnap]
  /\ target = [r \in Requests |-> None]
  /\ victim = [r \in Requests |-> None]
  /\ faults = 0 /\ crashes = 0 /\ scarred = {}

\* A request's steps once it has begun.
Step(r) ==
  \/ DisableConfig(r) \/ RemoveConfig(r)
  \/ SweepEntry(r) \/ SweepRemove(r) \/ SweepDone(r)
  \/ ScanStale(r) \/ Capture(r) \/ FailEarly(r)
  \/ RemoveStale(r) \/ DisableStockDefault(r) \/ WriteConfig(r)
  \/ Unlink(r) \/ Link(r) \/ LinkExists(r) \/ MutateFails(r)
  \/ Validate(r) \/ Reload(r) \/ ReloadFails(r)
  \/ RestoreRemove(r) \/ Recreate(r) \/ Undone(r) \/ Revalidate(r) \/ Rereload(r)

Next == Crash \/ \E r \in Requests : Begin(r) \/ Step(r)

Spec == Init /\ [][Next]_vars
\* A handler that has begun runs to its end: every command has a timeout.
FairSpec == Spec /\ \A r \in Requests : WF_vars(Step(r))
-----------------------------------------------------------------------------
\* The paths hold files, links or nothing, each request of the service is in one of
\* the phases of its handler with a job of a kind the handlers ask for, and its
\* snapshots (map[string]nginxPathSnapshot) are of paths of the two directories.
TypeOK ==
  /\ disk \in [Paths -> Values]
  /\ running \in [Slots -> Values]
  /\ pc \in [Requests -> Phases]
  /\ job \in [Requests -> Jobs \cup {NoJob}]
  /\ fp \in [Requests -> SUBSET Paths]
  /\ left \in [Requests -> SUBSET Paths]
  /\ snap \in [Requests -> [Paths -> Values \cup {None}]]
  /\ target \in [Requests -> Slots \cup {None}]
  /\ victim \in [Requests -> Paths \cup {None}]
  /\ faults \in 0..MaxFaults
  /\ crashes \in 0..MaxCrashes
  /\ scarred \in SUBSET Slots
\* A configuration nginx would refuse is enabled only where a request in flight
\* has staged something it will validate or take back, or where a crash or a
\* failed rollback interrupted one since the last successful transaction: what
\* applyNginxTransaction's rollback is for, over all its failures.
BrokenAccounted ==
  Broken(disk) \subseteq scarred \cup UNION {Touched(r) : r \in Requests}

\* With every request at rest, the enabled tree is one nginx accepts
\* (TestNginxTransactionRestoresPreviousConfigOnValidationFailure).
NoBrokenConfigAtRest ==
  (\A r \in Requests : pc[r] \in Resting) => Valid(disk)

\* A link to an existing file disappears only by the hand of a transaction that
\* holds it in its snapshots or of the deletion of its platform: the cleanup of
\* dangling entries never takes a live one.
LiveLinksKept ==
  [][\A s \in Slots :
       Live(disk, s) /\ disk[Avail(s)] # Absent /\ disk'[Enab(s)] = Absent
         => \E r \in Requests :
              s \in Touched(r) \/ (pc[r] = "disable" /\ job[r].site = s)]_vars

\* What a handler reports is true: after a success nginx serves exactly what is on disk, and
\* a well-formed virtual host is refused only if some command failed, a crash left the tree
\* half changed, or the stock default server still holds port 80: one platform's bad
\* configuration never makes another platform's change fail.
OutcomesTrue ==
  [][\A r \in Requests :
       /\ pc[r] # "ok" /\ pc'[r] = "ok" => running' = Served(disk')
       /\ pc[r] \notin Resting /\ pc'[r] = "failed"
            => \/ job[r].kind # "write" \/ job[r].content \notin Accepted
               \/ faults' > 0 \/ crashes > 0 \/ Live(disk, Default)]_vars

\* A broken staged tree is always mended, by completion or by rollback.
BrokenFlushed == (Broken(disk) # {}) ~> (Broken(disk) = {})

(***************************************************************************)
(* The transaction implements an atomic store.  While a transaction is     *)
(* under way the store is what its snapshots would give back.              *)
(***************************************************************************)
Base(r) == [p \in Paths |-> IF p \in fp[r] THEN snap[r][p] ELSE disk[p]]
Settled == IF \E r \in Requests : pc[r] \in Staging
           THEN Served(Base(CHOOSE r \in Requests : pc[r] \in Staging))
           ELSE Served(disk)
Store == INSTANCE ConfigStore WITH config <- Settled, active <- running
\* Transactions taken in turns, whose rollback steps do not fail, are atomic.
ImplementsConfigStore == Store!Spec
=============================================================================

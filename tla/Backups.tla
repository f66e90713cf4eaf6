------------------------------- MODULE Backups -------------------------------
(***************************************************************************)
(* The backups of one platform (CreateBackup and RestoreBackup in           *)
(* src/internal/services/platform_ops_service.go): archives of its home and *)
(* of dumps of its databases, and a row for each.                           *)
(*                                                                          *)
(* The platform goes on working while it is saved or restored.  A restore   *)
(* makes a backup of its own first, then extracts the home file by file in  *)
(* the order of the archive, then replays the dumps one by one.  An archive *)
(* is named for the second its backup began in.                             *)
(***************************************************************************)
EXTENDS Integers

CONSTANTS
  BkFiles,        \* files of the home, numbered in the order filepath.Walk finds them
  BkLinks,        \* those that are symbolic links to an absolute path
  BkDerived,      \* those the panel makes itself, from its rows and the files beside them:
                  \* runtime.env, .user.ini, node_modules and lock files, the virtualenv, tools
  BkStores,       \* attached databases, then Redis instances, as the manifest lists them
  MaxBackups,     \* bound on the rows ever made
  BkSameSecond,   \* may two backups begin in one second?
  MaxEdits,       \* bound on the changes users make
  MaxBkFailures,  \* bound on failing steps and panel crashes
  NoBk

BkRows   == 1..MaxBackups
Half     == MaxEdits + 1      \* what a step that broke off leaves
Anew     == MaxEdits + 2      \* what the panel makes of a file of its own
Versions == 0..Anew
Contents == [home : [BkFiles -> Versions \cup {NoBk}], data : [BkStores -> Versions \cup {NoBk}]]
BackupRow == [status : {"running", "completed", "failed"}, kind : {"manual", "pre-restore"},
              file : BkRows]

ASSUME BackupsAssumption ==
  /\ MaxBackups \in Nat /\ MaxEdits \in Nat /\ MaxBkFailures \in Nat
  /\ BkFiles \subseteq Nat \ {0} /\ BkStores \subseteq Nat \ {0} /\ BkLinks \subseteq BkFiles
  /\ BkDerived \subseteq BkFiles
  /\ BkSameSecond \in BOOLEAN
  /\ NoBk \notin Int \cup Contents \cup BackupRow

VARIABLES
  platform,   \* its home and its databases: a version of each, or none
  backups,    \* table platform_backups
  archives,   \* the archive of each second
  bk,         \* the request that is running
  second,     \* the second the last backup began in
  edits, bkFailures,
  saved       \* what each backup was to hold, unless users changed it meanwhile

bkVars == <<platform, backups, archives, bk, second, edits, bkFailures, saved>>

NoBkReq == [pc |-> "idle", op |-> "none", row |-> NoBk, from |-> NoBk, wanted |-> NoBk,
            held |-> NoBk, at |-> 0, disturbed |-> FALSE]
BkRequestStates ==
  [pc : {"idle", "dump", "pack", "complete", "extract", "replay", "repair"},
   op : {"none", "backup", "restore"}, row : BkRows \cup {NoBk}, from : BkRows \cup {NoBk},
   wanted : Contents \cup {NoBk},   \* the archive the operator chose, as it was then
   held : Contents \cup {NoBk},     \* the dumps, or the archive that is being restored
   at : {0} \cup BkFiles \cup BkStores, disturbed : BOOLEAN]

-----------------------------------------------------------------------------
BkFault == bkFailures < MaxBkFailures /\ bkFailures' = bkFailures + 1
BkWorks == UNCHANGED bkFailures
BkEnds  == bk' = NoBkReq
Recorded    == {i \in BkRows : backups[i] # NoBk}
FileOf(i) == backups[i].file

(* CreateBackup *)
\* Mutant: the name of an archive does not tell the time of day.
SameName == {IF second = 0 THEN 1 ELSE second}
ArchiveName == IF BkSameSecond /\ second > 0 THEN {second, second + 1} ELSE {second + 1}

\* The row is there before the archive.
Begin(kind, op, from, wanted) ==
  /\ bk.pc = "idle"
  /\ \E i \in BkRows \ Recorded, file \in ArchiveName \cap BkRows :
       /\ \A j \in BkRows \ Recorded : i <= j
       /\ backups' = [backups EXCEPT ![i] = [status |-> "running", kind |-> kind, file |-> file]]
       /\ second' = file /\ saved' = [saved EXCEPT ![i] = platform]
       /\ bk' = [NoBkReq EXCEPT !.pc = "dump", !.op = op, !.row = i, !.from = from,
                                !.wanted = wanted]
  /\ BkWorks /\ UNCHANGED <<platform, archives, edits>>
BeginBackup == Begin("manual", "backup", NoBk, NoBk)

\* The row of a backup that failed says so, if it can be written.
BackupFails ==
  /\ BkFault /\ BkEnds
  /\ \E status \in {"failed", "running"} : backups' = [backups EXCEPT ![bk.row].status = status]
  /\ UNCHANGED <<platform, archives, second, edits, saved>>

\* preparePlatformBackupExtras: every attached database is dumped.
DumpStores ==
  /\ bk.pc = "dump"
  /\ \/ /\ bk' = [bk EXCEPT !.pc = "pack", !.held = platform]
        /\ BkWorks /\ UNCHANGED <<platform, backups, archives, second, edits, saved>>
     \/ BackupFails

\* writeTarGz: beside the archive, then renamed.
PackHome ==
  /\ bk.pc = "pack"
  /\ \/ /\ archives' = [archives EXCEPT ![FileOf(bk.row)] =
                          [home |-> platform.home, data |-> bk.held.data]]
        /\ bk' = [bk EXCEPT !.pc = "complete"]
        /\ BkWorks /\ UNCHANGED <<platform, backups, second, edits, saved>>
     \/ BackupFails

\* Mutant: the archive of the backup made just before.
OwnArchive == archives[FileOf(bk.row)]
ChosenArchive == archives[FileOf(bk.from)]
\* A restore goes on with the archive as it is now.
CompleteBackup ==
  /\ bk.pc = "complete"
  /\ \/ /\ backups' = [backups EXCEPT ![bk.row].status = "completed"]
        /\ IF bk.op = "backup" THEN BkEnds
           ELSE bk' = [bk EXCEPT !.pc = "extract", !.held = ChosenArchive]
        /\ BkWorks
     \/ BkFault /\ BkEnds /\ UNCHANGED backups
  /\ UNCHANGED <<platform, archives, second, edits, saved>>

-----------------------------------------------------------------------------
(* RestoreBackup *)
BeginRestore ==
  \E i \in Recorded : /\ backups[i].status = "completed" /\ archives[FileOf(i)] # NoBk
                  /\ Begin("pre-restore", "restore", i, archives[FileOf(i)])
\* Not completed, no archive, or another platform's.
RestoreRefused == bk.pc = "idle" /\ UNCHANGED bkVars

Least(S) == CHOOSE k \in S : \A l \in S : k <= l
Rest(part) == {k \in DOMAIN part : k > bk.at /\ part[k] # NoBk}

\* extractTarGzSafe: over what is there; files made since remain.
\* A link to an absolute path ends it where it stands.
ExtractFile ==
  /\ bk.pc = "extract"
  /\ LET rest == Rest(bk.held.home)
         k    == Least(rest)
     IN  \/ /\ rest = {}
            /\ bk' = [bk EXCEPT !.pc = "replay", !.at = 0] /\ BkWorks /\ UNCHANGED platform
         \/ /\ rest # {} /\ k \in BkLinks
            /\ BkEnds /\ BkWorks /\ UNCHANGED platform
         \/ /\ rest # {} /\ k \notin BkLinks
            /\ \/ /\ platform' = [platform EXCEPT !.home[k] = bk.held.home[k]]
                  /\ bk' = [bk EXCEPT !.at = k] /\ BkWorks
               \/ /\ platform' \in {platform, [platform EXCEPT !.home[k] = Half]}
                  /\ BkFault /\ BkEnds
  /\ UNCHANGED <<backups, archives, second, edits, saved>>

\* restorePlatformBackupData: a connection that is gone ends it, too.
ReplayDump ==
  /\ bk.pc = "replay"
  /\ LET rest == Rest(bk.held.data)
         k    == Least(rest)
     IN  \/ /\ rest = {}
            /\ bk' = [bk EXCEPT !.pc = "repair"] /\ BkWorks /\ UNCHANGED platform
         \/ /\ rest # {} /\ platform.data[k] = NoBk
            /\ BkEnds /\ BkWorks /\ UNCHANGED platform
         \/ /\ rest # {} /\ platform.data[k] # NoBk
            /\ \/ /\ platform' = [platform EXCEPT !.data[k] = bk.held.data[k]]
                  /\ bk' = [bk EXCEPT !.at = k] /\ BkWorks
               \/ /\ platform' \in {platform, [platform EXCEPT !.data[k] = Half]}
                  /\ BkFault /\ BkEnds
  /\ UNCHANGED <<backups, archives, second, edits, saved>>

\* RepairPlatform makes the files the panel derives again, over those the archive held: the
\* configuration first, then what the application runs with, each replaced or removed.
RemakeDerived ==
  /\ bk.pc = "repair"
  /\ \E k \in BkDerived, v \in {Anew, NoBk} : platform' = [platform EXCEPT !.home[k] = v]
  /\ BkWorks /\ UNCHANGED <<backups, archives, bk, second, edits, saved>>

RepairRestored ==
  /\ bk.pc = "repair" /\ BkEnds
  /\ \/ (BkWorks \/ BkFault) /\ UNCHANGED platform
     \/ BkFault /\ \E k \in BkDerived : platform' = [platform EXCEPT !.home[k] = Half]
  /\ UNCHANGED <<backups, archives, second, edits, saved>>

-----------------------------------------------------------------------------
\* Users change or remove files, the platform writes to its databases, a connection is
\* deleted: at any time.
Edit ==
  /\ edits < MaxEdits /\ edits' = edits + 1
  /\ \E v \in {edits + 1, NoBk} :
       \/ \E k \in BkFiles : platform' = [platform EXCEPT !.home[k] = v]
       \/ \E k \in BkStores : /\ platform.data[k] # NoBk
                              /\ platform' = [platform EXCEPT !.data[k] = v]
  /\ bk' = [bk EXCEPT !.disturbed = bk.pc # "idle"]
  /\ saved' = IF bk.pc \in {"dump", "pack"} THEN [saved EXCEPT ![bk.row] = NoBk] ELSE saved
  /\ BkWorks /\ UNCHANGED <<backups, archives, second>>

\* A row that says running stays so.
BkCrash == /\ bk.pc # "idle" /\ BkFault /\ BkEnds
           /\ UNCHANGED <<platform, backups, archives, second, edits, saved>>

-----------------------------------------------------------------------------
BackupsInit ==
  /\ platform = [home |-> [k \in BkFiles |-> 0], data |-> [k \in BkStores |-> 0]]
  /\ backups = [i \in BkRows |-> NoBk] /\ archives = [i \in BkRows |-> NoBk]
  /\ bk = NoBkReq /\ second = 0 /\ edits = 0 /\ bkFailures = 0
  /\ saved = [i \in BkRows |-> NoBk]

BackupsNext ==
  \/ BeginBackup \/ DumpStores \/ PackHome \/ CompleteBackup
  \/ BeginRestore \/ RestoreRefused \/ ExtractFile \/ ReplayDump \/ RemakeDerived
  \/ RepairRestored
  \/ Edit \/ BkCrash
BackupsSpec == BackupsInit /\ [][BackupsNext]_bkVars

-----------------------------------------------------------------------------
(* Properties *)

BackupsTypeOK ==
  /\ platform \in Contents
  /\ backups \in [BkRows -> BackupRow \cup {NoBk}]
  /\ archives \in [BkRows -> Contents \cup {NoBk}] /\ saved \in [BkRows -> Contents \cup {NoBk}]
  /\ bk \in BkRequestStates /\ second \in {0} \cup BkRows
  /\ edits \in 0..MaxEdits /\ bkFailures \in 0..MaxBkFailures

\* A backup the panel shows as completed holds what the platform was when it began, the one
\* before a restore included, whatever was backed up, restored or broken off since
\* (readme.md:259, CreateBackup, writeTarGz).
BackupsHold ==
  \A i \in Recorded : backups[i].status = "completed" /\ saved[i] # NoBk =>
                    archives[FileOf(i)] = saved[i]

\* Every database of the backup the operator chose is there again, and every file but those
\* the panel derives.
Restored(old, now) ==
  /\ \A k \in BkFiles \ BkDerived : old.home[k] # NoBk => now.home[k] = old.home[k]
  /\ \A k \in BkStores : old.data[k] # NoBk => now.data[k] = old.data[k]
Attached(old) == \A k \in BkStores : old.data[k] # NoBk => platform.data[k] # NoBk
\* A restore in which nothing fails, of a platform that still has the databases and that
\* nobody changes meanwhile, brings the backup back, and the repair at its end leaves what was
\* brought back (RestoreBackup, RepairPlatform, readme.md:259, :474).
RestoreBrings ==
  [][bk.op = "restore" /\ bk'.pc = "idle" /\ bkFailures' = bkFailures
       /\ ~bk.disturbed /\ Attached(bk.wanted) => Restored(bk.wanted, platform')]_bkVars

\* What the panel shows as completed, and what a restore is bringing back.
CompletedStates ==
  [i \in BkRows |-> IF i \in Recorded /\ backups[i].status = "completed" THEN archives[FileOf(i)]
                    ELSE NoBk]
BringingBack == IF bk.pc \in {"extract", "replay", "repair"} THEN bk.from ELSE NoBk
BackupPromise ==
  INSTANCE EarlierStates WITH
    Files <- BkFiles, Stores <- BkStores, Values <- Versions \cup {NoBk}, Torn <- Half,
    Derived <- BkDerived, Rows <- BkRows,
    First <- [home |-> [k \in BkFiles |-> 0], data |-> [k \in BkStores |-> 0]],
    None <- NoBk, now <- platform, meant <- saved, earlier <- CompletedStates,
    chosen <- BringingBack
\* Backups and restores, apart by a second, keep earlier states and bring them back.
ImplementsEarlierStates == BackupPromise!Spec
=============================================================================

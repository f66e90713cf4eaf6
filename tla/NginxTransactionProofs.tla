----------------------- MODULE NginxTransactionProofs -----------------------
(* Proofs about NginxTransaction, for every value of its constants. *)
EXTENDS NginxTransaction, TLAPS

\* The paths and values of a slot.
LEMMA SlotFacts ==
  /\ \A s \in Slots : Avail(s) \in Paths /\ Enab(s) \in Paths
  /\ \A p \in Paths : p[1] \in Slots /\ (p = Avail(p[1]) \/ p = Enab(p[1]))
  /\ \A s, t \in Slots : Avail(s) # Enab(t)
  /\ \A s, t \in Slots : s # t => Avail(s) # Avail(t) /\ Enab(s) # Enab(t)
  /\ Catchall \in Slots /\ Default \in Slots /\ Sites \subseteq Slots
  /\ Catchall # Default /\ Catchall \notin Sites /\ Default \notin Sites
BY ConstantsAssumption DEF Slots, Paths, Avail, Enab

\* The values a path may hold.
LEMMA ValueFacts ==
  /\ Absent \in Values /\ Linked \in Values /\ Files \subseteq Values
  /\ CatchallContent \in Files /\ Contents \subseteq Files
  /\ Absent # Linked /\ None \notin Values /\ None \notin Paths
BY ConstantsAssumption DEF Values, Files

\* What a handler asks for.
LEMMA JobFacts ==
  \A j \in Jobs : /\ j.kind \in {"write", "delete", "catchall"}
                  /\ j.site \in Slots /\ j.content \in Files
                  /\ j.kind # "catchall" => j.site \in Sites
BY SlotFacts, ValueFacts DEF Jobs

Links == {Enab(s) : s \in Slots}
\* The path lists of the transactions are lists of paths.
LEMMA PathSetFacts ==
  /\ RejectPaths \subseteq Paths /\ Enab(Catchall) \in RejectPaths
  /\ EnabledLinks \subseteq Paths /\ EnabledLinks \subseteq Links
  /\ \A j \in Jobs : /\ OwnPaths(j) \subseteq Paths /\ Enab(Catchall) \in OwnPaths(j)
                     /\ StalePaths(j, disk) \subseteq Paths
  /\ NoSnap \in [Paths -> Values \cup {None}]
  /\ FreshDisk \in [Paths -> Values]
<1>1. RejectPaths \subseteq Paths /\ Enab(Catchall) \in RejectPaths
  BY SlotFacts DEF RejectPaths, CatchallPaths
<1>2. EnabledLinks \subseteq Paths /\ EnabledLinks \subseteq Links
  BY SlotFacts DEF EnabledLinks, Links
<1>3. ASSUME NEW j \in Jobs
      PROVE  /\ OwnPaths(j) \subseteq Paths /\ Enab(Catchall) \in OwnPaths(j)
             /\ StalePaths(j, disk) \subseteq Paths
  BY SlotFacts, JobFacts DEF OwnPaths, CatchallPaths, StalePaths, Paths, Slots
<1>4. NoSnap \in [Paths -> Values \cup {None}]
  BY DEF NoSnap
<1>5. FreshDisk \in [Paths -> Values]
  BY ValueFacts DEF FreshDisk, Files
<1> QED BY <1>1, <1>2, <1>3, <1>4, <1>5

\* What nginx serves of a tree.
LEMMA ServedType ==
  ASSUME NEW d \in [Paths -> Values]
  PROVE  Served(d) \in [Slots -> Values]
BY SlotFacts, ValueFacts DEF Served

-----------------------------------------------------------------------------
(* Type correctness. *)
\* A handler that returns leaves well-typed variables.
LEMMA FinishType ==
  ASSUME TypeOK, NEW r \in Requests, NEW result \in Resting, Finish(r, result)
  PROVE  /\ pc' \in [Requests -> Phases] /\ job' \in [Requests -> Jobs \cup {NoJob}]
         /\ fp' \in [Requests -> SUBSET Paths] /\ left' \in [Requests -> SUBSET Paths]
         /\ snap' \in [Requests -> [Paths -> Values \cup {None}]]
         /\ target' \in [Requests -> Slots \cup {None}]
         /\ victim' \in [Requests -> Paths \cup {None}]
BY PathSetFacts DEF TypeOK, Finish, Goto, Phases

\* Writing one path.
LEMMA PutType ==
  ASSUME TypeOK, NEW p, NEW v \in Values, Put(p, v)
  PROVE  disk' \in [Paths -> Values]
BY DEF TypeOK, Put

\* The count of faults stays within its bound.
LEMMA FaultType ==
  ASSUME TypeOK, Fault \/ NoFault
  PROVE  faults' \in 0..MaxFaults
BY ConstantsAssumption DEF TypeOK, Fault, NoFault

\* A new host is well typed.
LEMMA InitType == Init => TypeOK
BY PathSetFacts, ServedType, ConstantsAssumption
   DEF Init, TypeOK, Phases, Resting

(***************************************************************************)
(* What a request knows of its own transaction: it has a job while in      *)
(* flight, it has captured every path it may have to give back, and what   *)
(* it writes lies within those paths.                                      *)
(***************************************************************************)
Scope(j) == IF j.kind = "write" THEN OwnPaths(j) ELSE RejectPaths
Writing  == {"stale", "write", "unlink", "link"}
ReqOK(r) ==
  /\ pc[r] \notin Resting => job[r] \in Jobs
  /\ pc[r] \notin Sweeping \cup Restoring => victim[r] = None
  /\ pc[r] \in Staging \cup {"capture"} =>
       /\ Scope(job[r]) \subseteq fp[r]
       /\ left[r] \subseteq fp[r]
       /\ victim[r] \in fp[r] \cup {None}
       /\ \A p \in fp[r] : snap[r][p] \in Values \/ (pc[r] = "capture" /\ p \in left[r])
  /\ pc[r] \in Writing =>
       target[r] = Catchall \/ (job[r].kind = "write" /\ target[r] = job[r].site)
  /\ pc[r] \in {"disable", "removeConf", "default"} => job[r].kind # "write"
  /\ pc[r] \in {"clean", "scan"} => job[r].kind = "write"
  /\ pc[r] \in Sweeping => left[r] \subseteq Links /\ victim[r] \in Links \cup {None}
TypeInv == TypeOK /\ \A r \in Requests : ReqOK(r)

\* The steps of a request leave the others' variables alone.
LEMMA Others ==
  ASSUME TypeOK, NEW r \in Requests, Begin(r) \/ Step(r), NEW q \in Requests, q # r
  PROVE  /\ pc'[q] = pc[q] /\ job'[q] = job[q] /\ fp'[q] = fp[q] /\ left'[q] = left[q]
         /\ snap'[q] = snap[q] /\ target'[q] = target[q] /\ victim'[q] = victim[q]
<1> USE DEF TypeOK, local, Goto, Finish, StartTransaction, StartRollback
<1>1. CASE Begin(r)
  BY <1>1 DEF Begin
<1>2. CASE DisableConfig(r) \/ RemoveConfig(r) \/ SweepEntry(r) \/ SweepRemove(r)
  BY <1>2 DEF DisableConfig, RemoveConfig, SweepEntry, SweepRemove
<1>3. CASE SweepDone(r)
  BY <1>3 DEF SweepDone
<1>4. CASE ScanStale(r) \/ Capture(r) \/ FailEarly(r) \/ RemoveStale(r)
  BY <1>4 DEF ScanStale, Capture, FailEarly, RemoveStale
<1>5. CASE DisableStockDefault(r) \/ WriteConfig(r) \/ Unlink(r) \/ Link(r)
  BY <1>5 DEF DisableStockDefault, WriteConfig, Unlink, Link
<1>6. CASE LinkExists(r) \/ MutateFails(r) \/ Validate(r) \/ ReloadFails(r)
  BY <1>6 DEF LinkExists, MutateFails, Validate, ReloadFails
<1>7. CASE Reload(r)
  BY <1>7 DEF Reload
<1>8. CASE RestoreRemove(r) \/ Recreate(r) \/ Undone(r)
  BY <1>8 DEF RestoreRemove, Recreate, Undone
<1>9. CASE Revalidate(r) \/ Rereload(r)
  BY <1>9 DEF Revalidate, Rereload
<1> QED BY <1>1, <1>2, <1>3, <1>4, <1>5, <1>6, <1>7, <1>8, <1>9 DEF Step

\* A handler that has returned knows nothing of a transaction.
LEMMA FinishReq ==
  ASSUME TypeOK, NEW r \in Requests, NEW result \in Resting, Finish(r, result)
  PROVE  ReqOK(r)'
BY DEF TypeOK, Finish, Goto, ReqOK, Resting, Sweeping, Staging, Restoring, Mutating, Writing

\* restoreNginxPaths begins with every path of its transaction.
LEMMA RollbackReq ==
  ASSUME TypeOK, NEW r \in Requests, ReqOK(r), pc[r] \in Staging, NEW how \in Restoring,
         StartRollback(r, how), UNCHANGED <<job, fp, snap, target>>
  PROVE  ReqOK(r)'
BY
DEF TypeOK, StartRollback, Goto, ReqOK, Resting, Sweeping, Staging, Restoring, Mutating, Writing

\* A transaction begins with no snapshot taken.
LEMMA StartReq ==
  ASSUME TypeOK, NEW r \in Requests, NEW paths \in SUBSET Paths, StartTransaction(r, paths),
         victim'[r] = None, job'[r] \in Jobs, Scope(job'[r]) \subseteq paths
  PROVE  ReqOK(r)'
<1>1. pc'[r] = "capture" /\ fp'[r] = paths /\ left'[r] = paths
  BY DEF TypeOK, StartTransaction, Goto
<1> QED BY <1>1 DEF ReqOK, Writing, Resting, Sweeping, Restoring

\* A step outside any transaction.
LEMMA OutsideReq ==
  ASSUME NEW r \in Requests, pc'[r] \in Sweeping \cup {"disable", "removeConf", "scan"},
         victim'[r] = None \/ (pc'[r] \in Sweeping /\ victim'[r] \in Links),
         pc'[r] \in Sweeping => left'[r] \subseteq Links,
         job'[r] \in Jobs,
         pc'[r] \in {"disable", "removeConf"} => job'[r].kind # "write",
         pc'[r] \in {"clean", "scan"} => job'[r].kind = "write"
  PROVE  ReqOK(r)'
BY DEF ReqOK, Writing, Staging, Mutating, Resting, Sweeping, Restoring

\* Beginning a request keeps the type invariant.
LEMMA BeginTypeInv ==
  ASSUME TypeOK, NEW r \in Requests, ReqOK(r), Begin(r)
  PROVE  TypeOK' /\ ReqOK(r)'
<1>1. PICK j \in Jobs :
        /\ job' = [job EXCEPT ![r] = j]
        /\ \/ /\ j.kind = "write" /\ Goto(r, "clean")
              /\ left' = [left EXCEPT ![r] = EnabledLinks]
              /\ UNCHANGED fp
           \/ j.kind = "delete" /\ Goto(r, "disable") /\ UNCHANGED <<fp, left>>
           \/ j.kind = "catchall" /\ StartTransaction(r, RejectPaths)
  BY DEF Begin
<1>2. TypeOK'
  BY <1>1, PathSetFacts
     DEF Begin, TypeOK, Goto, StartTransaction, Phases, Sweeping, env
<1>3. victim[r] = None /\ UNCHANGED <<snap, target, victim>>
  BY DEF Begin, ReqOK, Resting, Sweeping, Restoring
<1>4. job'[r] = j /\ victim'[r] = None
  BY <1>1, <1>3 DEF TypeOK
<1>5. CASE j.kind = "catchall"
  <2>1. StartTransaction(r, RejectPaths)
    BY <1>1, <1>5
  <2>2. Scope(job'[r]) \subseteq RejectPaths
    BY <1>4, <1>5 DEF Scope
  <2> QED BY <1>2, <1>4, <2>1, <2>2, StartReq, PathSetFacts
<1>6. CASE j.kind # "catchall"
  <2>1. pc'[r] = IF j.kind = "write" THEN "clean" ELSE "disable"
    BY <1>1, <1>6 DEF TypeOK, Goto
  <2>2. CASE j.kind = "write"
    <3>1. left'[r] \subseteq Links
      BY <1>1, <2>2, PathSetFacts DEF TypeOK
    <3> QED BY <1>2, <1>4, <2>1, <2>2, <3>1, OutsideReq DEF Sweeping
  <2>3. CASE j.kind # "write"
    BY <1>2, <1>4, <2>1, <2>3, OutsideReq DEF Sweeping
  <2> QED BY <2>2, <2>3
<1> QED BY <1>5, <1>6

\* Only a request that has begun takes steps.
LEMMA StepInFlight ==
  ASSUME NEW r \in Requests, Step(r)
  PROVE  pc[r] \notin Resting
BY DEF Step, Resting, Sweeping, Mutating, Restoring, DisableConfig, RemoveConfig,
   SweepEntry, SweepRemove, SweepDone, ScanStale, Capture, FailEarly, RemoveStale,
   DisableStockDefault, WriteConfig, Unlink, Link, LinkExists, MutateFails, Validate,
   Reload, ReloadFails, RestoreRemove, Recreate, Undone, Revalidate, Rereload

\* Every step of a request keeps the types.
LEMMA StepType ==
  ASSUME TypeOK, NEW r \in Requests, ReqOK(r), Step(r)
  PROVE  TypeOK'
<1> USE DEF local, env
<1>1. job[r] \in Jobs
  BY StepInFlight DEF ReqOK
<1>2. CASE DisableConfig(r)
  BY <1>2, PutType, ValueFacts DEF DisableConfig, TypeOK, Goto, Phases
<1>3. CASE RemoveConfig(r)
  BY <1>3, PutType, ValueFacts, PathSetFacts
  DEF RemoveConfig, TypeOK, Goto, StartTransaction, Phases
<1>4. CASE SweepEntry(r)
  BY <1>4 DEF SweepEntry, TypeOK
<1>5. CASE SweepRemove(r)
  BY <1>5, PutType, ValueFacts DEF SweepRemove, TypeOK
<1>6. CASE SweepDone(r)
  BY <1>6, FinishType, PathSetFacts DEF SweepDone, TypeOK, Goto, Phases, Resting, Sweeping
<1>7. CASE ScanStale(r)
  <2>1. OwnPaths(job[r]) \cup StalePaths(job[r], disk) \subseteq Paths
    BY <1>1, PathSetFacts
  <2> QED BY <1>7, <2>1 DEF ScanStale, TypeOK, Goto, StartTransaction, Phases
<1>8. CASE Capture(r)
  <2>1. PICK p \in left[r] :
          /\ snap' = [snap EXCEPT ![r][p] = disk[p]]
          /\ \/ left' = [left EXCEPT ![r] = @ \ {p}] /\ UNCHANGED <<pc, target>>
             \/ /\ \E step \in Mutating : Goto(r, step)
                /\ left' = [left EXCEPT ![r] = StaleOf(r)]
                /\ target' = [target EXCEPT ![r] = job[r].site]
    BY <1>8 DEF Capture, FirstOf, Captured, Mutating
  <2>2. StaleOf(r) \subseteq Paths /\ job[r].site \in Slots /\ p \in Paths /\ disk[p] \in Values
    BY <1>1, JobFacts DEF StaleOf, TypeOK
  <2>3. snap' \in [Requests -> [Paths -> Values \cup {None}]]
    BY <2>1, <2>2 DEF TypeOK
  <2>4. left' \in [Requests -> SUBSET Paths]
    BY <2>1, <2>2 DEF TypeOK
  <2>5. pc' \in [Requests -> Phases]
    BY <2>1 DEF TypeOK, Goto, Phases, Staging
  <2>6. target' \in [Requests -> Slots \cup {None}]
    BY <2>1, <2>2 DEF TypeOK
  <2> QED BY <1>8, <2>3, <2>4, <2>5, <2>6 DEF Capture, TypeOK
<1>9. CASE FailEarly(r)
  BY <1>9, FinishType, FaultType DEF FailEarly, TypeOK, Resting
<1>10. CASE RemoveStale(r)
  BY <1>10, PutType, ValueFacts DEF RemoveStale, TypeOK, Goto, Phases, Staging, Mutating, FirstOf
<1>11. CASE DisableStockDefault(r)
  BY <1>11, PutType, ValueFacts, SlotFacts
  DEF DisableStockDefault, TypeOK, Goto, Phases, Staging, Mutating
<1>12. CASE WriteConfig(r)
  <2>1. job[r].content \in Values /\ CatchallContent \in Values
    BY <1>1, JobFacts, ValueFacts
  <2>2. disk' \in [Paths -> Values]
    BY <1>12, <2>1, PutType DEF WriteConfig
  <2> QED BY <1>12, <2>2 DEF WriteConfig, TypeOK, Goto, Phases, Staging, Mutating
<1>13. CASE Unlink(r)
  BY <1>13, PutType, ValueFacts, FaultType DEF Unlink, TypeOK, Goto, Phases, Staging, Mutating
<1>14. CASE Link(r)
  <2>1. disk' \in [Paths -> Values]
    BY <1>14, PutType, ValueFacts DEF Link
  <2>2. pc' \in [Requests -> Phases] /\ target' \in [Requests -> Slots \cup {None}]
    BY <1>14, SlotFacts DEF Link, TypeOK, Goto, Phases, Staging, Mutating
  <2> QED BY <1>14, <2>1, <2>2 DEF Link, TypeOK
<1>15. CASE LinkExists(r)
  BY <1>15 DEF LinkExists, StartRollback, TypeOK, Goto, Phases, Staging, Restoring
<1>16. CASE MutateFails(r)
  BY <1>16, FaultType DEF MutateFails, StartRollback, TypeOK, Goto, Phases, Staging, Restoring
<1>17. CASE Validate(r)
  BY <1>17, FaultType DEF Validate, StartRollback, TypeOK, Goto, Phases, Staging, Restoring
<1>18. CASE Reload(r)
  <2>1. running' \in [Slots -> Values] /\ scarred' \in SUBSET Slots
    BY <1>18, ServedType DEF Reload, TypeOK
  <2>2. CASE Finish(r, "ok")
    BY <1>18, <2>1, <2>2, FinishType DEF Reload, TypeOK, Resting
  <2>3. CASE ~Finish(r, "ok")
    <3>1. /\ Goto(r, "sweep") /\ left' = [left EXCEPT ![r] = EnabledLinks]
          /\ UNCHANGED <<disk, job, fp, snap, target, victim, faults, crashes>>
      BY <1>18, <2>3 DEF Reload
    <3> QED BY <2>1, <3>1, PathSetFacts DEF TypeOK, Goto, Phases, Sweeping
  <2> QED BY <2>2, <2>3
<1>19. CASE ReloadFails(r)
  BY <1>19, FaultType, ServedType
     DEF ReloadFails, StartRollback, TypeOK, Goto, Phases, Staging, Restoring
<1>20. CASE RestoreRemove(r)
  BY <1>20, PutType, SlotFacts, ValueFacts, FaultType DEF RestoreRemove, TypeOK, LastOf
<1>21. CASE Recreate(r)
  <2>1. victim[r] \in Paths /\ victim[r][1] \in Slots /\ snap[r][victim[r]] \in Values
    BY <1>21, SlotFacts DEF Recreate, TypeOK, ReqOK, Staging, Restoring
  <2>2. disk' \in [Paths -> Values]
    BY <1>21, <2>1, PutType DEF Recreate, TypeOK
  <2>3. scarred' \in SUBSET Slots
    BY <1>21, <2>1 DEF Recreate, TypeOK
  <2>4. faults' \in 0..MaxFaults
    BY <1>21, FaultType DEF Recreate
  <2> QED BY <1>21, <2>2, <2>3, <2>4 DEF Recreate, TypeOK
<1>22. CASE Undone(r)
  BY <1>22, FinishType DEF Undone, TypeOK, Resting
<1>23. CASE Revalidate(r)
  BY <1>23, FinishType, FaultType DEF Revalidate, TypeOK, Goto, Phases, Staging, Resting
<1>24. CASE Rereload(r)
  BY <1>24, FinishType, FaultType, ServedType DEF Rereload, TypeOK, Resting
<1> QED BY <1>2, <1>3, <1>4, <1>5, <1>6, <1>7, <1>8, <1>9, <1>10, <1>11, <1>12,
           <1>13, <1>14, <1>15, <1>16, <1>17, <1>18, <1>19, <1>20, <1>21, <1>22,
           <1>23, <1>24 DEF Step

\* Every step of a request keeps what it knows of its transaction.
LEMMA StepReq ==
  ASSUME TypeOK, NEW r \in Requests, ReqOK(r), Step(r)
  PROVE  ReqOK(r)'
<1> USE DEF local, env
<1>1. job[r] \in Jobs
  BY StepInFlight DEF ReqOK
<1> USE DEF Resting, Sweeping, Staging, Mutating, Restoring, Writing
<1>2. CASE DisableConfig(r)
  BY <1>1, <1>2 DEF DisableConfig, ReqOK, TypeOK, Goto
<1>3. CASE RemoveConfig(r)
  <2>1. victim'[r] = None /\ job' = job /\ StartTransaction(r, RejectPaths)
    BY <1>3 DEF RemoveConfig, ReqOK
  <2>2. Scope(job[r]) \subseteq RejectPaths
    BY <1>3 DEF RemoveConfig, ReqOK, Scope
  <2> QED BY <1>1, <2>1, <2>2, StartReq, PathSetFacts
<1>4. CASE SweepEntry(r) \/ SweepRemove(r)
  BY <1>1, <1>4 DEF SweepEntry, SweepRemove, ReqOK, TypeOK
<1>6. CASE SweepDone(r)
  <2>1. CASE Finish(r, "ok")
    BY <2>1, FinishReq
  <2>2. CASE pc[r] = "clean" /\ Goto(r, "scan") /\ UNCHANGED local
    BY <1>1, <1>6, <2>2 DEF SweepDone, ReqOK, TypeOK, Goto
  <2>3. CASE /\ pc[r] = "sweep" /\ Goto(r, "resweep")
             /\ left' = [left EXCEPT ![r] = EnabledLinks]
             /\ UNCHANGED <<job, fp, snap, target, victim>>
    <3>1. pc'[r] = "resweep" /\ left'[r] \subseteq Links /\ victim'[r] = None /\ job'[r] = job[r]
      BY <1>6, <2>3, PathSetFacts DEF SweepDone, TypeOK, Goto
    <3> QED BY <1>1, <3>1, OutsideReq
  <2> QED BY <1>6, <2>1, <2>2, <2>3 DEF SweepDone
<1>7. CASE ScanStale(r)
  <2>1. victim'[r] = None /\ job' = job
    BY <1>7 DEF ScanStale, ReqOK
  <2>2. Scope(job[r]) \subseteq OwnPaths(job[r]) \cup StalePaths(job[r], disk)
    BY <1>7 DEF ScanStale, ReqOK, Scope
  <2> QED BY <1>1, <1>7, <2>1, <2>2, StartReq, PathSetFacts DEF ScanStale
<1>8. CASE Capture(r)
  BY <1>1, <1>8 DEF Capture, ReqOK, TypeOK, Goto, FirstOf, Captured, StaleOf
<1>9. CASE FailEarly(r) \/ Undone(r) \/ Rereload(r)
  BY <1>9, FinishReq DEF FailEarly, Undone, Rereload
<1>10. CASE RemoveStale(r)
  BY <1>1, <1>10 DEF RemoveStale, ReqOK, TypeOK, Goto, FirstOf
<1>11. CASE DisableStockDefault(r)
  BY <1>1, <1>11 DEF DisableStockDefault, ReqOK, TypeOK, Goto
<1>12. CASE WriteConfig(r) \/ Unlink(r)
  BY <1>1, <1>12 DEF WriteConfig, Unlink, ReqOK, TypeOK, Goto
<1>14. CASE Link(r)
  BY <1>1, <1>14 DEF Link, ReqOK, TypeOK, Goto
<1>15. CASE LinkExists(r) \/ MutateFails(r) \/ ReloadFails(r)
  BY <1>15, RollbackReq DEF LinkExists, MutateFails, ReloadFails
<1>17. CASE Validate(r)
  BY <1>1, <1>17, RollbackReq DEF Validate, ReqOK, TypeOK, Goto
<1>18. CASE Reload(r)
  <2>1. CASE Finish(r, "ok")
    BY <2>1, FinishReq
  <2>2. CASE ~Finish(r, "ok")
    <3>1. pc'[r] = "sweep" /\ left'[r] \subseteq Links /\ victim'[r] = None /\ job'[r] = job[r]
      BY <1>18, <2>2, PathSetFacts DEF Reload, ReqOK, TypeOK, Goto
    <3> QED BY <1>1, <3>1, OutsideReq
  <2> QED BY <2>1, <2>2
<1>20. CASE RestoreRemove(r)
  BY <1>1, <1>20 DEF RestoreRemove, ReqOK, TypeOK, LastOf
<1>21. CASE Recreate(r)
  BY <1>1, <1>21 DEF Recreate, ReqOK, TypeOK
<1>23. CASE Revalidate(r)
  <2>1. CASE Finish(r, "failed")
    BY <2>1, FinishReq
  <2>2. CASE Goto(r, "rereload") /\ UNCHANGED local
    BY <1>1, <1>23, <2>2 DEF Revalidate, Restored, ReqOK, TypeOK, Goto
  <2> QED BY <1>23, <2>1, <2>2 DEF Revalidate
<1> QED BY <1>2, <1>3, <1>4, <1>6, <1>7, <1>8, <1>9, <1>10, <1>11, <1>12, <1>14,
           <1>15, <1>17, <1>18, <1>20, <1>21, <1>23 DEF Step

\* A crash forgets every request.
LEMMA CrashTypeInv == TypeOK /\ Crash => TypeInv'
<1> SUFFICES ASSUME TypeOK, Crash PROVE TypeInv'
  OBVIOUS
<1>1. TypeOK'
  BY PathSetFacts, ConstantsAssumption, SlotFacts
     DEF TypeOK, Crash, Touched, Phases, Resting
<1>2. ASSUME NEW r \in Requests PROVE ReqOK(r)'
  BY DEF Crash, ReqOK, Resting, Sweeping, Staging, Mutating, Restoring, Writing
<1> QED BY <1>1, <1>2 DEF TypeInv

\* The strengthened type invariant holds on a new host.
LEMMA InitTypeInv == Init => TypeInv
<1> SUFFICES ASSUME Init PROVE TypeInv
  OBVIOUS
<1>1. ASSUME NEW r \in Requests PROVE ReqOK(r)
  BY DEF Init, ReqOK, Resting, Sweeping, Staging, Mutating, Restoring, Writing
<1> QED BY <1>1, InitType DEF TypeInv

\* Every step keeps the strengthened type invariant.
LEMMA NextTypeInv == TypeInv /\ [Next]_vars => TypeInv'
<1> SUFFICES ASSUME TypeInv, [Next]_vars PROVE TypeInv'
  OBVIOUS
<1>1. CASE UNCHANGED vars
  BY <1>1 DEF TypeInv, TypeOK, ReqOK, vars
<1>2. CASE Crash
  BY <1>2, CrashTypeInv DEF TypeInv
<1>3. ASSUME NEW r \in Requests, Begin(r) \/ Step(r) PROVE TypeInv'
  <2>1. TypeOK' /\ ReqOK(r)'
    BY <1>3, BeginTypeInv, StepType, StepReq DEF TypeInv
  <2>2. ASSUME NEW q \in Requests, q # r PROVE ReqOK(q)'
    <3>1. ReqOK(q)
      BY DEF TypeInv
    <3> QED BY <1>3, <2>2, <3>1, Others DEF TypeInv, ReqOK
  <2> QED BY <2>1, <2>2 DEF TypeInv
<1> QED BY <1>1, <1>2, <1>3 DEF Next

\* The files, the phases of the handlers and the snapshots of their transactions
\* stay well typed under any interleaving, failures and crashes: every rollback of
\* applyNginxTransaction begins from a snapshot taken of each of its paths.
THEOREM TypeCorrect == Spec => []TypeOK
<1>1. TypeInv => TypeOK
  BY DEF TypeInv
<1> QED BY <1>1, InitTypeInv, NextTypeInv, PTL DEF Spec

-----------------------------------------------------------------------------
(***************************************************************************)
(* When operators take turns, the rollback of the nginx transaction        *)
(* accounts for every broken configuration, whatever fails and whenever    *)
(* the panel crashes.                                                      *)
(*                                                                         *)
(* The argument follows Base(r), the tree the snapshots of a request would *)
(* give back: the capture makes it equal to the disk, no step of the       *)
(* mutation or of the rollback changes it, and a rollback that ends has    *)
(* turned the disk into it, except at the files it is recorded to have     *)
(* failed on.                                                              *)
(***************************************************************************)

Serial == \A r, q \in Requests : r # q => pc[r] \in Resting \/ pc[q] \in Resting

DiskOK(r) ==
  /\ pc[r] = "removeConf" => ~Live(disk, job[r].site)
  /\ pc[r] = "capture" => \A p \in fp[r] \ left[r] : snap[r][p] = disk[p]
  /\ pc[r] \in Staging => /\ Broken(Base(r)) \subseteq scarred
                          /\ Live(disk, Default) => Live(Base(r), Default)
  /\ pc[r] \in Restoring =>
       \A p \in fp[r] \ left[r] :
         p = victim[r] \/ disk[p] = snap[r][p] \/ p[1] \in scarred
  /\ pc[r] = "rereload" => Broken(disk) \subseteq scarred

AtRest == (\A r \in Requests : pc[r] \notin Staging) => Broken(disk) \subseteq scarred

SerialInv == TypeInv /\ Serial /\ AtRest /\ \A r \in Requests : DiskOK(r)

-----------------------------------------------------------------------------
(* The broken files of a tree. *)
LEMMA BrokenLocal ==
  ASSUME NEW d, NEW e, NEW s \in Broken(d),
         d[Avail(s)] = e[Avail(s)], d[Enab(s)] = e[Enab(s)],
         s = Catchall /\ Live(d, Default) => Live(e, Default)
  PROVE  s \in Broken(e)
BY DEF Broken, Live

\* Taking a link away, or changing a file that is not linked, breaks nothing.
LEMMA PutOutside ==
  ASSUME TypeOK, NEW p \in Paths, NEW v \in Values, Put(p, v),
         \/ v = Absent /\ p = Enab(p[1])
         \/ p = Avail(p[1]) /\ ~Live(disk, p[1])
  PROVE  Broken(disk') \subseteq Broken(disk)
<1>1. \A s \in Slots : Live(disk', s) => Live(disk, s)
  BY SlotFacts, ValueFacts DEF Put, Live, TypeOK
<1>2. \A s \in Slots : Live(disk', s) => disk'[Avail(s)] = disk[Avail(s)]
  BY SlotFacts, ValueFacts DEF Put, Live, TypeOK
<1> QED BY <1>1, <1>2, SlotFacts DEF Broken

\* Trees that agree on a set of slots have the same broken files among them.
LEMMA AlikeBroken ==
  ASSUME NEW d, NEW e, \A p \in Paths : d[p] = e[p]
  PROVE  Broken(d) \subseteq Broken(e)
BY SlotFacts DEF Broken, Live

-----------------------------------------------------------------------------
(* Turns. *)
\* When operators take turns, at most one request is under way.
LEMMA TakingTurns ==
  ASSUME SerialInv, ~Overlapping, NEW r \in Requests, Begin(r) \/ Step(r)
  PROVE  /\ \A q \in Requests \ {r} : pc[q] \in Resting /\ pc'[q] \in Resting
         /\ \A q \in Requests \ {r} : DiskOK(q)'
         /\ Serial'
         /\ pc[r] \notin Staging => Broken(disk) \subseteq scarred
<1>1. \A q \in Requests \ {r} : pc[q] \in Resting
  BY StepInFlight DEF SerialInv, Serial, Begin
<1>2. \A q \in Requests \ {r} : pc'[q] = pc[q]
  BY Others DEF SerialInv, TypeInv
<1>3. \A q \in Requests \ {r} : DiskOK(q)'
  BY <1>1, <1>2 DEF DiskOK, Resting, Staging, Mutating, Restoring
<1>4. \A q \in Requests \ {r} : pc[q] \notin Staging
  BY <1>1 DEF Resting, Staging, Mutating, Restoring
<1> QED BY <1>1, <1>2, <1>3, <1>4 DEF Serial, SerialInv, AtRest

\* A step after which the request has nothing staged.
LEMMA OutsideStep ==
  ASSUME NEW r \in Requests, pc'[r] \notin Staging \cup {"capture", "removeConf"},
         Broken(disk') \subseteq scarred'
  PROVE  DiskOK(r)' /\ AtRest'
BY DEF DiskOK, AtRest, Staging, Restoring

\* A step within the transaction: what it changes lies within the snapshots.
LEMMA BaseKept ==
  ASSUME NEW r \in Requests, fp'[r] = fp[r], snap'[r] = snap[r],
         \A p \in Paths \ fp[r] : disk'[p] = disk[p]
  PROVE  Base(r)' = Base(r)
BY DEF Base

\* A step of mutate stays within the snapshots and moves on or begins the rollback.
LEMMA MutationStep ==
  ASSUME TypeOK, NEW r \in Requests, DiskOK(r), pc[r] \in Staging,
         pc'[r] \in Staging \ {"rereload"},
         pc'[r] \in Restoring => left'[r] = fp[r],
         fp' = fp, snap' = snap, scarred' = scarred,
         \/ disk' = disk
         \/ \E p \in fp[r] : \E v \in Values :
              Put(p, v) /\ (p = Enab(Default) => v = Absent)
  PROVE  DiskOK(r)' /\ AtRest'
<1>1. \A p \in Paths \ fp[r] : disk'[p] = disk[p]
  BY DEF Put, TypeOK
<1>2. Base(r)' = Base(r)
  BY <1>1, BaseKept
<1>3. Live(disk', Default) => Live(disk, Default)
  BY SlotFacts, ValueFacts DEF Put, TypeOK, Live
<1>4. Broken(Base(r))' = Broken(Base(r)) /\ (Live(Base(r), Default))' = Live(Base(r), Default)
  BY <1>2 DEF Broken, Live
<1> QED BY <1>2, <1>3, <1>4 DEF DiskOK, AtRest, Staging, Mutating, Restoring, Live
\* A step of the rollback: it adds to what is scarred, and the base stays.
LEMMA RollbackStep ==
  ASSUME TypeOK, NEW r \in Requests, DiskOK(r), pc[r] \in Restoring, pc' = pc,
         fp' = fp, snap' = snap, scarred \subseteq scarred',
         \A p \in Paths \ fp[r] : disk'[p] = disk[p],
         Live(disk', Default) => Live(disk, Default) \/ Live(Base(r), Default),
         \A p \in fp[r] \ left'[r] :
           p = victim'[r] \/ disk'[p] = snap[r][p] \/ p[1] \in scarred'
  PROVE  DiskOK(r)' /\ AtRest'
<1>1. Base(r)' = Base(r)
  BY BaseKept
<1>2. pc'[r] \in Staging /\ pc'[r] \notin {"removeConf", "capture", "rereload"}
  BY DEF Restoring, Staging
<1>3. Broken(Base(r))' \subseteq scarred' /\ (Live(disk, Default) => Live(Base(r), Default))'
  BY <1>1, <1>2 DEF Broken, Live, DiskOK
<1> QED BY <1>2, <1>3 DEF DiskOK, AtRest

\* A rollback that has been through every path leaves only what it recorded.
LEMMA RestoredTidy ==
  ASSUME TypeInv, NEW r \in Requests, DiskOK(r), pc[r] \in Restoring, Restored(r)
  PROVE  Broken(disk) \subseteq scarred
<1> SUFFICES ASSUME NEW s \in Broken(disk), s \notin scarred PROVE FALSE
  OBVIOUS
<1> DEFINE e == Base(r)
<1>1. s \in Slots /\ Avail(s)[1] = s /\ Enab(s)[1] = s
  BY DEF Broken, Avail, Enab
<1>2. \A p \in Paths : p[1] = s => disk[p] = e[p]
  BY <1>1, ValueFacts DEF Base, DiskOK, Restored, TypeInv, TypeOK
<1>3. Live(disk, Default) => Live(e, Default)
  BY DEF DiskOK, Restoring, Staging
<1>4. s \in Broken(e)
  BY <1>1, <1>2, <1>3, BrokenLocal, SlotFacts
<1> QED BY <1>4 DEF DiskOK, Restoring, Staging

-----------------------------------------------------------------------------
(* The steps, phase by phase. *)
\* Beginning a request touches no file.
LEMMA BeginDisk ==
  ASSUME SerialInv, NEW r \in Requests, Broken(disk) \subseteq scarred, Begin(r)
  PROVE  DiskOK(r)' /\ AtRest'
<1>1. disk' = disk /\ scarred' = scarred
  BY DEF Begin, env
<1>2. \/ pc'[r] \in {"clean", "disable"}
      \/ pc'[r] = "capture" /\ fp'[r] = left'[r]
  BY DEF Begin, Goto, StartTransaction, SerialInv, TypeInv, TypeOK
<1>3. Broken(disk') \subseteq scarred'
  BY <1>1
<1> QED BY <1>2, <1>3 DEF DiskOK, AtRest, Staging, Mutating, Restoring

\* The steps before and after the transaction break nothing.
LEMMA OutsideDisk ==
  ASSUME SerialInv, NEW r \in Requests, Broken(disk) \subseteq scarred,
         \/ DisableConfig(r) \/ RemoveConfig(r) \/ SweepEntry(r) \/ SweepRemove(r)
         \/ SweepDone(r) \/ ScanStale(r) \/ FailEarly(r)
  PROVE  DiskOK(r)' /\ AtRest'
<1> USE DEF env, local
<1>1. job[r] \in Jobs
  BY StepInFlight DEF SerialInv, TypeInv, ReqOK, Step
<1>2. CASE DisableConfig(r)
  <2>1. Enab(job[r].site) \in Paths /\ Enab(job[r].site)[1] = job[r].site
    BY <1>1, JobFacts, SlotFacts DEF Enab
  <2>2. Broken(disk') \subseteq scarred' /\ ~Live(disk', job'[r].site) /\ pc'[r] = "removeConf"
    BY <1>2, <2>1, PutOutside, ValueFacts
       DEF DisableConfig, SerialInv, TypeInv, TypeOK, Put, Live, Goto
  <2> QED BY <2>2 DEF DiskOK, AtRest, Staging, Mutating, Restoring
<1>3. CASE RemoveConfig(r)
  <2>1. Avail(job[r].site) \in Paths /\ Avail(job[r].site)[1] = job[r].site
    BY <1>1, JobFacts, SlotFacts DEF Avail
  <2>2. ~Live(disk, job[r].site)
    BY <1>3 DEF RemoveConfig, SerialInv, DiskOK
  <2>3. Broken(disk') \subseteq scarred'
    BY <1>3, <2>1, <2>2, PutOutside, ValueFacts DEF RemoveConfig, SerialInv, TypeInv
  <2>4. pc'[r] = "capture" /\ fp'[r] = left'[r]
    BY <1>3 DEF RemoveConfig, StartTransaction, Goto, SerialInv, TypeInv, TypeOK
  <2> QED BY <2>3, <2>4 DEF DiskOK, AtRest, Staging, Mutating, Restoring
<1>4. CASE SweepEntry(r)
  <2>1. pc'[r] \in Sweeping /\ Broken(disk') \subseteq scarred'
    BY <1>4 DEF SweepEntry
  <2> QED BY <2>1, OutsideStep DEF Sweeping, Staging, Mutating, Restoring
<1>5. CASE SweepRemove(r)
  <2>1. pc'[r] \in Sweeping
    BY <1>5 DEF SweepRemove
  <2>2. victim[r] \in Paths /\ victim[r] = Enab(victim[r][1])
    BY <1>5, SlotFacts DEF SweepRemove, SerialInv, TypeInv, ReqOK, TypeOK, Links, Enab
  <2>3. Broken(disk') \subseteq scarred'
    BY <1>5, <2>2, PutOutside, ValueFacts DEF SweepRemove, SerialInv, TypeInv
  <2> QED BY <2>1, <2>3, OutsideStep DEF Sweeping, Staging, Mutating, Restoring
<1>6. CASE SweepDone(r)
  <2>1. pc'[r] \in {"scan", "resweep", "ok"} /\ Broken(disk') \subseteq scarred'
    BY <1>6 DEF SweepDone, Finish, Goto, SerialInv, TypeInv, TypeOK
  <2> QED BY <2>1, OutsideStep DEF Staging, Mutating, Restoring
<1>7. CASE ScanStale(r)
  <2>1. pc'[r] = "capture" /\ fp'[r] = left'[r] /\ Broken(disk') \subseteq scarred'
    BY <1>7 DEF ScanStale, StartTransaction, Goto, SerialInv, TypeInv, TypeOK
  <2> QED BY <2>1 DEF DiskOK, AtRest, Staging, Mutating, Restoring
<1>8. CASE FailEarly(r)
  <2>1. pc'[r] = "failed" /\ Broken(disk') \subseteq scarred'
    BY <1>8 DEF FailEarly, Finish, Goto, SerialInv, TypeInv, TypeOK
  <2> QED BY <2>1, OutsideStep DEF Staging, Mutating, Restoring
<1> QED BY <1>2, <1>3, <1>4, <1>5, <1>6, <1>7, <1>8

\* captureNginxPaths: the snapshots agree with the directories, which stay as they are.
LEMMA CaptureDisk ==
  ASSUME SerialInv, NEW r \in Requests, Broken(disk) \subseteq scarred, Capture(r)
  PROVE  DiskOK(r)' /\ AtRest'
<1>1. PICK p \in left[r] :
        /\ snap' = [snap EXCEPT ![r][p] = disk[p]]
        /\ \/ left' = [left EXCEPT ![r] = @ \ {p}] /\ UNCHANGED <<pc, target>>
           \/ left[r] = {p} /\ \E step \in Mutating : Goto(r, step)
  BY DEF Capture, FirstOf, Captured, Mutating
<1>2. disk' = disk /\ fp' = fp /\ scarred' = scarred /\ pc[r] = "capture"
  BY DEF Capture, env
<1>3. \A q \in fp[r] \ (left[r] \ {p}) : snap'[r][q] = disk[q]
  BY <1>1, <1>2 DEF SerialInv, TypeInv, TypeOK, DiskOK
<1>4. CASE left' = [left EXCEPT ![r] = @ \ {p}] /\ UNCHANGED <<pc, target>>
  BY <1>2, <1>3, <1>4 DEF DiskOK, AtRest, SerialInv, TypeInv, TypeOK, Staging, Mutating, Restoring
<1>5. CASE left[r] = {p} /\ \E step \in Mutating : Goto(r, step)
  <2>1. pc'[r] \in Mutating
    BY <1>5 DEF Goto, SerialInv, TypeInv, TypeOK
  <2>2. \A q \in Paths : Base(r)'[q] = disk[q]
    BY <1>2, <1>3, <1>5 DEF Base
  <2>3. Broken(Base(r)') \subseteq scarred' /\ (Live(disk', Default) => Live(Base(r)', Default))
    BY <1>2, <2>2, AlikeBroken, SlotFacts DEF Live
  <2> QED BY <2>1, <2>3 DEF DiskOK, AtRest, Staging, Mutating, Restoring, Broken, Live
<1> QED BY <1>1, <1>4, <1>5

\* The steps of mutate keep the snapshots a faithful copy of the earlier tree.
LEMMA MutationDisk ==
  ASSUME SerialInv, NEW r \in Requests,
         \/ RemoveStale(r) \/ DisableStockDefault(r) \/ WriteConfig(r) \/ Unlink(r)
         \/ Link(r) \/ LinkExists(r) \/ MutateFails(r) \/ Validate(r) \/ ReloadFails(r)
  PROVE  DiskOK(r)' /\ AtRest'
<1> USE DEF env, local
<1> DEFINE InFp(p, v) == /\ p \in fp[r] /\ v \in Values /\ Put(p, v)
                         /\ p = Enab(Default) => v = Absent
<1>1. /\ job[r] \in Jobs /\ TypeOK /\ DiskOK(r)
      /\ pc[r] \in Staging /\ left[r] \subseteq fp[r] /\ Scope(job[r]) \subseteq fp[r]
  BY StepInFlight DEF SerialInv, TypeInv, ReqOK, Step, Staging, Mutating, RemoveStale,
     DisableStockDefault, WriteConfig, Unlink, Link, LinkExists, MutateFails, Validate,
       ReloadFails
<1>2. CatchallPaths \subseteq fp[r]
  BY <1>1 DEF Scope, OwnPaths, RejectPaths
<1>3. pc[r] \in {"write", "unlink", "link"} =>
        /\ target[r] \in Slots \ {Default}
        /\ Avail(target[r]) \in fp[r] /\ Enab(target[r]) \in fp[r]
  BY <1>1, <1>2, JobFacts, SlotFacts
     DEF SerialInv, TypeInv, ReqOK, Scope, OwnPaths, CatchallPaths, Writing
<1>4. CASE RemoveStale(r)
  <2>1. \E p \in fp[r] : InFp(p, Absent)
    BY <1>1, <1>4, ValueFacts DEF RemoveStale, FirstOf
  <2>2. pc'[r] \in {"stale", "write"}
    BY <1>1, <1>4 DEF RemoveStale, TypeOK, Goto
  <2> QED BY <1>1, <1>4, <2>1, <2>2, MutationStep DEF RemoveStale, Staging, Mutating, Restoring
<1>5. CASE DisableStockDefault(r)
  <2>1. Enab(Default) \in fp[r]
    BY <1>1, <1>5 DEF DisableStockDefault, SerialInv, TypeInv, ReqOK, Scope, RejectPaths
  <2>2. disk' = disk \/ InFp(Enab(Default), Absent)
    BY <1>5, <2>1, ValueFacts DEF DisableStockDefault
  <2>3. pc'[r] = "write"
    BY <1>1, <1>5 DEF DisableStockDefault, TypeOK, Goto
  <2> QED BY <1>1, <1>5, <2>2, <2>3, MutationStep
          DEF DisableStockDefault, Staging, Mutating, Restoring
<1>6. CASE WriteConfig(r)
  <2>1. \E v \in Values : InFp(Avail(target[r]), v)
    BY <1>1, <1>3, <1>6, JobFacts, ValueFacts, SlotFacts DEF WriteConfig
  <2>2. pc'[r] = "unlink"
    BY <1>1, <1>6 DEF WriteConfig, TypeOK, Goto
  <2> QED BY <1>1, <1>6, <2>1, <2>2, MutationStep DEF WriteConfig, Staging, Mutating, Restoring
<1>7. CASE Unlink(r)
  <2>1. disk' = disk \/ InFp(Enab(target[r]), Absent)
    BY <1>3, <1>7, ValueFacts DEF Unlink
  <2>2. pc'[r] = "link"
    BY <1>1, <1>7 DEF Unlink, TypeOK, Goto
  <2> QED BY <1>1, <1>7, <2>1, <2>2, MutationStep DEF Unlink, Staging, Mutating, Restoring
<1>8. CASE Link(r)
  <2>1. InFp(Enab(target[r]), Linked)
    BY <1>3, <1>8, ValueFacts, SlotFacts DEF Link
  <2>2. pc'[r] \in {"validate", "write"}
    BY <1>1, <1>8 DEF Link, TypeOK, Goto
  <2> QED BY <1>1, <1>8, <2>1, <2>2, MutationStep DEF Link, Staging, Mutating, Restoring
<1>9. ASSUME NEW how \in Restoring, StartRollback(r, how),
             UNCHANGED <<disk, fp, snap, scarred>>
      PROVE  DiskOK(r)' /\ AtRest'
  <2>1. pc'[r] \in Restoring /\ left'[r] = fp[r]
    BY <1>1, <1>9 DEF StartRollback, TypeOK, Goto
  <2> QED BY <1>1, <1>9, <2>1, MutationStep DEF Staging, Mutating, Restoring
<1>10. CASE LinkExists(r) \/ MutateFails(r) \/ ReloadFails(r)
  BY <1>9, <1>10 DEF LinkExists, MutateFails, ReloadFails, Restoring
<1>11. CASE Validate(r)
  <2>1. CASE StartRollback(r, "undo")
    BY <1>9, <1>11, <2>1 DEF Validate, Restoring
  <2>2. CASE Goto(r, "reload")
    <3>1. pc'[r] = "reload"
      BY <1>1, <2>2 DEF TypeOK, Goto
    <3> QED BY <1>1, <1>11, <3>1, MutationStep DEF Validate, Staging, Mutating, Restoring
  <2> QED BY <1>11, <2>1, <2>2 DEF Validate
<1> QED BY <1>4, <1>5, <1>6, <1>7, <1>8, <1>10, <1>11

\* A reload that succeeds leaves a valid tree and nothing scarred.
LEMMA ReloadDisk ==
  ASSUME SerialInv, NEW r \in Requests, Reload(r)
  PROVE  DiskOK(r)' /\ AtRest'
<1>1. pc'[r] \in {"ok", "sweep"}
  BY DEF Reload, Finish, Goto, SerialInv, TypeInv, TypeOK
<1>2. Broken(disk') \subseteq scarred'
  BY DEF Reload, Valid
<1> QED BY <1>1, <1>2, OutsideStep DEF Staging, Mutating, Restoring

\* The steps of restoreNginxPaths put back what they have been through, or record it.
LEMMA RestoreDisk ==
  ASSUME SerialInv, NEW r \in Requests, RestoreRemove(r) \/ Recreate(r)
  PROVE  DiskOK(r)' /\ AtRest'
<1>1. /\ TypeOK /\ DiskOK(r) /\ pc[r] \in Restoring /\ pc' = pc /\ fp' = fp /\ snap' = snap
      /\ left[r] \subseteq fp[r] /\ victim[r] \in fp[r] \cup {None}
      /\ \A p \in fp[r] : snap[r][p] \in Values
  BY DEF SerialInv, TypeInv, ReqOK, Staging, Restoring, RestoreRemove, Recreate
<1>2. \A p \in fp[r] \ left[r] : p = victim[r] \/ disk[p] = snap[r][p] \/ p[1] \in scarred
  BY <1>1 DEF DiskOK
<1>3. CASE RestoreRemove(r)
  <2>1. PICK p \in left[r] :
          /\ left' = [left EXCEPT ![r] = @ \ {p}]
          /\ \/ /\ Put(p, Absent)
                /\ victim' = [victim EXCEPT ![r] = IF snap[r][p] = Absent THEN None ELSE p]
                /\ scarred' = scarred
             \/ scarred' = scarred \cup {p[1]} /\ disk' = disk /\ victim' = victim
    BY <1>3 DEF RestoreRemove, LastOf
  <2>2. /\ scarred \subseteq scarred' /\ \A q \in Paths \ fp[r] : disk'[q] = disk[q]
        /\ Live(disk', Default) => Live(disk, Default)
    BY <1>1, <2>1, SlotFacts, ValueFacts DEF Put, TypeOK, Live
  <2>3. \A q \in fp[r] \ left'[r] :
          q = victim'[r] \/ disk'[q] = snap[r][q] \/ q[1] \in scarred'
    <3>1. victim[r] = None
      BY <1>3 DEF RestoreRemove
    <3> QED BY <1>1, <1>2, <2>1, <3>1, ValueFacts DEF Put, TypeOK
  <2> QED BY <1>1, <2>2, <2>3, RollbackStep
<1>4. CASE Recreate(r)
  <2>1. /\ left' = left /\ victim[r] # None
        /\ \/ Put(victim[r], snap[r][victim[r]]) /\ scarred' = scarred
           \/ scarred' = scarred \cup {victim[r][1]} /\ disk' = disk
    BY <1>4 DEF Recreate
  <2>2. victim[r] \in fp[r] /\ victim[r] \in Paths
    BY <1>1, <2>1 DEF TypeOK
  <2>3. scarred \subseteq scarred' /\ \A q \in Paths \ fp[r] : disk'[q] = disk[q]
    BY <1>1, <2>1, <2>2 DEF Put, TypeOK
  <2>4. Live(disk', Default) => Live(disk, Default) \/ Live(Base(r), Default)
    BY <1>1, <2>1, <2>2, SlotFacts DEF Put, TypeOK, Live, Base
  <2>5. \A q \in fp[r] \ left'[r] :
          q = victim'[r] \/ disk'[q] = snap[r][q] \/ q[1] \in scarred'
    BY <1>1, <1>2, <2>1, <2>2 DEF Put, TypeOK
  <2> QED BY <1>1, <2>3, <2>4, <2>5, RollbackStep
<1> QED BY <1>3, <1>4

\* The rollback ends with the earlier tree, but for what it recorded.
LEMMA EndDisk ==
  ASSUME SerialInv, NEW r \in Requests, Undone(r) \/ Revalidate(r) \/ Rereload(r)
  PROVE  DiskOK(r)' /\ AtRest'
<1> USE DEF env
<1>1. disk' = disk /\ scarred' = scarred
  BY DEF Undone, Revalidate, Rereload
<1>2. Broken(disk) \subseteq scarred
  <2>1. CASE Undone(r) \/ Revalidate(r)
    BY <2>1, RestoredTidy DEF Undone, Revalidate, Restoring, SerialInv
  <2>2. CASE Rereload(r)
    BY <2>2 DEF Rereload, SerialInv, DiskOK
  <2> QED BY <2>1, <2>2
<1>3. Broken(disk') \subseteq scarred'
  BY <1>1, <1>2
<1>4. CASE Finish(r, "failed")
  <2>1. pc'[r] = "failed"
    BY <1>4 DEF Finish, Goto, SerialInv, TypeInv, TypeOK
  <2> QED BY <1>3, <2>1, OutsideStep DEF Staging, Mutating, Restoring
<1>5. CASE ~Finish(r, "failed")
  <2>1. pc[r] = "revert" /\ Goto(r, "rereload") /\ UNCHANGED local
    BY <1>5 DEF Undone, Revalidate, Rereload
  <2>2. pc'[r] = "rereload" /\ fp'[r] = fp[r] /\ snap'[r] = snap[r]
    BY <2>1 DEF Goto, SerialInv, TypeInv, TypeOK, local
  <2>3. Base(r)' = Base(r)
    BY <1>1, <2>2, BaseKept
  <2>4. Broken(Base(r))' \subseteq scarred' /\ (Live(disk, Default) => Live(Base(r), Default))'
    BY <1>1, <2>1, <2>3 DEF Broken, Live, SerialInv, DiskOK, Staging, Restoring
  <2> QED BY <1>3, <2>2, <2>4 DEF DiskOK, AtRest, Staging, Restoring
<1> QED BY <1>4, <1>5

-----------------------------------------------------------------------------
\* The inductive invariant implies the property.
LEMMA Accounted == SerialInv => BrokenAccounted
<1> SUFFICES ASSUME SerialInv, NEW s \in Broken(disk), s \notin scarred
             PROVE  s \in UNION {Touched(r) : r \in Requests}
  BY DEF BrokenAccounted
<1>1. PICK r \in Requests : pc[r] \in Staging
  BY DEF SerialInv, AtRest
<1> DEFINE e == Base(r)
<1>2. DiskOK(r) /\ Broken(e) \subseteq scarred
  BY <1>1 DEF SerialInv, DiskOK
<1>3. s \in Slots /\ Avail(s) \in Paths /\ Enab(s) \in Paths
  BY SlotFacts DEF Broken
<1>4. CASE Avail(s) \in fp[r] \/ Enab(s) \in fp[r]
  BY <1>1, <1>4 DEF Touched, Avail, Enab
<1>5. CASE Avail(s) \notin fp[r] /\ Enab(s) \notin fp[r]
  <2>1. e[Avail(s)] = disk[Avail(s)] /\ e[Enab(s)] = disk[Enab(s)]
    BY <1>3, <1>5 DEF Base
  <2>2. s \in Broken(e)
    BY <1>1, <1>2, <2>1, BrokenLocal DEF DiskOK
  <2> QED BY <1>2, <2>2
<1> QED BY <1>4, <1>5

\* It holds on a new host.
LEMMA InitSerial == Init => SerialInv
<1> SUFFICES ASSUME Init PROVE SerialInv
  OBVIOUS
<1>1. Serial
  BY DEF Init, Serial, Resting
<1>2. ASSUME NEW r \in Requests PROVE DiskOK(r)
  BY DEF Init, DiskOK, Staging, Mutating, Restoring
<1>3. AtRest
  BY ConstantsAssumption, SlotFacts, ValueFacts DEF Init, AtRest, Broken, Live, FreshDisk
<1> QED BY <1>1, <1>2, <1>3, InitTypeInv DEF SerialInv

\* Every step keeps it.
LEMMA NextSerial ==
  ASSUME SerialInv, ~Overlapping, [Next]_vars
  PROVE  SerialInv'
<1>1. TypeInv'
  BY NextTypeInv DEF SerialInv
<1>2. CASE UNCHANGED vars
  BY <1>1, <1>2 DEF SerialInv, Serial, AtRest, DiskOK, Base, Broken, Live, vars
<1>3. CASE Crash
  <2>1. \A r \in Requests : pc'[r] = "idle"
    BY <1>3 DEF Crash
  <2>2. Broken(disk') \subseteq scarred'
    BY <1>3, Accounted DEF Crash, BrokenAccounted
  <2> QED BY <1>1, <2>1, <2>2
          DEF SerialInv, Serial, AtRest, DiskOK, Resting, Staging, Mutating, Restoring
<1>4. ASSUME NEW r \in Requests, Begin(r) \/ Step(r) PROVE SerialInv'
  <2>1. /\ Serial' /\ \A q \in Requests \ {r} : DiskOK(q)'
        /\ pc[r] \notin Staging => Broken(disk) \subseteq scarred
    BY <1>4, TakingTurns
  <2>2. DiskOK(r)' /\ AtRest'
    <3>1. CASE Begin(r)
      <4>1. pc[r] \notin Staging
        BY <3>1 DEF Begin, Resting, Staging, Mutating, Restoring
      <4> QED BY <2>1, <3>1, <4>1, BeginDisk
    <3>2. CASE \/ DisableConfig(r) \/ RemoveConfig(r) \/ SweepEntry(r) \/ SweepRemove(r)
               \/ SweepDone(r) \/ ScanStale(r) \/ FailEarly(r)
      <4>1. pc[r] \notin Staging
        BY <3>2 DEF DisableConfig, RemoveConfig, SweepEntry, SweepRemove, SweepDone,
           ScanStale, FailEarly, Sweeping, Staging, Mutating, Restoring
      <4> QED BY <2>1, <3>2, <4>1, OutsideDisk
    <3>3. CASE Capture(r)
      <4>1. pc[r] \notin Staging
        BY <3>3 DEF Capture, Staging, Mutating, Restoring
      <4> QED BY <2>1, <3>3, <4>1, CaptureDisk
    <3>4. CASE \/ RemoveStale(r) \/ DisableStockDefault(r) \/ WriteConfig(r) \/ Unlink(r)
               \/ Link(r) \/ LinkExists(r) \/ MutateFails(r) \/ Validate(r) \/ ReloadFails(r)
      BY <3>4, MutationDisk
    <3>5. CASE Reload(r) \/ RestoreRemove(r) \/ Recreate(r)
      BY <3>5, ReloadDisk, RestoreDisk
    <3>6. CASE Undone(r) \/ Revalidate(r) \/ Rereload(r)
      BY <3>6, EndDisk
    <3> QED BY <1>4, <3>1, <3>2, <3>3, <3>4, <3>5, <3>6 DEF Step
  <2> QED BY <1>1, <2>1, <2>2 DEF SerialInv
<1> QED BY <1>2, <1>3, <1>4 DEF Next

\* Operators who take turns: every enabled configuration nginx would refuse lies
\* in a transaction in flight or where a crash or a failed rollback struck since
\* the last success, for any platforms, contents, failures and crashes.
THEOREM SerialBrokenAccounted ==
  ASSUME ~Overlapping
  PROVE  Spec => []BrokenAccounted
<1>1. SerialInv /\ [Next]_vars => SerialInv'
  BY NextSerial
<1> QED BY <1>1, InitSerial, Accounted, PTL DEF Spec

-----------------------------------------------------------------------------
(***************************************************************************)
(* When operators take turns, no step of the rollback fails and the panel  *)
(* does not crash, the transactions implement ConfigStore.                 *)
(*                                                                         *)
(* While a transaction is under way the store is what Base(r) serves.  The *)
(* steps of the mutation and of the rollback keep it, the reload moves it  *)
(* to the tree that was staged, which is an attempt of the store, and a    *)
(* rollback ends with the disk equal to it.                                *)
(***************************************************************************)

ContentOf(r, s) == IF s = Catchall THEN CatchallContent ELSE job[r].content
Standing(r, s)  == disk[Avail(s)] = ContentOf(r, s) /\ disk[Enab(s)] = Linked

\* What is about to be removed is a dangling link, and what is about to be made again is
\* gone; a rollback that reloads has turned the disk into what it was.
Removing(r) ==
  /\ pc[r] \in Sweeping /\ victim[r] # None => disk[Avail(victim[r][1])] = Absent
  /\ pc[r] \in Restoring /\ victim[r] # None => disk[victim[r]] = Absent
  /\ pc[r] = "rereload" => \A p \in fp[r] : disk[p] = snap[r][p]
  /\ pc[r] \in {"disable", "removeConf"} => job[r].kind = "delete"

\* The paths of a transaction are those of its platform, of the catch-all, and of the files
\* that mention its domains.
Forward == Mutating \cup {"validate", "reload"}
Scanned(r) ==
  LET j == job[r] IN
  pc[r] \in Forward \cup {"capture"} =>
    /\ j.kind # "write" => fp[r] = RejectPaths
    /\ j.kind = "write" =>
         /\ \A p \in fp[r] : p[1] \in {j.site, Catchall} \/ <<j.site, p[1]>> \in Overlap
         /\ \A t \in Sites \ {j.site} :
              <<j.site, t>> \in Overlap => disk[Avail(t)] = Absent \/ Avail(t) \in fp[r]

\* How far the mutation has come.
Stale(r) == \A p \in StaleOf(r) : disk[p] = Absent \/ (pc[r] = "stale" /\ p \in left[r])
Reaching(r) ==
  pc[r] \in Forward =>
    /\ pc[r] = "stale" => job[r].kind = "write" /\ target[r] = job[r].site
    /\ pc[r] \in {"unlink", "link"} => disk[Avail(target[r])] = ContentOf(r, target[r])
    /\ pc[r] \in {"validate", "reload"} => Standing(r, Catchall)
    /\ job[r].kind = "write" =>
         /\ Stale(r)
         /\ Standing(r, job[r].site) \/ (pc[r] \in Writing /\ target[r] = job[r].site)
    /\ job[r].kind # "write" =>
         disk[Enab(Default)] =
           IF /\ pc[r] # "default" /\ snap[r][Enab(Default)] = Linked
              /\ disk[Avail(Default)] = StockContent
           THEN Absent ELSE snap[r][Enab(Default)]

StoreOK(r) == Removing(r) /\ Scanned(r) /\ Reaching(r)
StoreInv == SerialInv /\ scarred = {} /\ crashes = 0 /\ \A r \in Requests : StoreOK(r)

-----------------------------------------------------------------------------
(* The store in a state and in the next. *)
LEMMA SettledAt ==
  ASSUME Serial, NEW r \in Requests, pc[r] \in Staging
  PROVE  Settled = Served(Base(r))
<1>1. \A q \in Requests : pc[q] \in Staging => q = r
  BY DEF Serial, Resting, Staging, Mutating, Restoring
<1> QED BY <1>1 DEF Settled
LEMMA SettledAfter ==
  ASSUME Serial', NEW r \in Requests, pc'[r] \in Staging
  PROVE  Settled' = Served(Base(r)')
<1>1. \A q \in Requests : pc'[q] \in Staging => q = r
  BY DEF Serial, Resting, Staging, Mutating, Restoring
<1> QED BY <1>1 DEF Settled

LEMMA ServedAlike ==
  ASSUME NEW d, NEW e, \A s \in Slots :
           d[Enab(s)] = e[Enab(s)] /\ (e[Enab(s)] = Linked => d[Avail(s)] = e[Avail(s)])
  PROVE  Served(d) = Served(e)
BY DEF Served, Live
LEMMA SameServed ==
  ASSUME NEW d, NEW e, \A p \in Paths : d[p] = e[p]
  PROVE  Served(d) = Served(e)
BY ServedAlike, SlotFacts

\* One request at a time: where the store is, before and after a step of it.
LEMMA StoreAround ==
  ASSUME SerialInv, ~Overlapping, NEW r \in Requests, Begin(r) \/ Step(r)
  PROVE  /\ pc[r] \notin Staging => Settled = Served(disk)
         /\ pc[r] \in Staging => Settled = Served(Base(r))
         /\ pc'[r] \notin Staging => Settled' = Served(disk')
         /\ pc'[r] \in Staging => Settled' = Served(Base(r)')
<1>1. Serial /\ Serial' /\ \A q \in Requests \ {r} : pc[q] \in Resting /\ pc'[q] \in Resting
  BY TakingTurns DEF SerialInv
<1>2. \A q \in Requests \ {r} : pc[q] \notin Staging /\ pc'[q] \notin Staging
  BY <1>1 DEF Resting, Staging, Mutating, Restoring
<1>3. pc[r] \notin Staging => Settled = Served(disk)
  BY <1>2 DEF Settled
<1>4. pc'[r] \notin Staging => Settled' = Served(disk')
  BY <1>2 DEF Settled
<1> QED BY <1>1, <1>3, <1>4, SettledAt, SettledAfter

\* A step within the transaction keeps the store.
LEMMA StoreKept ==
  ASSUME SerialInv, ~Overlapping, NEW r \in Requests, Begin(r) \/ Step(r),
         pc[r] \in Staging, pc'[r] \in Staging, fp'[r] = fp[r], snap'[r] = snap[r],
         \A p \in Paths \ fp[r] : disk'[p] = disk[p]
  PROVE  Settled' = Settled
<1>1. Base(r)' = Base(r)
  BY BaseKept
<1> QED BY <1>1, StoreAround

\* So does the end of a rollback that has given everything back.
LEMMA StoreGivenBack ==
  ASSUME SerialInv, ~Overlapping, NEW r \in Requests, Begin(r) \/ Step(r),
         pc[r] \in Staging, pc'[r] \notin Staging, disk' = disk,
         \A p \in fp[r] : disk[p] = snap[r][p]
  PROVE  Settled' = Settled /\ Settled' = Served(disk)
<1>1. Served(Base(r)) = Served(disk)
  BY SameServed DEF Base
<1> QED BY <1>1, StoreAround

\* A rollback that has been through every path gives everything back.
LEMMA GivenBack ==
  ASSUME StoreInv, NEW r \in Requests, pc[r] \in Restoring, Restored(r)
  PROVE  \A p \in fp[r] : disk[p] = snap[r][p]
BY ValueFacts DEF StoreInv, SerialInv, TypeInv, TypeOK, DiskOK, Restored

-----------------------------------------------------------------------------
(* The tree that is reloaded is an attempt of the store. *)
LEMMA Attempted ==
  ASSUME StoreInv, NEW r \in Requests, pc[r] = "reload", Valid(disk)
  PROVE  Served(disk) \in Store!Attempts /\ Store!Acceptable(Served(disk))
<1>1. Settled = Served(Base(r))
  BY SettledAt DEF StoreInv, SerialInv, Staging
<1>2. TypeOK /\ job[r] \in Jobs /\ Scanned(r) /\ Reaching(r)
  BY DEF StoreInv, SerialInv, TypeInv, ReqOK, StoreOK, Resting
<1> DEFINE j == job[r]
           b == Base(r)
<1>3. /\ \A s \in Slots : Served(disk)[s] = IF Live(disk, s) THEN disk[Avail(s)] ELSE Absent
      /\ \A s \in Slots : Settled[s] = IF Live(b, s) THEN b[Avail(s)] ELSE Absent
      /\ Served(disk) = [s \in Slots |-> Served(disk)[s]]
      /\ DOMAIN Settled = Slots /\ DOMAIN Served(disk) = Slots
  BY <1>1 DEF Served
<1>4. \A p \in Paths : b[p] = IF p \in fp[r] THEN snap[r][p] ELSE disk[p]
  BY DEF Base
<1>5. Store!Acceptable(Served(disk))
  <2>1. \A s \in Slots : Served(disk)[s] \in Accepted \cup {Absent}
    BY <1>3 DEF Valid, Broken
  <2>2. Absent \in {Served(disk)[Catchall], Served(disk)[Default]}
    BY <1>3, SlotFacts DEF Valid, Broken
  <2> QED BY <2>1, <2>2 DEF Store!Acceptable, Store!Slots, Slots
<1>6. Standing(r, Catchall) /\ Served(disk)[Catchall] = CatchallContent
  BY <1>2, <1>3, SlotFacts DEF Reaching, Forward, Standing, ContentOf, Live
<1>7. CASE j.kind = "write"
  <2>1. j.site \in Sites /\ j.content \in Contents /\ j.site # Catchall
    BY <1>2, <1>7, SlotFacts DEF Jobs
  <2>2. Served(disk)[j.site] = j.content
    BY <1>2, <1>3, <1>7, <2>1, SlotFacts DEF Reaching, Forward, Standing, ContentOf, Live, Writing
  <2>3. ASSUME NEW t \in Slots \ {j.site, Catchall}, <<j.site, t>> \in Overlap
        PROVE  Served(disk)[t] = Absent
    <3>1. t \in Sites
      BY <2>3, ConstantsAssumption
    <3>2. Avail(t) \in fp[r] => Avail(t) \in StaleOf(r)
      BY <2>3 DEF StaleOf, Avail
    <3>3. disk[Avail(t)] = Absent
      BY <1>2, <1>7, <2>3, <3>1, <3>2 DEF Scanned, Reaching, Stale, Forward
    <3> QED BY <1>3, <3>3
  <2>4. ASSUME NEW t \in Slots \ {j.site, Catchall}, <<j.site, t>> \notin Overlap
        PROVE  Served(disk)[t] = Settled[t]
    <3>1. Avail(t) \notin fp[r] /\ Enab(t) \notin fp[r]
      BY <1>2, <1>7, <2>4 DEF Scanned, Forward, Avail, Enab
    <3>2. b[Avail(t)] = disk[Avail(t)] /\ b[Enab(t)] = disk[Enab(t)]
      BY <1>4, <3>1, SlotFacts
    <3> QED BY <1>3, <3>2 DEF Live
  <2>5. Served(disk) = Store!Installed(j.site, j.content)
    <3>1. \A t \in Slots : Served(disk)[t] =
            IF t = j.site THEN j.content
            ELSE IF t = Catchall THEN CatchallContent
            ELSE IF <<j.site, t>> \in Overlap THEN Absent ELSE Settled[t]
      BY <1>6, <2>2, <2>3, <2>4
    <3>2. Store!Installed(j.site, j.content) =
            [t \in Slots |-> IF t = j.site THEN j.content
             ELSE IF t = Catchall THEN CatchallContent
             ELSE IF <<j.site, t>> \in Overlap THEN Absent ELSE Settled[t]]
      BY DEF Store!Installed, Store!Slots, Slots
    <3> QED BY <1>3, <3>1, <3>2
  <2> QED BY <1>5, <2>1, <2>5 DEF Store!Attempts
<1>8. CASE j.kind # "write"
  <2>1. fp[r] = RejectPaths
    BY <1>2, <1>8 DEF Scanned, Forward
  <2>2. ASSUME NEW t \in Slots \ {Catchall, Default}
        PROVE  Served(disk)[t] = Settled[t]
    <3>1. Avail(t) \notin fp[r] /\ Enab(t) \notin fp[r]
      BY <2>1, SlotFacts DEF RejectPaths, CatchallPaths
    <3>2. b[Avail(t)] = disk[Avail(t)] /\ b[Enab(t)] = disk[Enab(t)]
      BY <1>4, <3>1, SlotFacts
    <3> QED BY <1>3, <3>2 DEF Live
  <2>3. /\ b[Avail(Default)] = disk[Avail(Default)]
        /\ b[Enab(Default)] = snap[r][Enab(Default)]
    BY <1>4, <2>1, SlotFacts DEF RejectPaths, CatchallPaths
  <2>4. disk[Enab(Default)] = IF /\ b[Enab(Default)] = Linked
                                 /\ disk[Avail(Default)] = StockContent
                              THEN Absent ELSE b[Enab(Default)]
    BY <1>2, <1>8, <2>3 DEF Reaching, Forward
  <2>5. Served(disk)[Default] = IF Settled[Default] = StockContent THEN Absent
                                ELSE Settled[Default]
    BY <1>3, <2>3, <2>4, SlotFacts, ValueFacts, ConstantsAssumption DEF Live
  <2>6. Served(disk) = Store!Rejecting
    <3>1. \A t \in Slots : Served(disk)[t] =
            IF t = Catchall THEN CatchallContent
            ELSE IF t = Default THEN (IF Settled[Default] = StockContent THEN Absent
                                      ELSE Settled[Default])
            ELSE Settled[t]
      BY <1>6, <2>2, <2>5, SlotFacts
    <3>2. Store!Rejecting = [t \in Slots |->
            IF t = Default THEN (IF Settled[Default] = StockContent THEN Absent
                                      ELSE Settled[Default])
            ELSE IF t = Catchall THEN CatchallContent
            ELSE Settled[t]]
      BY <1>3, SlotFacts DEF Store!Rejecting
    <3> QED BY <1>3, <3>1, <3>2, SlotFacts
  <2> QED BY <1>5, <2>6 DEF Store!Attempts
<1> QED BY <1>7, <1>8

-----------------------------------------------------------------------------
(* The steps: each keeps the store or is a step of it. *)
Still == Settled' = Settled /\ running' = running
Lasts(r) == StoreOK(r)' /\ scarred' = {}

LEMMA StillStep == Still => [Store!Next]_Store!vars
BY DEF Still, Store!vars

LEMMA PutFacts ==
  ASSUME TypeOK, NEW p \in Paths, NEW v, Put(p, v)
  PROVE  disk'[p] = v /\ \A q \in Paths : q # p => disk'[q] = disk[q]
BY DEF TypeOK, Put

\* A handler that is at none of the steps of a transaction.
LEMMA LastsOutside ==
  ASSUME NEW r \in Requests, pc'[r] \in Resting \cup Sweeping \cup {"scan"} \cup Restoring,
         victim'[r] = None, scarred' = {}
  PROVE  Lasts(r)
BY DEF Lasts, StoreOK, Removing, Scanned, Reaching, Forward, Resting, Sweeping, Mutating,
   Restoring

LEMMA BeginStore ==
  ASSUME StoreInv, ~Overlapping, NEW r \in Requests, Begin(r)
  PROVE  Still /\ Lasts(r)
<1>1. TypeOK /\ victim[r] = None /\ UNCHANGED <<disk, running, victim, scarred>>
  BY DEF StoreInv, SerialInv, TypeInv, ReqOK, Begin, Resting, Sweeping, Restoring, env
<1>2. pc[r] \notin Staging
  BY DEF Begin, Resting, Staging, Mutating, Restoring
<1>3. \/ pc'[r] = "clean"
      \/ pc'[r] = "disable" /\ job'[r].kind = "delete"
      \/ pc'[r] = "capture" /\ job'[r].kind = "catchall" /\ fp'[r] = RejectPaths
  BY <1>1 DEF Begin, TypeOK, Goto, StartTransaction
<1>4. pc'[r] \notin Staging
  BY <1>3 DEF Staging, Mutating, Restoring
<1>5. Still
  BY <1>1, <1>2, <1>4, StoreAround DEF StoreInv, Still
<1>6. Lasts(r)
  BY <1>1, <1>3 DEF StoreInv, Lasts, StoreOK, Removing, Scanned, Reaching, Forward, Sweeping,
     Mutating, Restoring
<1> QED BY <1>5, <1>6

\* The steps before and after the transaction.
LEMMA OutsideStore ==
  ASSUME StoreInv, ~Overlapping, NEW r \in Requests,
         \/ DisableConfig(r) \/ RemoveConfig(r) \/ SweepEntry(r) \/ SweepRemove(r)
         \/ SweepDone(r) \/ ScanStale(r) \/ FailEarly(r)
  PROVE  [Store!Next]_Store!vars /\ Lasts(r)
<1> USE DEF env, local
<1>a. /\ TypeOK /\ job[r] \in Jobs /\ ReqOK(r) /\ DiskOK(r) /\ Removing(r) /\ scarred = {}
      /\ job[r].site \in Slots /\ Step(r)
  BY StepInFlight, JobFacts DEF StoreInv, SerialInv, TypeInv, ReqOK, StoreOK, Step
<1>b. pc[r] \notin Staging
  BY DEF DisableConfig, RemoveConfig, SweepEntry, SweepRemove,
     SweepDone, ScanStale, FailEarly, Sweeping, Staging, Mutating, Restoring
<1>c. Settled = Served(disk) /\ (pc'[r] \notin Staging => Settled' = Served(disk'))
  BY <1>a, <1>b, StoreAround DEF StoreInv
<1>1. CASE DisableConfig(r)
  <2>1. job[r].kind = "delete" /\ job[r].site \in Sites
    BY <1>1, <1>a, JobFacts DEF DisableConfig, Removing
  <2>2. /\ disk'[Enab(job[r].site)] = Absent
        /\ \A q \in Paths : q # Enab(job[r].site) => disk'[q] = disk[q]
    BY <1>1, <1>a, PutFacts, SlotFacts DEF DisableConfig
  <2>3. pc'[r] = "removeConf" /\ UNCHANGED <<running, job, scarred>>
    BY <1>1, <1>a DEF DisableConfig, TypeOK, Goto
  <2>4. Settled' = [Settled EXCEPT ![job[r].site] = Absent]
    <3>1. Settled' = Served(disk')
      BY <1>c, <2>3 DEF Staging, Mutating, Restoring
    <3>2. \A s \in Slots : Served(disk')[s] =
                             IF s = job[r].site THEN Absent ELSE Served(disk)[s]
      BY <1>a, <2>2, SlotFacts, ValueFacts DEF Served, Live
    <3>3. /\ Served(disk') = [s \in Slots |-> Served(disk')[s]]
          /\ Served(disk) = [s \in Slots |-> Served(disk)[s]]
      BY DEF Served
    <3> QED BY <1>a, <1>c, <3>1, <3>2, <3>3
  <2>5. Store!Withdraw
    BY <2>1, <2>3, <2>4 DEF Store!Withdraw
  <2>6. Lasts(r)
    BY <1>a, <2>1, <2>3 DEF Lasts, StoreOK, Removing, Scanned, Reaching, Forward, Sweeping,
       Mutating, Restoring
  <2> QED BY <2>5, <2>6 DEF Store!Next
<1>2. CASE RemoveConfig(r)
  <2>1. /\ pc'[r] = "capture" /\ fp'[r] = RejectPaths /\ job[r].kind = "delete"
        /\ UNCHANGED <<running, job, scarred>> /\ ~Live(disk, job[r].site)
    BY <1>2, <1>a DEF RemoveConfig, StartTransaction, Goto, TypeOK, Removing, DiskOK
  <2>2. \A q \in Paths : q # Avail(job[r].site) => disk'[q] = disk[q]
    BY <1>2, <1>a, PutFacts, SlotFacts DEF RemoveConfig
  <2>3. Served(disk') = Served(disk)
    BY <1>a, <2>1, <2>2, ServedAlike, SlotFacts DEF Live
  <2>4. Still
    BY <1>c, <2>1, <2>3 DEF Still, Staging, Mutating, Restoring
  <2>5. Lasts(r)
    BY <1>a, <2>1 DEF Lasts, StoreOK, Removing, Scanned, Reaching, Forward, Sweeping,
       Mutating, Restoring
  <2> QED BY <2>4, <2>5, StillStep
<1>3. CASE SweepEntry(r)
  <2>1. /\ pc'[r] = pc[r] /\ pc[r] \in Sweeping /\ UNCHANGED <<disk, running, scarred>>
        /\ victim'[r] # None => Dangling(disk, victim'[r][1])
    BY <1>3, <1>a DEF SweepEntry, TypeOK
  <2>2. Still
    BY <1>b, <1>c, <2>1 DEF Still
  <2>3. Lasts(r)
    BY <1>a, <2>1 DEF Lasts, StoreOK, Removing, Scanned, Reaching, Forward, Sweeping,
       Mutating, Restoring, Dangling
  <2> QED BY <2>2, <2>3, StillStep
<1>4. CASE SweepRemove(r)
  <2>1. /\ pc'[r] = pc[r] /\ pc[r] \in Sweeping /\ UNCHANGED <<running, scarred>>
        /\ victim'[r] = None /\ victim[r] # None
    BY <1>4, <1>a DEF SweepRemove, TypeOK
  <2>2. PICK s \in Slots : victim[r] = Enab(s) /\ disk[Avail(s)] = Absent
    <3>1. victim[r] \in Links /\ disk[Avail(victim[r][1])] = Absent
      BY <1>a, <2>1 DEF ReqOK, Removing
    <3> QED BY <3>1 DEF Links, Enab
  <2>3. \A q \in Paths : q # Enab(s) => disk'[q] = disk[q]
    BY <1>4, <1>a, <2>2, PutFacts, SlotFacts DEF SweepRemove
  <2>4. disk'[Enab(s)] = Absent
    BY <1>4, <1>a, <2>2, PutFacts, SlotFacts DEF SweepRemove
  <2>5. Served(disk') = Served(disk)
    <3>1. \A t \in Slots : (IF Live(disk', t) THEN disk'[Avail(t)] ELSE Absent) =
                           (IF Live(disk, t) THEN disk[Avail(t)] ELSE Absent)
      BY <2>2, <2>3, <2>4, SlotFacts, ValueFacts DEF Live
    <3> QED BY <3>1 DEF Served
  <2>6. Still
    BY <1>b, <1>c, <2>1, <2>5 DEF Still
  <2> QED BY <1>a, <2>1, <2>6, StillStep, LastsOutside
<1>5. CASE SweepDone(r)
  <2>1. /\ pc'[r] \in {"scan", "resweep", "ok"} /\ UNCHANGED <<disk, running, scarred>>
        /\ victim'[r] = None
    BY <1>5, <1>a DEF SweepDone, Finish, Goto, TypeOK
  <2>2. Still
    BY <1>c, <2>1 DEF Still, Staging, Mutating, Restoring
  <2> QED BY <1>a, <2>1, <2>2, StillStep, LastsOutside DEF Resting, Sweeping
<1>6. CASE ScanStale(r)
  <2>1. /\ pc'[r] = "capture" /\ fp'[r] = OwnPaths(job[r]) \cup StalePaths(job[r], disk)
        /\ job[r].kind = "write" /\ UNCHANGED <<disk, running, job, scarred>>
    BY <1>6, <1>a DEF ScanStale, StartTransaction, Goto, TypeOK, ReqOK
  <2>2. Still
    BY <1>c, <2>1 DEF Still, Staging, Mutating, Restoring
  <2>3. Scanned(r)'
    <3>1. \A p \in OwnPaths(job[r]) : p[1] \in {job[r].site, Catchall}
      BY DEF OwnPaths, CatchallPaths, Avail, Enab
    <3>2. \A p \in StalePaths(job[r], disk) : <<job[r].site, p[1]>> \in Overlap
      BY DEF StalePaths
    <3>3. ASSUME NEW t \in Sites \ {job[r].site}, <<job[r].site, t>> \in Overlap,
                 disk[Avail(t)] # Absent
          PROVE  Avail(t) \in StalePaths(job[r], disk)
      <4>1. Avail(t) \in (Sites \ {job[r].site}) \X {"available", "enabled"}
            /\ Avail(t)[1] = t /\ Avail(t)[2] = "available"
        BY DEF Avail
      <4> QED BY <3>3, <4>1 DEF StalePaths
    <3> QED BY <2>1, <3>1, <3>2, <3>3 DEF Scanned
  <2>4. Lasts(r)
    BY <1>a, <2>1, <2>3 DEF Lasts, StoreOK, Removing, Reaching, Forward, Sweeping,
       Mutating, Restoring
  <2> QED BY <2>2, <2>4, StillStep
<1>7. CASE FailEarly(r)
  <2>1. pc'[r] = "failed" /\ UNCHANGED <<disk, running, scarred>> /\ victim'[r] = None
    BY <1>7, <1>a DEF FailEarly, Finish, Goto, TypeOK
  <2>2. Still
    BY <1>c, <2>1 DEF Still, Staging, Mutating, Restoring
  <2> QED BY <1>a, <2>1, <2>2, StillStep, LastsOutside DEF Resting
<1> QED BY <1>1, <1>2, <1>3, <1>4, <1>5, <1>6, <1>7

\* The snapshots are taken: the store is now what they would give back.
LEMMA CaptureStore ==
  ASSUME StoreInv, ~Overlapping, NEW r \in Requests, Capture(r)
  PROVE  Still /\ Lasts(r)
<1>a. /\ TypeOK /\ job[r] \in Jobs /\ ReqOK(r) /\ DiskOK(r) /\ StoreOK(r) /\ scarred = {}
      /\ pc[r] = "capture" /\ Step(r)
  BY StepInFlight DEF StoreInv, SerialInv, TypeInv, ReqOK, Step, Capture
<1>1. UNCHANGED <<disk, running, job, fp, scarred>> /\ pc[r] \notin Staging
  BY <1>a DEF Capture, env, Staging, Mutating, Restoring
<1>2. PICK p \in left[r] :
        /\ snap' = [snap EXCEPT ![r][p] = disk[p]]
        /\ \/ left' = [left EXCEPT ![r] = @ \ {p}] /\ UNCHANGED <<pc, target>>
           \/ /\ left[r] = {p} /\ left' = [left EXCEPT ![r] = StaleOf(r)]
              /\ target' = [target EXCEPT ![r] = job[r].site]
              /\ Goto(r, IF job[r].kind # "write" THEN "default"
                         ELSE IF StaleOf(r) # {} THEN "stale" ELSE "write")
  BY DEF Capture, FirstOf, Captured
<1>3. \A q \in fp[r] \ (left[r] \ {p}) : snap'[r][q] = disk[q]
  BY <1>1, <1>2, <1>a DEF TypeOK, DiskOK
<1>4. CASE UNCHANGED <<pc, target>>
  <2>1. Still
    BY <1>1, <1>4, <1>a, StoreAround DEF Still, StoreInv
  <2> QED BY <1>1, <1>4, <1>a, <2>1 DEF Lasts, StoreOK, Removing, Scanned, Reaching, Forward,
          Sweeping, Mutating, Restoring
<1>5. CASE /\ left[r] = {p} /\ left' = [left EXCEPT ![r] = StaleOf(r)]
           /\ target' = [target EXCEPT ![r] = job[r].site]
           /\ Goto(r, IF job[r].kind # "write" THEN "default"
                      ELSE IF StaleOf(r) # {} THEN "stale" ELSE "write")
  <2>1. /\ pc'[r] = IF job[r].kind # "write" THEN "default"
                    ELSE IF StaleOf(r) # {} THEN "stale" ELSE "write"
        /\ left'[r] = StaleOf(r) /\ target'[r] = job[r].site
    <3>1. job[r].site \in Slots /\ StaleOf(r) \subseteq Paths
      BY <1>a, JobFacts DEF StaleOf, TypeOK
    <3> QED BY <1>5, <1>a, <3>1 DEF TypeOK, Goto
  <2>2. pc'[r] \in Staging /\ pc'[r] \in Mutating
    BY <2>1 DEF Staging, Mutating
  <2>3. \A q \in Paths : Base(r)'[q] = disk[q]
    BY <1>1, <1>3, <1>5 DEF Base
  <2>4. Served(Base(r)') = Served(disk)
    BY <2>3, SameServed
  <2>5. Still
    BY <1>1, <1>a, <2>2, <2>4, StoreAround DEF Still, StoreInv
  <2>6. StaleOf(r)' = StaleOf(r)
    BY <1>1 DEF StaleOf
  <2>7. Reaching(r)'
    <3>1. CASE job[r].kind = "write"
      BY <1>1, <2>1, <2>6, <3>1 DEF Reaching, Stale, Writing
    <3>2. CASE job[r].kind # "write"
      <4>1. Enab(Default) \in fp[r]
        BY <1>a, <3>2 DEF StoreOK, Scanned, RejectPaths
      <4>2. snap'[r][Enab(Default)] = disk[Enab(Default)]
        BY <1>3, <1>5, <4>1
      <4> QED BY <1>1, <2>1, <3>2, <4>2 DEF Reaching
    <3> QED BY <3>1, <3>2
  <2>8. Scanned(r)'
    BY <1>1, <1>a, <2>2 DEF StoreOK, Scanned, Forward
  <2>9. Removing(r)'
    BY <2>1 DEF Removing, Sweeping, Restoring
  <2> QED BY <1>1, <1>a, <2>5, <2>7, <2>8, <2>9 DEF Lasts, StoreOK
<1> QED BY <1>2, <1>4, <1>5

\* Where the mutation writes: within the paths of the transaction, and where it stands.
LEMMA ForwardFacts ==
  ASSUME StoreInv, NEW r \in Requests, pc[r] \in Forward
  PROVE  /\ TypeOK /\ job[r] \in Jobs /\ ReqOK(r) /\ StoreOK(r) /\ scarred = {}
         /\ left[r] \subseteq fp[r] /\ fp[r] \subseteq Paths /\ pc[r] \in Staging
         /\ CatchallPaths \subseteq fp[r]
         /\ victim[r] = None
         /\ pc[r] \in {"write", "unlink", "link"} =>
              /\ target[r] \in Slots \ {Default}
              /\ Avail(target[r]) \in fp[r] /\ Enab(target[r]) \in fp[r]
              /\ target[r] # Catchall => job[r].kind = "write" /\ target[r] = job[r].site
         /\ job[r].kind = "write" => job[r].site \in Sites /\ job[r].site # Catchall
         /\ \A p \in StaleOf(r) : p[1] # job[r].site /\ p[1] # Catchall
<1>1. /\ TypeOK /\ job[r] \in Jobs /\ ReqOK(r) /\ StoreOK(r) /\ scarred = {}
      /\ pc[r] \in Staging
  BY DEF StoreInv, SerialInv, TypeInv, ReqOK, Forward, Staging, Mutating, Resting
<1>2. /\ left[r] \subseteq fp[r] /\ fp[r] \subseteq Paths /\ Scope(job[r]) \subseteq fp[r]
  BY <1>1 DEF ReqOK, TypeOK
<1>3. victim[r] = None
  BY <1>1 DEF ReqOK, Forward, Mutating, Sweeping, Restoring
<1>4. CatchallPaths \subseteq fp[r]
  BY <1>2 DEF Scope, OwnPaths, RejectPaths
<1>5. pc[r] \in {"write", "unlink", "link"} =>
        /\ target[r] \in Slots \ {Default}
        /\ Avail(target[r]) \in fp[r] /\ Enab(target[r]) \in fp[r]
        /\ target[r] # Catchall => job[r].kind = "write" /\ target[r] = job[r].site
  BY <1>1, <1>2, <1>4, JobFacts, SlotFacts DEF ReqOK, Scope, OwnPaths, CatchallPaths, Writing
<1>6. job[r].kind = "write" => job[r].site \in Sites /\ job[r].site # Catchall
  BY <1>1, JobFacts, SlotFacts
<1>7. \A p \in StaleOf(r) : p[1] # job[r].site /\ p[1] # Catchall
  BY DEF StaleOf
<1> QED BY <1>1, <1>2, <1>3, <1>4, <1>5, <1>6, <1>7

\* A step of the mutation changes one of those paths, or none.
Within(r) == disk' = disk \/ \E p \in fp[r] : \E v \in Values : Put(p, v)
LEMMA ForwardStore ==
  ASSUME StoreInv, ~Overlapping, NEW r \in Requests, Step(r), pc[r] \in Forward,
         pc'[r] \in Forward, UNCHANGED <<running, job, fp, snap, victim, scarred>>, Within(r),
         Reaching(r)'
  PROVE  Still /\ Lasts(r)
<1>1. TypeOK /\ fp[r] \subseteq Paths /\ StoreOK(r) /\ scarred = {} /\ pc[r] \in Staging
      /\ victim[r] = None
  BY ForwardFacts
<1>2. pc'[r] \in Staging
  BY DEF Forward, Staging
<1>3. \A p \in Paths \ fp[r] : disk'[p] = disk[p]
  BY <1>1, PutFacts DEF Within
<1>4. Still
  BY <1>1, <1>2, <1>3, StoreKept DEF Still, StoreInv
<1>5. Scanned(r)'
  <2>1. \A t \in Sites : Avail(t) \in Paths
    BY SlotFacts
  <2> QED BY <1>1, <1>3, <2>1 DEF StoreOK, Scanned
<1>6. Removing(r)'
  BY <1>1 DEF Removing, Forward, Mutating, Sweeping, Restoring
<1> QED BY <1>1, <1>4, <1>5, <1>6 DEF Lasts, StoreOK

\* What it writes leaves what it has written elsewhere.
LEMMA WrittenStays ==
  ASSUME TypeOK, NEW r \in Requests, UNCHANGED <<job, fp>>,
         NEW t \in Slots, NEW v \in Values, Put(Avail(t), v) \/ Put(Enab(t), v)
  PROVE  /\ \A s \in Slots \ {t} : disk'[Avail(s)] = disk[Avail(s)] /\ disk'[Enab(s)] = disk[Enab(s)]
         /\ \A s \in Slots \ {t} : Standing(r, s)' <=> Standing(r, s)
         /\ \A p \in Paths : p[1] # t => disk'[p] = disk[p]
         /\ Put(Enab(t), v) => disk'[Avail(t)] = disk[Avail(t)] /\ disk'[Enab(t)] = v
         /\ Put(Avail(t), v) => disk'[Avail(t)] = v
<1>1. \A s \in Slots \ {t} : disk'[Avail(s)] = disk[Avail(s)] /\ disk'[Enab(s)] = disk[Enab(s)]
  BY SlotFacts, PutFacts
<1>2. \A s \in Slots \ {t} : Standing(r, s)' <=> Standing(r, s)
  BY <1>1 DEF Standing, ContentOf
<1>3. \A p \in Paths : p[1] # t => disk'[p] = disk[p]
  BY <1>1, SlotFacts
<1>4. /\ Put(Enab(t), v) => disk'[Avail(t)] = disk[Avail(t)] /\ disk'[Enab(t)] = v
      /\ Put(Avail(t), v) => disk'[Avail(t)] = v
  BY SlotFacts, PutFacts
<1> QED BY <1>1, <1>2, <1>3, <1>4

\* The rollback begins.
LEMMA RollbackStore ==
  ASSUME StoreInv, ~Overlapping, NEW r \in Requests, Step(r), pc[r] \in Forward,
         NEW how \in Restoring, StartRollback(r, how), UNCHANGED <<disk, fp, snap, scarred>>
  PROVE  Settled' = Settled /\ Lasts(r)
<1>1. pc'[r] = how /\ victim'[r] = None /\ pc[r] \in Staging /\ scarred' = {}
  BY ForwardFacts DEF StartRollback, Goto, TypeOK
<1>2. pc'[r] \in Staging
  BY <1>1 DEF Restoring, Staging
<1>3. Settled' = Settled
  BY <1>1, <1>2, StoreKept DEF StoreInv
<1> QED BY <1>1, <1>3, LastsOutside

LEMMA MutationStore ==
  ASSUME StoreInv, ~Overlapping, NEW r \in Requests,
         \/ RemoveStale(r) \/ DisableStockDefault(r) \/ WriteConfig(r) \/ Unlink(r)
         \/ Link(r) \/ LinkExists(r) \/ MutateFails(r) \/ Validate(r) \/ ReloadFails(r)
  PROVE  [Store!Next]_Store!vars /\ Lasts(r)
<1> USE DEF env, local
<1>a. Step(r) /\ pc[r] \in Forward
  BY DEF Step, Forward, Mutating, RemoveStale, DisableStockDefault, WriteConfig, Unlink,
     Link, LinkExists, MutateFails, Validate, ReloadFails
<1>b. /\ TypeOK /\ job[r] \in Jobs /\ ReqOK(r) /\ Scanned(r) /\ Reaching(r) /\ scarred = {}
      /\ left[r] \subseteq fp[r] /\ fp[r] \subseteq Paths
  BY <1>a, ForwardFacts DEF StoreOK
<1>c. pc[r] \in {"write", "unlink", "link"} =>
        /\ target[r] \in Slots \ {Default}
        /\ Avail(target[r]) \in fp[r] /\ Enab(target[r]) \in fp[r]
        /\ target[r] # Catchall => job[r].kind = "write" /\ target[r] = job[r].site
  BY <1>a, ForwardFacts
<1>d. /\ job[r].kind = "write" => job[r].site \in Slots /\ job[r].site # Catchall
      /\ \A p \in StaleOf(r) : p \in Paths /\ p[1] # job[r].site /\ p[1] # Catchall
  BY <1>a, <1>b, ForwardFacts, SlotFacts DEF StaleOf
<1>1. CASE RemoveStale(r)
  <2>1. PICK p \in left[r] :
          Put(p, Absent) /\ left' = [left EXCEPT ![r] = @ \ {p}]
          /\ (IF left[r] = {p} THEN Goto(r, "write") ELSE UNCHANGED pc)
    BY <1>1 DEF RemoveStale, FirstOf
  <2>2. /\ pc[r] = "stale" /\ UNCHANGED <<running, job, fp, snap, target, victim, scarred>>
        /\ job[r].kind = "write" /\ target[r] = job[r].site
    BY <1>1, <1>a, <1>b DEF RemoveStale, Reaching
  <2>3. /\ left'[r] = left[r] \ {p}
        /\ pc'[r] = IF left[r] = {p} THEN "write" ELSE "stale"
    BY <2>1, <2>2, <1>b DEF TypeOK, Goto
  <2>4. disk'[p] = Absent /\ \A q \in Paths : q # p => disk'[q] = disk[q]
    BY <2>1, <1>b, PutFacts
  <2>5. StaleOf(r)' = StaleOf(r) /\ StaleOf(r) \subseteq Paths
    BY <1>b, <2>2 DEF StaleOf
  <2>6. Stale(r)'
    BY <1>a, <1>b, <2>2, <2>3, <2>4, <2>5 DEF Stale, Reaching
  <2>7. Reaching(r)'
    BY <2>2, <2>3, <2>6 DEF Reaching, Writing
  <2>8. Within(r)
    BY <1>b, <2>1, ValueFacts DEF Within
  <2> QED BY <1>a, <2>2, <2>3, <2>7, <2>8, ForwardStore, StillStep DEF Forward, Mutating
<1>2. CASE DisableStockDefault(r)
  <2>1. /\ pc[r] = "default" /\ pc'[r] = "write" /\ job[r].kind # "write"
        /\ UNCHANGED <<running, job, fp, snap, victim, scarred>>
    BY <1>2, <1>b DEF DisableStockDefault, TypeOK, Goto, ReqOK
  <2>2. Enab(Default) \in fp[r]
    BY <1>a, <1>b, <2>1 DEF Scanned, RejectPaths
  <2>3. Within(r)
    BY <1>2, <2>2, ValueFacts DEF DisableStockDefault, Within
  <2>4. /\ disk'[Avail(Default)] = disk[Avail(Default)]
        /\ disk'[Enab(Default)] = IF /\ disk[Enab(Default)] = Linked
                                     /\ disk[Avail(Default)] = StockContent
                                  THEN Absent ELSE disk[Enab(Default)]
    BY <1>2, <1>b, PutFacts, SlotFacts DEF DisableStockDefault, Live
  <2>5. disk[Enab(Default)] = snap[r][Enab(Default)]
    BY <1>a, <1>b, <2>1 DEF Reaching
  <2>6. Reaching(r)'
    BY <2>1, <2>4, <2>5 DEF Reaching
  <2> QED BY <1>a, <2>1, <2>3, <2>6, ForwardStore, StillStep DEF Forward, Mutating
<1>3. CASE WriteConfig(r)
  <2>1. /\ pc[r] = "write" /\ pc'[r] = "unlink"
        /\ UNCHANGED <<running, job, fp, left, snap, target, victim, scarred>>
        /\ Put(Avail(target[r]), ContentOf(r, target[r]))
    BY <1>3, <1>b DEF WriteConfig, TypeOK, Goto, ContentOf
  <2>2. ContentOf(r, target[r]) \in Values
    BY <1>b, JobFacts, ValueFacts DEF ContentOf
  <2>3. Within(r)
    BY <1>c, <2>1, <2>2 DEF Within
  <2>4. /\ \A s \in Slots \ {target[r]} : Standing(r, s)' <=> Standing(r, s)
        /\ \A p \in Paths : p[1] # target[r] => disk'[p] = disk[p]
        /\ disk'[Avail(target[r])] = ContentOf(r, target[r])
    BY <1>b, <1>c, <2>1, <2>2, WrittenStays
  <2>5. StaleOf(r)' = StaleOf(r)
    BY <2>1 DEF StaleOf
  <2>6. job[r].kind = "write" => Stale(r)'
    BY <1>a, <1>b, <1>c, <1>d, <2>1, <2>4, <2>5 DEF Reaching, Stale
  <2>7. disk'[Enab(Default)] = disk[Enab(Default)] /\ disk'[Avail(Default)] = disk[Avail(Default)]
    BY <1>c, <2>1, <2>4, SlotFacts DEF Avail, Enab
  <2>8. job[r].kind = "write" =>
          Standing(r, job[r].site)' \/ (target'[r] = job[r].site)
    BY <1>a, <1>b, <1>c, <1>d, <2>1, <2>4 DEF Reaching
  <2>9. Reaching(r)'
    BY <1>a, <1>b, <2>1, <2>4, <2>6, <2>7, <2>8 DEF Reaching, Writing, ContentOf
  <2> QED BY <1>a, <2>1, <2>3, <2>9, ForwardStore, StillStep DEF Forward, Mutating
<1>4. CASE Unlink(r)
  <2>1. /\ pc[r] = "unlink" /\ pc'[r] = "link"
        /\ UNCHANGED <<running, job, fp, left, snap, target, victim, scarred>>
        /\ disk' = disk \/ Put(Enab(target[r]), Absent)
    BY <1>4, <1>b DEF Unlink, TypeOK, Goto
  <2>2. Within(r)
    BY <1>c, <2>1, ValueFacts DEF Within
  <2>4. /\ \A s \in Slots \ {target[r]} : Standing(r, s)' <=> Standing(r, s)
        /\ \A p \in Paths : p[1] # target[r] => disk'[p] = disk[p]
        /\ disk'[Avail(target[r])] = disk[Avail(target[r])]
    <3>1. CASE disk' = disk
      BY <2>1, <3>1 DEF Standing, ContentOf
    <3>2. CASE Put(Enab(target[r]), Absent)
      BY <1>b, <1>c, <2>1, <3>2, WrittenStays, ValueFacts
    <3> QED BY <2>1, <3>1, <3>2
  <2>5. StaleOf(r)' = StaleOf(r)
    BY <2>1 DEF StaleOf
  <2>6. job[r].kind = "write" => Stale(r)'
    BY <1>a, <1>b, <1>c, <1>d, <2>1, <2>4, <2>5 DEF Reaching, Stale
  <2>7. disk'[Enab(Default)] = disk[Enab(Default)] /\ disk'[Avail(Default)] = disk[Avail(Default)]
    BY <1>c, <2>1, <2>4, SlotFacts DEF Avail, Enab
  <2>8. job[r].kind = "write" =>
          Standing(r, job[r].site)' \/ (target'[r] = job[r].site)
    BY <1>a, <1>b, <1>c, <1>d, <2>1, <2>4 DEF Reaching
  <2>9. Reaching(r)'
    BY <1>a, <1>b, <2>1, <2>4, <2>6, <2>7, <2>8 DEF Reaching, Writing, ContentOf
  <2> QED BY <1>a, <2>1, <2>2, <2>9, ForwardStore, StillStep DEF Forward, Mutating
<1>5. CASE Link(r)
  <2>1. /\ pc[r] = "link" /\ UNCHANGED <<running, job, fp, left, snap, victim, scarred>>
        /\ Put(Enab(target[r]), Linked)
        /\ IF target[r] = Catchall THEN pc'[r] = "validate" /\ target'[r] = Catchall
           ELSE pc'[r] = "write" /\ target'[r] = Catchall
    BY <1>5, <1>b, SlotFacts DEF Link, TypeOK, Goto
  <2>2. Within(r)
    BY <1>c, <2>1, ValueFacts DEF Within
  <2>3. /\ \A s \in Slots \ {target[r]} : Standing(r, s)' <=> Standing(r, s)
        /\ \A p \in Paths : p[1] # target[r] => disk'[p] = disk[p]
        /\ disk'[Avail(target[r])] = disk[Avail(target[r])]
        /\ disk'[Enab(target[r])] = Linked
    BY <1>b, <1>c, <2>1, WrittenStays, ValueFacts
  <2>4. /\ target[r] = Catchall => Standing(r, Catchall)'
        /\ target[r] # Catchall => Standing(r, job[r].site)'
    <3>1. disk[Avail(target[r])] = ContentOf(r, target[r])
      BY <1>a, <1>b, <2>1 DEF Reaching
    <3>2. disk'[Avail(target[r])] = IF target[r] = Catchall THEN CatchallContent
                                    ELSE job'[r].content
      BY <2>1, <2>3, <3>1 DEF ContentOf
    <3>3. target[r] = Catchall => Standing(r, Catchall)'
      BY <2>3, <3>2 DEF Standing, ContentOf
    <3>4. target[r] # Catchall => Standing(r, job[r].site)'
      BY <1>c, <1>d, <2>1, <2>3, <3>2 DEF Standing, ContentOf
    <3> QED BY <3>3, <3>4
  <2>5. StaleOf(r)' = StaleOf(r)
    BY <2>1 DEF StaleOf
  <2>6. job[r].kind = "write" => Stale(r)'
    BY <1>a, <1>b, <1>c, <1>d, <2>1, <2>3, <2>5 DEF Reaching, Stale
  <2>7. disk'[Enab(Default)] = disk[Enab(Default)] /\ disk'[Avail(Default)] = disk[Avail(Default)]
    BY <1>c, <2>1, <2>3, SlotFacts DEF Avail, Enab
  <2>8. job[r].kind = "write" => Standing(r, job[r].site)'
    <3>1. CASE target[r] = Catchall
      <4>1. job[r].kind = "write" => Standing(r, job[r].site)
        BY <1>a, <1>b, <1>c, <1>d, <2>1, <3>1 DEF Reaching
      <4>2. job[r].kind = "write" => job[r].site \in Slots \ {target[r]}
        BY <1>a, <1>b, <1>c, <1>d, <2>1, <3>1 DEF Reaching
      <4> QED BY <2>1, <2>3, <4>1, <4>2
    <3>2. CASE target[r] # Catchall
      BY <2>4, <3>2
    <3> QED BY <3>1, <3>2
  <2>9. Reaching(r)'
    BY <1>a, <1>b, <2>1, <2>4, <2>6, <2>7, <2>8 DEF Reaching
  <2> QED BY <1>a, <2>1, <2>2, <2>9, ForwardStore, StillStep DEF Forward, Mutating
<1>6. CASE LinkExists(r) \/ MutateFails(r)
  <2>1. StartRollback(r, "undo") /\ UNCHANGED <<disk, running, fp, snap, scarred>>
    BY <1>6 DEF LinkExists, MutateFails
  <2> QED BY <1>a, <2>1, RollbackStore, StillStep DEF Still, Restoring
<1>7. CASE Validate(r)
  <2>1. UNCHANGED <<disk, running, job, fp, snap, target, scarred>> /\ pc[r] = "validate"
    BY <1>7 DEF Validate
  <2>2. CASE StartRollback(r, "undo")
    BY <1>a, <2>1, <2>2, RollbackStore, StillStep DEF Still, Restoring
  <2>3. CASE Goto(r, "reload") /\ UNCHANGED <<left, victim>>
    <3>1. pc'[r] = "reload"
      BY <1>b, <2>3 DEF TypeOK, Goto
    <3>2. Reaching(r)'
      BY <1>a, <1>b, <2>1, <3>1 DEF Reaching, Standing, ContentOf, Stale, StaleOf, Writing
    <3> QED BY <1>a, <2>1, <2>3, <3>1, <3>2, ForwardStore, StillStep DEF Forward, Within
  <2> QED BY <1>7, <2>2, <2>3 DEF Validate
<1>8. CASE ReloadFails(r)
  <2>1. /\ StartRollback(r, "revert") /\ UNCHANGED <<disk, fp, snap, scarred>>
        /\ pc[r] = "reload"
        /\ running' = running \/ (Valid(disk) /\ running' = Served(disk))
    BY <1>8 DEF ReloadFails
  <2>2. Settled' = Settled /\ Lasts(r)
    BY <1>a, <2>1, RollbackStore DEF Restoring
  <2>3. CASE running' = running
    BY <2>2, <2>3, StillStep DEF Still
  <2>4. CASE Valid(disk) /\ running' = Served(disk)
    <3>1. Store!Leak
      BY <2>1, <2>2, <2>4, Attempted DEF Store!Leak
    <3> QED BY <2>2, <3>1 DEF Store!Next
  <2> QED BY <2>1, <2>3, <2>4
<1> QED BY <1>1, <1>2, <1>3, <1>4, <1>5, <1>6, <1>7, <1>8

\* A reload that succeeds is where the store changes.
LEMMA ReloadStore ==
  ASSUME StoreInv, ~Overlapping, NEW r \in Requests, Reload(r)
  PROVE  Store!Commit /\ Lasts(r)
<1>1. /\ pc[r] = "reload" /\ Valid(disk) /\ running' = Served(disk) /\ disk' = disk
      /\ scarred' = {} /\ pc'[r] \in {"ok", "sweep"} /\ Step(r)
      /\ victim'[r] = None
  BY DEF Reload, Finish, Goto, Step, StoreInv, SerialInv, TypeInv, TypeOK, ReqOK, Sweeping,
     Restoring
<1>2. pc'[r] \notin Staging
  BY <1>1 DEF Staging, Mutating, Restoring
<1>3. Settled' = Served(disk)
  BY <1>1, <1>2, StoreAround DEF StoreInv
<1>4. Store!Commit
  BY <1>1, <1>3, Attempted DEF Store!Commit
<1> QED BY <1>1, <1>4, LastsOutside DEF Resting, Sweeping

\* The steps of the rollback keep the store.
LEMMA RestoreStore ==
  ASSUME StoreInv, ~Overlapping, ~FaultyRestore \/ NoFault, NEW r \in Requests,
         RestoreRemove(r) \/ Recreate(r)
  PROVE  Still /\ Lasts(r)
<1>0. ~(FaultyRestore /\ Fault)
  BY ConstantsAssumption DEF StoreInv, SerialInv, TypeInv, TypeOK, Fault, NoFault
<1>1. /\ TypeOK /\ ReqOK(r) /\ Removing(r) /\ scarred = {} /\ Step(r)
      /\ pc[r] \in Restoring /\ UNCHANGED <<pc, running, job, fp, snap>>
      /\ left[r] \subseteq fp[r] /\ victim[r] \in fp[r] \cup {None} /\ fp[r] \subseteq Paths
  BY DEF StoreInv, SerialInv, TypeInv, TypeOK, ReqOK, StoreOK, Step, RestoreRemove, Recreate,
     Staging, Restoring
<1>2. pc[r] \in Staging /\ pc'[r] \in Staging
  BY <1>1 DEF Staging
<1>3. /\ scarred' = {} /\ (victim'[r] # None => disk'[victim'[r]] = Absent)
      /\ \A p \in Paths \ fp[r] : disk'[p] = disk[p]
  <2>1. CASE RestoreRemove(r)
    <3>1. PICK p \in left[r] :
            /\ Put(p, Absent) /\ scarred' = scarred
            /\ victim' = [victim EXCEPT ![r] = IF snap[r][p] = Absent THEN None ELSE p]
      BY <1>0, <2>1 DEF RestoreRemove, LastOf
    <3> QED BY <1>1, <3>1, PutFacts DEF TypeOK
  <2>2. CASE Recreate(r)
    <3>1. disk[victim[r]] = Absent /\ victim[r] \in fp[r] /\ victim'[r] = None
      BY <1>1, <2>2 DEF Removing, Recreate, TypeOK
    <3>2. Put(victim[r], snap[r][victim[r]]) /\ scarred' = scarred
      BY <1>0, <2>2, <3>1 DEF Recreate
    <3> QED BY <1>1, <3>1, <3>2, PutFacts
  <2> QED BY <2>1, <2>2
<1>4. Still
  BY <1>1, <1>2, <1>3, StoreKept DEF Still, StoreInv
<1>5. StoreOK(r)'
  BY <1>1, <1>3 DEF StoreOK, Removing, Scanned, Reaching, Forward, Mutating, Sweeping, Restoring
<1> QED BY <1>3, <1>4, <1>5 DEF Lasts

\* The rollback ends with the store on the disk, and nginx may come back to it.
LEMMA EndStore ==
  ASSUME StoreInv, ~Overlapping, NEW r \in Requests,
         Undone(r) \/ Revalidate(r) \/ Rereload(r)
  PROVE  [Store!Next]_Store!vars /\ Lasts(r)
<1> USE DEF env
<1>1. /\ TypeOK /\ ReqOK(r) /\ Removing(r) /\ scarred = {} /\ Step(r) /\ pc[r] \in Staging
      /\ UNCHANGED <<disk, scarred>>
  BY DEF StoreInv, SerialInv, TypeInv, StoreOK, Step, Undone, Revalidate, Rereload, Staging,
     Restoring
<1>2. \A p \in fp[r] : disk[p] = snap[r][p]
  <2>1. CASE Undone(r) \/ Revalidate(r)
    BY <2>1, GivenBack DEF Undone, Revalidate, Restoring
  <2>2. CASE Rereload(r)
    BY <1>1, <2>2 DEF Rereload, Removing
  <2> QED BY <2>1, <2>2
<1>3. CASE Finish(r, "failed")
  <2>1. pc'[r] = "failed" /\ victim'[r] = None
    BY <1>1, <1>3 DEF Finish, Goto, TypeOK
  <2>2. pc'[r] \notin Staging
    BY <2>1 DEF Staging, Mutating, Restoring
  <2>3. Settled' = Settled /\ Settled' = Served(disk)
    BY <1>1, <1>2, <2>2, StoreGivenBack DEF StoreInv
  <2>4. Lasts(r)
    BY <1>1, <2>1, LastsOutside DEF Resting
  <2>5. running' = running \/ running' = Served(disk)
    BY DEF Undone, Revalidate, Rereload
  <2>6. running' = Served(disk) => Store!Revert
    BY <2>3 DEF Store!Revert
  <2> QED BY <2>3, <2>4, <2>5, <2>6, StillStep DEF Still, Store!Next
<1>4. CASE ~Finish(r, "failed")
  <2>1. /\ pc[r] = "revert" /\ Goto(r, "rereload") /\ UNCHANGED local /\ UNCHANGED running
        /\ victim[r] = None
    BY <1>4 DEF Undone, Revalidate, Rereload, Restored
  <2>2. pc'[r] = "rereload" /\ UNCHANGED <<job, fp, snap, victim>>
    BY <1>1, <2>1 DEF Goto, TypeOK, local
  <2>3. Still
    BY <1>1, <2>1, <2>2, StoreKept DEF Still, StoreInv, Staging
  <2>4. StoreOK(r)'
    BY <1>1, <1>2, <2>2 DEF StoreOK, Removing, Scanned, Reaching, Forward, Mutating, Sweeping,
       Restoring
  <2> QED BY <1>1, <2>3, <2>4, StillStep DEF Lasts
<1> QED BY <1>3, <1>4

-----------------------------------------------------------------------------
\* The store of a new host.
LEMMA InitStore == Init => StoreInv /\ Store!Init
<1> SUFFICES ASSUME Init PROVE StoreInv /\ Store!Init
  OBVIOUS
<1>1. \A r \in Requests : StoreOK(r)
  BY DEF Init, StoreOK, Removing, Scanned, Reaching, Forward, Mutating, Sweeping, Restoring
<1>2. StoreInv
  BY <1>1, InitSerial DEF StoreInv, Init
<1>3. Settled = Served(FreshDisk) /\ running = Served(FreshDisk)
  BY DEF Init, Settled, Staging, Mutating, Restoring
<1>4. \A s \in Slots : (IF Live(FreshDisk, s) THEN FreshDisk[Avail(s)] ELSE Absent) =
                       IF s = Default THEN StockContent ELSE Absent
  BY SlotFacts, ValueFacts DEF FreshDisk, Live
<1>5. Served(FreshDisk) = [s \in Slots |-> IF s = Default THEN StockContent ELSE Absent]
  BY <1>4 DEF Served
<1>6. Store!Init
  BY <1>3, <1>5 DEF Store!Init, Store!Slots, Slots
<1> QED BY <1>2, <1>6

\* A step of a request keeps the invariant and is a step of the store or none.
LEMMA StoreStep ==
  ASSUME StoreInv, ~Overlapping, ~FaultyRestore \/ NoFault, NEW r \in Requests,
         Begin(r) \/ Step(r)
  PROVE  StoreInv' /\ [Store!Next]_Store!vars
<1>0. SerialInv'
  BY NextSerial DEF StoreInv, Next
<1>1. Lasts(r) /\ [Store!Next]_Store!vars
  <2>1. CASE Begin(r)
    BY <2>1, BeginStore, StillStep
  <2>2. CASE \/ DisableConfig(r) \/ RemoveConfig(r) \/ SweepEntry(r) \/ SweepRemove(r)
             \/ SweepDone(r) \/ ScanStale(r) \/ FailEarly(r)
    BY <2>2, OutsideStore
  <2>3. CASE Capture(r)
    BY <2>3, CaptureStore, StillStep
  <2>4. CASE \/ RemoveStale(r) \/ DisableStockDefault(r) \/ WriteConfig(r) \/ Unlink(r)
             \/ Link(r) \/ LinkExists(r) \/ MutateFails(r) \/ Validate(r) \/ ReloadFails(r)
    BY <2>4, MutationStore
  <2>5. CASE Reload(r)
    BY <2>5, ReloadStore DEF Store!Next
  <2>6. CASE RestoreRemove(r) \/ Recreate(r)
    BY <2>6, RestoreStore, StillStep
  <2>7. CASE Undone(r) \/ Revalidate(r) \/ Rereload(r)
    BY <2>7, EndStore
  <2> QED BY <2>1, <2>2, <2>3, <2>4, <2>5, <2>6, <2>7 DEF Step
<1>2. \A q \in Requests \ {r} : StoreOK(q)'
  <2>1. \A q \in Requests \ {r} : pc'[q] \in Resting
    BY TakingTurns DEF StoreInv
  <2> QED BY <2>1 DEF StoreOK, Removing, Scanned, Reaching, Forward, Mutating, Sweeping,
          Restoring, Resting
<1>3. crashes' = 0
  <2>1. CASE Begin(r)
    BY <2>1 DEF Begin, env, StoreInv
  <2>2. CASE Step(r)
    BY <2>2 DEF StoreInv, Step, env, DisableConfig, RemoveConfig, SweepEntry, SweepRemove,
       SweepDone, ScanStale, Capture, FailEarly, RemoveStale, DisableStockDefault,
       WriteConfig, Unlink, Link, LinkExists, MutateFails, Validate, Reload, ReloadFails,
       RestoreRemove, Recreate, Undone, Revalidate, Rereload
  <2> QED BY <2>1, <2>2
<1> QED BY <1>0, <1>1, <1>2, <1>3 DEF StoreInv, Lasts

\* Every step keeps the invariant and is a step of the store or none.
LEMMA NextStore ==
  ASSUME StoreInv, ~Overlapping, ~FaultyRestore, MaxCrashes = 0, [Next]_vars
  PROVE  StoreInv' /\ [Store!Next]_Store!vars
<1>1. SerialInv'
  BY NextSerial DEF StoreInv
<1>2. CASE UNCHANGED vars
  <2>1. StoreInv'
    BY <1>1, <1>2 DEF StoreInv, vars, StoreOK, Removing, Scanned, Reaching, Standing, ContentOf,
       Stale, StaleOf
  <2>2. Still
    BY <1>2 DEF vars, Still, Settled, Served, Base, Live
  <2> QED BY <2>1, <2>2, StillStep
<1>3. ~Crash
  BY DEF Crash, StoreInv
<1>4. ASSUME NEW r \in Requests, Begin(r) \/ Step(r)
      PROVE  StoreInv' /\ [Store!Next]_Store!vars
  BY <1>4, StoreStep
<1> QED BY <1>2, <1>3, <1>4 DEF Next

\* Operators who take turns, on a host where no step of the rollback fails and the panel does
\* not die, see an atomic store: a handler that succeeds has replaced a platform's
\* configuration, the catch-all and the stale files in one step, one that fails has changed
\* nothing, for any platforms, contents and failures (applyNginxTransaction).
THEOREM SerialImplementsStore ==
  ASSUME ~Overlapping, ~FaultyRestore, MaxCrashes = 0
  PROVE  Spec => ImplementsConfigStore
<1>1. Init => StoreInv /\ Store!Init
  BY InitStore
<1>2. StoreInv /\ [Next]_vars => StoreInv' /\ [Store!Next]_Store!vars
  BY NextStore
<1> QED BY <1>1, <1>2, PTL DEF Spec, ImplementsConfigStore, Store!Spec
-----------------------------------------------------------------------------
(***************************************************************************)
(* What becomes of live links, and what handlers report, when operators    *)
(* take turns.  A sweep takes a link it has found dangling and nginx       *)
(* already serves what is on disk.  Before any failure and any crash, a    *)
(* well-formed virtual host stands in a tree nginx accepts by the time it  *)
(* is validated, so that a rollback of it has the stock default server to  *)
(* blame.                                                                  *)
(***************************************************************************)

Sweeps(r) ==
  /\ pc[r] \in Sweeping /\ victim[r] # None => disk[Avail(victim[r][1])] = Absent
  /\ pc[r] \in {"sweep", "resweep"} => running = Served(disk)

Calm     == faults = 0 /\ crashes = 0
Plain(r) == job[r].kind = "write" /\ job[r].content \in Accepted
Sound(r) ==
  Plain(r) =>
    /\ pc[r] \in Restoring \cup {"rereload"} =>
         Live(disk, Default) /\ \A p \in fp[r] : p[1] # Default
    /\ pc[r] \in Forward \cup {"capture"} =>
         \A t \in Sites \ {job[r].site} :
           Avail(t) \in fp[r] => Enab(t) \in fp[r] \/ ~Live(disk, t)
    /\ pc[r] = "link" => ~Live(disk, target[r])
    /\ pc[r] = "reload" => Valid(disk)

SweepInv == SerialInv /\ \A r \in Requests : Sweeps(r)
TruthInv ==
  /\ SweepInv
  /\ Calm => StoreInv /\ \A r \in Requests : Sound(r)

-----------------------------------------------------------------------------
\* A step of a transaction stays within its paths.
LEMMA StagingWithin ==
  ASSUME TypeInv, NEW r \in Requests, Step(r), pc[r] \in Staging
  PROVE  \A p \in Paths \ fp[r] : disk'[p] = disk[p]
<1>1. /\ TypeOK /\ ReqOK(r) /\ job[r] \in Jobs /\ left[r] \subseteq fp[r]
      /\ Scope(job[r]) \subseteq fp[r] /\ victim[r] \in fp[r] \cup {None} /\ fp[r] \subseteq Paths
  BY StepInFlight DEF TypeInv, ReqOK, TypeOK
<1>2. CatchallPaths \subseteq fp[r]
  BY <1>1 DEF Scope, OwnPaths, RejectPaths
<1>3. pc[r] \in {"write", "unlink", "link"} =>
        Avail(target[r]) \in fp[r] /\ Enab(target[r]) \in fp[r]
  BY <1>1, <1>2, JobFacts, SlotFacts DEF ReqOK, Scope, OwnPaths, CatchallPaths, Writing
<1>4. pc[r] = "default" => Enab(Default) \in fp[r]
  BY <1>1 DEF ReqOK, Scope, RejectPaths
<1>5. ASSUME NEW p \in fp[r], NEW v, Put(p, v)
      PROVE  \A q \in Paths \ fp[r] : disk'[q] = disk[q]
  BY <1>1, <1>5, PutFacts
<1>6. CASE UNCHANGED disk
  BY <1>6
<1>7. CASE RemoveStale(r) \/ DisableStockDefault(r) \/ WriteConfig(r)
  BY <1>1, <1>3, <1>4, <1>5, <1>7 DEF RemoveStale, FirstOf, DisableStockDefault, WriteConfig
<1>8. CASE Unlink(r) \/ Link(r)
  BY <1>3, <1>5, <1>8 DEF Unlink, Link
<1>9. CASE RestoreRemove(r) \/ Recreate(r)
  <2>1. CASE RestoreRemove(r)
    BY <1>1, <1>5, <2>1 DEF RestoreRemove, LastOf
  <2>2. CASE Recreate(r)
    BY <1>1, <1>5, <2>2 DEF Recreate
  <2> QED BY <1>9, <2>1, <2>2
<1>10. CASE DisableConfig(r) \/ RemoveConfig(r) \/ SweepRemove(r)
  BY <1>10 DEF DisableConfig, RemoveConfig, SweepRemove, Sweeping, Staging, Mutating, Restoring
<1> QED BY <1>6, <1>7, <1>8, <1>9, <1>10 DEF Step, SweepEntry, SweepDone, ScanStale, Capture,
        FailEarly, LinkExists, MutateFails, Validate, Reload, ReloadFails, Undone, Revalidate,
        Rereload

\* The steps of the sweeps.
LEMMA SweepsStep ==
  ASSUME SerialInv, ~Overlapping, NEW r \in Requests, Sweeps(r), Begin(r) \/ Step(r)
  PROVE  Sweeps(r)'
<1> USE DEF env, local
<1>1. TypeOK /\ ReqOK(r)
  BY DEF SerialInv, TypeInv
<1>2. CASE pc'[r] \notin Sweeping
  BY <1>2 DEF Sweeps, Sweeping
<1>3. CASE Begin(r)
  <2>1. victim'[r] = None /\ pc'[r] \notin {"sweep", "resweep"}
    BY <1>1, <1>3 DEF Begin, ReqOK, TypeOK, Goto, StartTransaction, Resting, Sweeping, Restoring
  <2> QED BY <2>1 DEF Sweeps
<1>4. CASE SweepEntry(r)
  <2>1. /\ pc'[r] = pc[r] /\ UNCHANGED <<disk, running>>
        /\ victim'[r] # None => Dangling(disk, victim'[r][1])
    BY <1>1, <1>4 DEF SweepEntry, TypeOK
  <2> QED BY <2>1 DEF Sweeps, Dangling
<1>5. CASE SweepRemove(r)
  <2>1. /\ pc'[r] = pc[r] /\ pc[r] \in Sweeping /\ running' = running
        /\ victim'[r] = None /\ victim[r] # None
    BY <1>1, <1>5 DEF SweepRemove, TypeOK
  <2>2. PICK s \in Slots : victim[r] = Enab(s) /\ disk[Avail(s)] = Absent
    <3>1. victim[r] \in Links /\ disk[Avail(victim[r][1])] = Absent
      BY <1>1, <2>1 DEF ReqOK, Sweeps
    <3> QED BY <3>1 DEF Links, Enab
  <2>3. disk'[Enab(s)] = Absent /\ \A q \in Paths : q # Enab(s) => disk'[q] = disk[q]
    BY <1>1, <1>5, <2>2, PutFacts, SlotFacts DEF SweepRemove
  <2>4. Served(disk') = Served(disk)
    <3>1. \A t \in Slots : (IF Live(disk', t) THEN disk'[Avail(t)] ELSE Absent) =
                           (IF Live(disk, t) THEN disk[Avail(t)] ELSE Absent)
      BY <2>2, <2>3, SlotFacts, ValueFacts DEF Live
    <3> QED BY <3>1 DEF Served
  <2> QED BY <2>1, <2>4 DEF Sweeps
<1>6. CASE SweepDone(r)
  <2>1. /\ UNCHANGED <<disk, running>> /\ victim'[r] = None
        /\ pc'[r] \in {"scan", "ok"} \/ (pc[r] = "sweep" /\ pc'[r] = "resweep")
    BY <1>1, <1>6 DEF SweepDone, Finish, Goto, TypeOK
  <2> QED BY <2>1 DEF Sweeps, Sweeping
<1>7. CASE Reload(r)
  <2>1. UNCHANGED disk /\ running' = Served(disk) /\ victim'[r] = None
    BY <1>1, <1>7 DEF Reload, Finish, TypeOK, ReqOK, Sweeping, Restoring
  <2> QED BY <2>1 DEF Sweeps
<1>8. CASE DisableConfig(r) \/ RemoveConfig(r) \/ ScanStale(r) \/ FailEarly(r)
  BY <1>1, <1>2, <1>8 DEF DisableConfig, RemoveConfig, ScanStale, FailEarly, TypeOK, Goto,
     Finish, StartTransaction, Sweeping
<1>9. CASE Capture(r) \/ RemoveStale(r)
  BY <1>1, <1>2, <1>9 DEF Capture, RemoveStale, TypeOK, Goto, Sweeping
<1>10. CASE DisableStockDefault(r) \/ WriteConfig(r) \/ Unlink(r) \/ Link(r)
  BY <1>1, <1>2, <1>10 DEF DisableStockDefault, WriteConfig, Unlink, Link, TypeOK, Goto,
     Sweeping
<1>11. CASE LinkExists(r) \/ MutateFails(r) \/ Validate(r) \/ ReloadFails(r)
  BY <1>1, <1>2, <1>11 DEF LinkExists, MutateFails, Validate, ReloadFails, TypeOK, Goto,
     StartRollback, Sweeping
<1>12. CASE RestoreRemove(r) \/ Recreate(r)
  BY <1>1, <1>2, <1>12 DEF RestoreRemove, Recreate, Restoring, Sweeping
<1>13. CASE Undone(r) \/ Revalidate(r) \/ Rereload(r)
  BY <1>1, <1>2, <1>13 DEF Undone, Revalidate, Rereload, TypeOK, Goto, Finish, Sweeping
<1> QED BY <1>3, <1>4, <1>5, <1>6, <1>7, <1>8, <1>9, <1>10, <1>11, <1>12, <1>13 DEF Step

\* A link with a target goes by the hand of its transaction or of its platform's deletion.
LEMMA LinkGone ==
  ASSUME TypeInv, NEW r \in Requests, Sweeps(r), Begin(r) \/ Step(r), NEW s \in Slots,
         Live(disk, s), disk[Avail(s)] # Absent, disk'[Enab(s)] = Absent
  PROVE  s \in Touched(r) \/ (pc[r] = "disable" /\ job[r].site = s)
<1>1. /\ TypeOK /\ ReqOK(r) /\ Avail(s) \in Paths /\ Enab(s) \in Paths
      /\ disk[Enab(s)] = Linked /\ disk'[Enab(s)] # disk[Enab(s)]
  BY SlotFacts, ValueFacts DEF TypeInv, Live
<1>2. disk' # disk
  BY <1>1
<1>3. Step(r)
  BY <1>2 DEF Begin
<1>4. job[r] \in Jobs /\ job[r].site \in Slots
  BY <1>1, <1>3, StepInFlight, JobFacts DEF ReqOK
<1>5. CASE pc[r] \in Staging
  <2>1. Enab(s) \in fp[r] /\ Enab(s)[1] = s
    BY <1>1, <1>3, <1>5, StagingWithin DEF Enab
  <2> QED BY <1>5, <2>1 DEF Touched
<1>6. CASE DisableConfig(r)
  BY <1>1, <1>4, <1>6, PutFacts, SlotFacts DEF DisableConfig
<1>7. CASE RemoveConfig(r)
  BY <1>1, <1>4, <1>7, PutFacts, SlotFacts DEF RemoveConfig
<1>8. CASE SweepRemove(r)
  <2>1. PICK t \in Slots : victim[r] = Enab(t) /\ disk[Avail(t)] = Absent
    <3>1. victim[r] \in Links /\ disk[Avail(victim[r][1])] = Absent
      BY <1>1, <1>8 DEF ReqOK, Sweeps, SweepRemove
    <3> QED BY <3>1 DEF Links, Enab
  <2> QED BY <1>1, <1>8, <2>1, PutFacts, SlotFacts DEF SweepRemove
<1>9. CASE SweepEntry(r) \/ SweepDone(r) \/ ScanStale(r) \/ Capture(r) \/ FailEarly(r)
  BY <1>2, <1>9 DEF SweepEntry, SweepDone, ScanStale, Capture, FailEarly
<1>10. CASE \/ RemoveStale(r) \/ DisableStockDefault(r) \/ WriteConfig(r) \/ Unlink(r)
            \/ Link(r) \/ LinkExists(r) \/ MutateFails(r) \/ Validate(r) \/ Reload(r)
            \/ ReloadFails(r) \/ RestoreRemove(r) \/ Recreate(r) \/ Undone(r)
            \/ Revalidate(r) \/ Rereload(r)
  BY <1>5, <1>10 DEF RemoveStale, DisableStockDefault, WriteConfig, Unlink, Link, LinkExists,
     MutateFails, Validate, Reload, ReloadFails, RestoreRemove, Recreate, Undone, Revalidate,
     Rereload, Staging, Mutating, Restoring
<1> QED BY <1>3, <1>6, <1>7, <1>8, <1>9, <1>10 DEF Step

-----------------------------------------------------------------------------
\* What is staged with a well-formed virtual host, before any failure, is accepted.
LEMMA StagedSound ==
  ASSUME StoreInv, CatchallContent \in Accepted, NEW r \in Requests, pc[r] = "validate",
         Plain(r), Sound(r), NEW s \in Broken(disk)
  PROVE  Live(disk, Default)
<1>1. SUFFICES ASSUME Live(disk, s), disk[Avail(s)] \notin Accepted PROVE FALSE
  BY DEF Broken
<1>2. /\ s \in Slots /\ Avail(s) \in Paths /\ Enab(s) \in Paths
      /\ Avail(s)[1] = s /\ Enab(s)[1] = s
  BY SlotFacts DEF Broken, Avail, Enab
<1>3. Scanned(r) /\ Reaching(r) /\ scarred = {} /\ DiskOK(r)
  BY DEF StoreInv, StoreOK, SerialInv
<1>4. s # Catchall
  BY <1>1, <1>3 DEF Reaching, Forward, Standing, ContentOf
<1>5. s # job[r].site
  BY <1>1, <1>3, <1>4 DEF Reaching, Forward, Standing, ContentOf, Plain, Writing
<1>6. CASE Avail(s) \notin fp[r] /\ Enab(s) \notin fp[r]
  <2>1. Base(r)[Avail(s)] = disk[Avail(s)] /\ Base(r)[Enab(s)] = disk[Enab(s)]
    BY <1>2, <1>6 DEF Base
  <2>2. s \in Broken(Base(r))
    BY <1>1, <1>2, <2>1 DEF Broken, Live
  <2> QED BY <1>3, <2>2 DEF DiskOK, Staging
<1>7. CASE Avail(s) \in fp[r] \/ Enab(s) \in fp[r]
  <2>1. <<job[r].site, s>> \in Overlap
    BY <1>2, <1>3, <1>4, <1>5, <1>7 DEF Scanned, Forward, Plain
  <2>2. s \in Sites \ {job[r].site}
    BY <1>5, <2>1, ConstantsAssumption
  <2>3. Enab(s) \in fp[r]
    BY <1>1, <1>7, <2>2 DEF Sound, Forward
  <2>4. Enab(s) \in StaleOf(r)
    BY <1>2, <1>4, <1>5, <2>3 DEF StaleOf
  <2>5. disk[Enab(s)] = Absent
    BY <1>3, <2>4 DEF Reaching, Forward, Stale, Plain
  <2> QED BY <1>1, <2>5, ValueFacts DEF Live
<1> QED BY <1>6, <1>7

\* A step that does not fail leads a well-formed virtual host on.
LEMMA SoundStep ==
  ASSUME StoreInv, ~Overlapping, CatchallContent \in Accepted, NEW r \in Requests, Sound(r),
         Begin(r) \/ Step(r), NoFault
  PROVE  Sound(r)'
<1> USE DEF env, local
<1>1. TypeOK /\ ReqOK(r) /\ Scanned(r) /\ ~Fault
  BY DEF StoreInv, SerialInv, TypeInv, TypeOK, StoreOK, Fault, NoFault
<1>2. CASE pc'[r] \in Resting \cup Sweeping \cup {"disable", "removeConf", "scan"}
  BY <1>2 DEF Sound, Resting, Sweeping, Forward, Mutating, Restoring
<1>3. CASE Begin(r)
  <2>1. \/ pc'[r] \in {"clean", "disable"} \/ job'[r].kind = "catchall"
    BY <1>1, <1>3 DEF Begin, TypeOK, Goto, StartTransaction
  <2> QED BY <1>2, <2>1 DEF Sound, Plain, Sweeping
<1>4. CASE DisableConfig(r) \/ SweepEntry(r) \/ SweepRemove(r) \/ SweepDone(r) \/ FailEarly(r)
  <2>1. pc'[r] \in Resting \cup Sweeping \cup {"removeConf", "scan"}
    BY <1>1, <1>4 DEF DisableConfig, SweepEntry, SweepRemove, SweepDone, FailEarly, Goto,
       Finish, TypeOK, Resting, Sweeping
  <2> QED BY <1>2, <2>1
<1>5. CASE RemoveConfig(r)
  <2>1. job'[r] = job[r] /\ job[r].kind # "write"
    BY <1>1, <1>5 DEF RemoveConfig, StartTransaction, ReqOK
  <2> QED BY <2>1 DEF Sound, Plain
<1>6. CASE ScanStale(r)
  <2>1. /\ pc'[r] = "capture" /\ fp'[r] = OwnPaths(job[r]) \cup StalePaths(job[r], disk)
        /\ UNCHANGED <<disk, job>>
    BY <1>1, <1>6 DEF ScanStale, StartTransaction, Goto, TypeOK
  <2>2. ASSUME NEW t \in Sites \ {job[r].site}, Avail(t) \in fp'[r], Live(disk, t)
        PROVE  Enab(t) \in fp'[r]
    <3>1. Avail(t) \notin OwnPaths(job[r])
      BY <2>2, SlotFacts DEF OwnPaths, CatchallPaths, Avail, Enab
    <3>2. <<job[r].site, t>> \in Overlap /\ disk[Avail(t)] # Absent
      BY <2>1, <2>2, <3>1 DEF StalePaths, Avail
    <3>3. Enab(t) \in (Sites \ {job[r].site}) \X {"available", "enabled"} /\ Enab(t)[1] = t
      BY DEF Enab
    <3> QED BY <2>1, <2>2, <3>2, <3>3 DEF StalePaths
  <2> QED BY <2>1, <2>2 DEF Sound, Forward, Mutating, Restoring
<1>7. CASE Capture(r)
  <2>1. /\ UNCHANGED <<disk, job, fp>> /\ pc[r] = "capture"
        /\ pc'[r] \in {"capture", "default", "stale", "write"}
    BY <1>1, <1>7 DEF Capture, Goto, TypeOK
  <2> QED BY <2>1 DEF Sound, Plain, Live, Forward, Mutating, Restoring
<1>8. ASSUME pc[r] \in Forward, UNCHANGED <<job, fp>>, pc'[r] \in Mutating \cup {"validate"},
             \A t \in Sites \ {job[r].site} : Live(disk', t) => Live(disk, t),
             pc'[r] = "link" => ~Live(disk', target'[r])
      PROVE  Sound(r)'
  BY <1>8 DEF Sound, Plain, Forward, Mutating, Restoring
<1>9. CASE RemoveStale(r)
  <2>1. /\ UNCHANGED <<job, fp>> /\ pc[r] = "stale" /\ pc'[r] \in {"stale", "write"}
        /\ \E p \in left[r] : Put(p, Absent)
    BY <1>1, <1>9 DEF RemoveStale, FirstOf, Goto, TypeOK
  <2>2. \A t \in Sites : Live(disk', t) => Live(disk, t)
    BY <1>1, <2>1, SlotFacts, ValueFacts DEF Put, TypeOK, Live
  <2> QED BY <1>8, <2>1, <2>2 DEF Forward, Mutating
<1>10. CASE DisableStockDefault(r)
  <2>1. job'[r] = job[r] /\ job[r].kind # "write"
    BY <1>1, <1>10 DEF DisableStockDefault, ReqOK
  <2> QED BY <2>1 DEF Sound, Plain
<1>11. pc[r] \in {"write", "unlink", "link"} =>
         /\ target[r] \in Slots /\ target[r] \in {job[r].site, Catchall}
  <2>1. pc[r] \in {"write", "unlink", "link"} =>
          /\ target[r] \in Slots \ {Default}
          /\ target[r] # Catchall => target[r] = job[r].site
    BY ForwardFacts DEF Forward, Mutating
  <2> QED BY <2>1
<1>12. CASE WriteConfig(r)
  <2>1. /\ UNCHANGED <<job, fp>> /\ pc[r] = "write" /\ pc'[r] = "unlink"
        /\ \E v : Put(Avail(target[r]), v)
    BY <1>1, <1>12 DEF WriteConfig, Goto, TypeOK
  <2>2. \A t \in Sites : Live(disk', t) => Live(disk, t)
    BY <1>1, <1>11, <2>1, SlotFacts, PutFacts DEF Live
  <2> QED BY <1>8, <2>1, <2>2 DEF Forward, Mutating
<1>13. CASE Unlink(r)
  <2>1. /\ UNCHANGED <<job, fp, target>> /\ pc[r] = "unlink" /\ pc'[r] = "link"
        /\ Put(Enab(target[r]), Absent)
    BY <1>1, <1>13 DEF Unlink, Goto, TypeOK
  <2>2. /\ \A t \in Sites : Live(disk', t) => Live(disk, t)
        /\ ~Live(disk', target[r])
    BY <1>1, <1>11, <2>1, SlotFacts, ValueFacts, PutFacts DEF Live
  <2> QED BY <1>8, <2>1, <2>2 DEF Forward, Mutating
<1>14. CASE Link(r)
  <2>1. /\ UNCHANGED <<job, fp>> /\ pc[r] = "link" /\ pc'[r] \in {"validate", "write"}
        /\ Put(Enab(target[r]), Linked)
    BY <1>1, <1>14 DEF Link, Goto, TypeOK
  <2>2. \A t \in Sites \ {job[r].site} : Live(disk', t) => Live(disk, t)
    BY <1>1, <1>11, <2>1, SlotFacts, PutFacts DEF Live
  <2> QED BY <1>8, <2>1, <2>2 DEF Forward, Mutating
<1>15. CASE LinkExists(r)
  <2>1. job'[r] = job[r] /\ ~Plain(r)
    BY <1>15 DEF LinkExists, Sound
  <2> QED BY <2>1 DEF Sound, Plain
<1>16. CASE MutateFails(r)
  BY <1>1, <1>16 DEF MutateFails
<1>17. CASE Validate(r)
  <2>1. UNCHANGED <<disk, job, fp>> /\ pc[r] = "validate"
    BY <1>17 DEF Validate
  <2>2. CASE Valid(disk) /\ Goto(r, "reload")
    <3>1. pc'[r] = "reload" /\ Valid(disk')
      BY <1>1, <2>1, <2>2 DEF Goto, TypeOK
    <3> QED BY <2>1, <3>1 DEF Sound, Plain, Forward, Mutating, Restoring
  <2>3. CASE ~Valid(disk) /\ StartRollback(r, "undo")
    <3>1. pc'[r] = "undo"
      BY <1>1, <2>3 DEF StartRollback, Goto, TypeOK
    <3>2. Plain(r) => Live(disk, Default)
      BY <2>1, <2>3, StagedSound DEF Valid
    <3>3. Plain(r) => \A p \in fp[r] : p[1] # Default
      <4>1. job[r].kind = "write" => job[r].site \in Sites
        BY <2>1, ForwardFacts DEF Forward
      <4>2. ASSUME NEW p \in fp[r], Plain(r) PROVE p[1] # Default
        <5>1. p[1] \in {job[r].site, Catchall} \/ <<job[r].site, p[1]>> \in Overlap
          BY <1>1, <2>1, <4>2 DEF Plain, Scanned, Forward
        <5>2. p[1] \in Sites \cup {Catchall}
          BY <4>1, <4>2, <5>1, ConstantsAssumption DEF Plain
        <5> QED BY <5>2, SlotFacts
      <4> QED BY <4>2
    <3> QED BY <2>1, <3>1, <3>2, <3>3 DEF Sound, Plain, Forward, Mutating, Restoring
  <2> QED BY <1>1, <1>17, <2>2, <2>3 DEF Validate
<1>18. CASE Reload(r)
  <2>1. pc'[r] \in {"ok", "sweep"}
    BY <1>1, <1>18 DEF Reload, Finish, Goto, TypeOK
  <2> QED BY <1>2, <2>1 DEF Resting, Sweeping
<1>19. CASE ReloadFails(r)
  <2>1. job'[r] = job[r] /\ ~Plain(r)
    BY <1>1, <1>19 DEF ReloadFails, Sound
  <2> QED BY <2>1 DEF Sound, Plain
<1>20. CASE RestoreRemove(r) \/ Recreate(r)
  <2>1. UNCHANGED <<job, fp, pc>> /\ pc[r] \in Restoring /\ Step(r)
    BY <1>20 DEF RestoreRemove, Recreate, Step
  <2>2. Plain(r) => disk'[Enab(Default)] = disk[Enab(Default)]
    <3>1. \A p \in Paths \ fp[r] : disk'[p] = disk[p]
      BY <2>1, StagingWithin DEF Staging, StoreInv, SerialInv
    <3>2. Plain(r) => Enab(Default) \notin fp[r]
      BY <2>1 DEF Sound, Enab
    <3> QED BY <3>1, <3>2, SlotFacts
  <2> QED BY <2>1, <2>2 DEF Sound, Plain, Live, Forward, Mutating, Restoring
<1>21. CASE Undone(r) \/ Revalidate(r) \/ Rereload(r)
  <2>1. CASE Finish(r, "failed")
    BY <1>1, <1>2, <2>1 DEF Finish, Goto, TypeOK, Resting
  <2>2. CASE ~Finish(r, "failed")
    <3>1. UNCHANGED <<disk, job, fp>> /\ pc[r] = "revert" /\ pc'[r] = "rereload"
      BY <1>1, <1>21, <2>2 DEF Undone, Revalidate, Rereload, Goto, TypeOK
    <3> QED BY <3>1 DEF Sound, Plain, Live, Forward, Mutating, Restoring
  <2> QED BY <2>1, <2>2
<1> QED BY <1>3, <1>4, <1>5, <1>6, <1>7, <1>9, <1>10, <1>12, <1>13, <1>14, <1>15, <1>16, <1>17,
        <1>18, <1>19, <1>20, <1>21 DEF Step

-----------------------------------------------------------------------------
\* A step fails or does not.
LEMMA FaultOrNot ==
  ASSUME TypeOK, NEW r \in Requests, Begin(r) \/ Step(r)
  PROVE  /\ faults' \in Nat /\ faults' >= faults /\ crashes' = crashes
         /\ faults' = faults => NoFault
<1> DEFINE Result == /\ faults' \in Nat /\ faults' >= faults /\ crashes' = crashes
                     /\ faults' = faults => NoFault
<1>1. faults \in Nat /\ MaxFaults \in Nat
  BY ConstantsAssumption DEF TypeOK
<1>2. Fault /\ crashes' = crashes => Result
  BY <1>1 DEF Fault
<1>3. NoFault /\ crashes' = crashes => Result
  BY <1>1 DEF NoFault
<1> SUFFICES Result
  OBVIOUS
<1> HIDE DEF Result
<1> USE <1>2, <1>3 DEF env, NoFault
<1>4. CASE Begin(r) \/ DisableConfig(r) \/ RemoveConfig(r) \/ SweepEntry(r) \/ SweepRemove(r)
  BY <1>4 DEF Begin, DisableConfig, RemoveConfig, SweepEntry, SweepRemove
<1>5. CASE SweepDone(r) \/ ScanStale(r) \/ Capture(r) \/ FailEarly(r) \/ RemoveStale(r)
  BY <1>5 DEF SweepDone, ScanStale, Capture, FailEarly, RemoveStale
<1>6. CASE DisableStockDefault(r) \/ WriteConfig(r) \/ Unlink(r) \/ Link(r) \/ LinkExists(r)
  BY <1>6 DEF DisableStockDefault, WriteConfig, Unlink, Link, LinkExists
<1>7. CASE MutateFails(r) \/ Validate(r) \/ Reload(r) \/ ReloadFails(r)
  BY <1>7 DEF MutateFails, Validate, Reload, ReloadFails
<1>8. CASE RestoreRemove(r) \/ Recreate(r) \/ Undone(r) \/ Revalidate(r) \/ Rereload(r)
  BY <1>8 DEF RestoreRemove, Recreate, Undone, Revalidate, Rereload
<1> QED BY <1>4, <1>5, <1>6, <1>7, <1>8 DEF Step

\* The sweeps' invariant and that of what is reported are inductive.
LEMMA NextSweeps ==
  ASSUME SweepInv, ~Overlapping, [Next]_vars
  PROVE  SweepInv'
<1>1. SerialInv'
  BY NextSerial DEF SweepInv
<1>2. CASE UNCHANGED vars
  BY <1>1, <1>2 DEF SweepInv, vars, Sweeps, Served, Live
<1>3. CASE Crash
  <2>1. \A r \in Requests : Sweeps(r)'
    BY <1>3 DEF Crash, Sweeps, Sweeping
  <2> QED BY <1>1, <2>1 DEF SweepInv
<1>4. ASSUME NEW r \in Requests, Begin(r) \/ Step(r) PROVE SweepInv'
  <2>1. \A q \in Requests \ {r} : Sweeps(q)'
    <3>1. \A q \in Requests \ {r} : pc'[q] \in Resting
      BY <1>4, TakingTurns DEF SweepInv
    <3> QED BY <3>1 DEF Sweeps, Resting, Sweeping
  <2>2. Sweeps(r)'
    BY <1>4, SweepsStep DEF SweepInv
  <2> QED BY <1>1, <2>1, <2>2 DEF SweepInv
<1> QED BY <1>2, <1>3, <1>4 DEF Next

LEMMA InitTruth == Init => TruthInv
<1> SUFFICES ASSUME Init PROVE TruthInv
  OBVIOUS
<1>1. \A r \in Requests : Sweeps(r) /\ Sound(r)
  BY DEF Init, Sweeps, Sound, Sweeping, Forward, Mutating, Restoring
<1> QED BY <1>1, InitSerial, InitStore DEF TruthInv, SweepInv

LEMMA NextTruth ==
  ASSUME TruthInv, ~Overlapping, CatchallContent \in Accepted, [Next]_vars
  PROVE  TruthInv'
<1>1. SweepInv'
  BY NextSweeps DEF TruthInv
<1>2. CASE UNCHANGED vars
  <2>1. StoreInv => StoreInv'
    BY <1>1, <1>2 DEF SweepInv, StoreInv, vars, StoreOK, Removing, Scanned, Reaching, Standing,
       ContentOf, Stale, StaleOf
  <2>2. \A r \in Requests : Sound(r) => Sound(r)'
    BY <1>2 DEF vars, Sound, Plain, Live, Valid, Broken
  <2> QED BY <1>1, <1>2, <2>1, <2>2 DEF TruthInv, Calm, vars
<1>3. CASE Crash
  <2>1. ~Calm'
    BY <1>3 DEF Crash, Calm, TruthInv, SweepInv, SerialInv, TypeInv, TypeOK
  <2> QED BY <1>1, <2>1 DEF TruthInv
<1>4. ASSUME NEW r \in Requests, Begin(r) \/ Step(r) PROVE TruthInv'
  <2>1. \A q \in Requests \ {r} : Sound(q)'
    <3>1. \A q \in Requests \ {r} : pc'[q] \in Resting
      BY <1>4, TakingTurns DEF TruthInv, SweepInv
    <3> QED BY <3>1 DEF Sound, Resting, Forward, Mutating, Restoring
  <2>2. ASSUME Calm' PROVE StoreInv' /\ Sound(r)'
    <3>1. Calm /\ NoFault
      <4>1. TypeOK
        BY DEF TruthInv, SweepInv, SerialInv, TypeInv
      <4> QED BY <1>4, <2>2, <4>1, FaultOrNot DEF Calm, TypeOK
    <3> QED BY <1>4, <3>1, StoreStep, SoundStep DEF TruthInv
  <2> QED BY <1>1, <2>1, <2>2 DEF TruthInv
<1> QED BY <1>2, <1>3, <1>4 DEF Next

\* Operators who take turns: a link to an existing file disappears only with a transaction
\* that holds it in its snapshots or with the deletion of its platform
\* (cleanupDanglingNginxDir), for any platforms, contents, failures and crashes.
THEOREM SerialLiveLinksKept ==
  ASSUME ~Overlapping
  PROVE  Spec => LiveLinksKept
<1> DEFINE Kept == \A s \in Slots :
                     Live(disk, s) /\ disk[Avail(s)] # Absent /\ disk'[Enab(s)] = Absent
                       => \E r \in Requests :
                            s \in Touched(r) \/ (pc[r] = "disable" /\ job[r].site = s)
<1>1. ASSUME SweepInv, [Next]_vars PROVE [Kept]_vars
  <2>1. CASE Crash
    BY <2>1, ValueFacts DEF Crash, Live
  <2>2. ASSUME NEW r \in Requests, Begin(r) \/ Step(r) PROVE Kept
    BY <1>1, <2>2, LinkGone DEF SweepInv, SerialInv
  <2> QED BY <1>1, <2>1, <2>2 DEF Next
<1>2. SweepInv /\ [Next]_vars => SweepInv'
  BY NextSweeps
<1>3. Init => SweepInv
  BY InitTruth DEF TruthInv
<1> QED BY <1>1, <1>2, <1>3, PTL DEF Spec, LiveLinksKept

\* What a handler of operators who take turns reports is true: a success is served, and a
\* well-formed virtual host fails only after some command failed, a crash, or beside the
\* stock default server, for any platforms and contents, if nginx accepts the reject block.
THEOREM SerialOutcomesTrue ==
  ASSUME ~Overlapping, CatchallContent \in Accepted
  PROVE  Spec => OutcomesTrue
<1> DEFINE True(r) ==
       /\ pc[r] # "ok" /\ pc'[r] = "ok" => running' = Served(disk')
       /\ pc[r] \notin Resting /\ pc'[r] = "failed"
            => \/ job[r].kind # "write" \/ job[r].content \notin Accepted
               \/ faults' > 0 \/ crashes > 0 \/ Live(disk, Default)
<1>1. ASSUME TruthInv, [Next]_vars PROVE [\A r \in Requests : True(r)]_vars
  <2>1. CASE Crash
    BY <2>1 DEF Crash
  <2>2. ASSUME NEW r \in Requests, Begin(r) \/ Step(r) PROVE \A q \in Requests : True(q)
    <3>1. TypeOK /\ Sweeps(r)
      BY <1>1 DEF TruthInv, SweepInv, SerialInv, TypeInv
    <3>2. ASSUME NEW q \in Requests \ {r} PROVE True(q)
      <4>1. pc'[q] = pc[q]
        BY <2>2, <3>1, Others
      <4> QED BY <4>1 DEF Resting
    <3>3. ASSUME pc[r] # "ok", pc'[r] = "ok" PROVE running' = Served(disk')
      <4>1. \/ Reload(r)
            \/ SweepDone(r) /\ pc[r] \in {"sweep", "resweep"}
        BY <2>2, <3>1, <3>3 DEF TypeOK, Begin, Step, Goto, Finish, StartTransaction,
           StartRollback, DisableConfig, RemoveConfig, SweepEntry, SweepRemove, SweepDone,
           ScanStale, Capture, FailEarly, RemoveStale, DisableStockDefault, WriteConfig,
           Unlink, Link, LinkExists, MutateFails, Validate, ReloadFails, RestoreRemove,
           Recreate, Undone, Revalidate, Rereload
      <4> QED BY <3>1, <4>1 DEF Reload, SweepDone, Sweeps
    <3>4. ASSUME pc[r] \notin Resting, pc'[r] = "failed", Plain(r)
          PROVE  faults' > 0 \/ crashes > 0 \/ Live(disk, Default)
      <4>1. \/ FailEarly(r)
            \/ pc[r] \in Restoring \cup {"rereload"}
        BY <2>2, <3>1, <3>4 DEF TypeOK, Begin, Step, Goto, Finish, StartTransaction,
           StartRollback, DisableConfig, RemoveConfig, SweepEntry, SweepRemove, SweepDone,
           ScanStale, Capture, RemoveStale, DisableStockDefault, WriteConfig,
           Unlink, Link, LinkExists, MutateFails, Validate, Reload, ReloadFails, RestoreRemove,
           Recreate, Undone, Revalidate, Rereload, Restoring, Resting, Mutating
      <4>2. CASE FailEarly(r)
        BY <3>1, <4>2 DEF FailEarly, Fault, TypeOK
      <4>3. CASE pc[r] \in Restoring \cup {"rereload"}
        <5>1. Calm => Live(disk, Default)
          BY <1>1, <3>4, <4>3 DEF TruthInv, Sound
        <5>2. faults' \in Nat /\ faults' >= faults
          BY <2>2, <3>1, FaultOrNot
        <5> QED BY <3>1, <5>1, <5>2 DEF Calm, TypeOK
      <4> QED BY <4>1, <4>2, <4>3
    <3>5. True(r)
      BY <3>3, <3>4 DEF Plain
    <3> QED BY <3>2, <3>5
  <2> QED BY <1>1, <2>1, <2>2 DEF Next
<1>2. TruthInv /\ [Next]_vars => TruthInv'
  BY NextTruth
<1> QED BY <1>1, <1>2, InitTruth, PTL DEF Spec, OutcomesTrue
=============================================================================

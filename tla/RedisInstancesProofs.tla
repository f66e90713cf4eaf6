------------------------ MODULE RedisInstancesProofs ------------------------
(***************************************************************************)
(* What is proved of RedisInstances, for any ports, numbers, passwords and *)
(* bounds.                                                                 *)
(***************************************************************************)
EXTENDS RedisInstances, TLAPS

PCs == Resting \cup Provisioning \cup Removing \cup {"insert", "save", "undo", "next"}

(* What the three ways to move a request on leave of it. *)
LEMMA GoToIs ==
  ASSUME req \in [Requests -> RequestStates], NEW r \in Requests, NEW pc \in PCs, GoTo(r, pc)
  PROVE  /\ req' \in [Requests -> RequestStates]
         /\ req'[r].pc = pc /\ req'[r].op = req[r].op /\ req'[r].id = req[r].id
         /\ req'[r].row = req[r].row /\ req'[r].listed = req[r].listed
         /\ \A q \in Requests \ {r} : req'[q] = req[q]
<1>1. [req[r] EXCEPT !.pc = pc] \in RequestStates
  BY DEF RequestStates, PCs
<1>2. req' = [req EXCEPT ![r] = [req[r] EXCEPT !.pc = pc]]
  BY DEF GoTo
<1> QED BY <1>1, <1>2 DEF RequestStates

LEMMA FinishIs ==
  ASSUME req \in [Requests -> RequestStates], NEW r \in Requests, NEW result \in Resting,
         Finish(r, result)
  PROVE  /\ req' \in [Requests -> RequestStates]
         /\ req'[r].pc = result /\ req'[r].op = "none" /\ req'[r].id = None
         /\ \A q \in Requests \ {r} : req'[q] = req[q]
<1>1. [NoReq EXCEPT !.pc = result] \in RequestStates
  BY DEF RequestStates, NoReq
<1> QED BY <1>1 DEF Finish, NoReq

LEMMA StartIs ==
  ASSUME req \in [Requests -> RequestStates], NEW r \in Requests,
         NEW op \in {"create", "password", "delete", "reconcile"}, NEW pc \in PCs,
         NEW id \in Ids \cup {None}, NEW row \in Row \cup {None},
         NEW listed \in SUBSET (Ids \X Row), Start(r, op, pc, id, row, listed)
  PROVE  /\ req' \in [Requests -> RequestStates]
         /\ req'[r].pc = pc /\ req'[r].op = op /\ req'[r].id = id
         /\ req'[r].row = row /\ req'[r].listed = listed
         /\ \A q \in Requests \ {r} : req'[q] = req[q]
<1> DEFINE rec == [pc |-> pc, op |-> op, id |-> id, row |-> row, listed |-> listed]
<1>1. rec \in RequestStates
  BY DEF RequestStates, PCs
<1>2. req' = [req EXCEPT ![r] = rec]
  BY DEF Start
<1> QED BY <1>1, <1>2

LEMMA KnownType == ASSUME TypeOK, NEW i \in Known PROVE i \in Ids /\ rows[i] \in Row
BY DEF TypeOK, Known

LEMMA FaultType == ASSUME TypeOK, Fault \/ NoFault PROVE failures' \in 0..MaxFailures
BY RedisAssumption DEF TypeOK, Fault, NoFault

LEMMA PCsAre ==
  /\ Provisioning \subseteq PCs /\ Removing \subseteq PCs
  /\ "insert" \in PCs /\ "save" \in PCs /\ "undo" \in PCs /\ "next" \in PCs
BY DEF PCs

LEMMA BrokenIs ==
  ASSUME TypeOK, NEW r \in Requests, req[r].pc \in Provisioning, Broken(r)
  PROVE  /\ req' \in [Requests -> RequestStates] /\ \A q \in Requests : HoldsRow(q)'
         /\ hurt' \subseteq Ids
         /\ \A q \in Requests \ {r} : req'[q] = req[q]
         /\ \/ /\ req[r].op = "create" /\ req'[r].op = "create" /\ req'[r].pc = "undo"
               /\ req'[r].id = req[r].id /\ hurt' = hurt
            \/ /\ req'[r].pc = "failed" /\ req'[r].id = None /\ req'[r].op = "none"
               /\ hurt' = hurt \cup {req[r].id}
<1>1. req[r].id \in Ids
  BY DEF TypeOK, HoldsRow, RequestStates
<1>2. CASE req[r].op = "create"
  <2>1. GoTo(r, "undo") /\ hurt' = hurt
    BY <1>2 DEF Broken
  <2> QED BY <1>1, <1>2, <2>1, GoToIs, PCsAre, RedisAssumption
       DEF TypeOK, HoldsRow, Provisioning, Removing
<1>3. CASE req[r].op # "create"
  <2>1. Finish(r, "failed") /\ hurt' = hurt \cup {req[r].id}
    BY <1>3 DEF Broken, Hurt
  <2> QED BY <1>1, <2>1, FinishIs DEF TypeOK, HoldsRow, Provisioning, Removing, Resting
<1> QED BY <1>2, <1>3

-----------------------------------------------------------------------------
(* Types. *)
LEMMA InitType == ASSUME Init PROVE TypeOK
<1>1. NoReq \in RequestStates
  BY DEF NoReq, RequestStates, Resting
<1> QED BY <1>1, RedisAssumption
     DEF Init, TypeOK, NoReq, HoldsRow, Provisioning, Removing

(* A step of a request that leaves it well formed keeps the types where the tables and the *)
(* host keep theirs.                                                                       *)
LEMMA RestTyped ==
  ASSUME TypeOK, NEW r \in Requests, req' \in [Requests -> RequestStates],
         \A q \in Requests \ {r} : req'[q] = req[q], HoldsRow(r)'
  PROVE  \A q \in Requests : HoldsRow(q)'
BY DEF TypeOK, HoldsRow

LEMMA BeginType == ASSUME TypeOK, NEW r \in Requests, Begin(r) PROVE TypeOK'
<1>1. CASE NotFound(r)
  <2>1. Finish(r, "failed") /\ "failed" \in Resting
    BY <1>1 DEF NotFound, Resting
  <2>2. req' \in [Requests -> RequestStates] /\ HoldsRow(r)'
          /\ \A q \in Requests \ {r} : req'[q] = req[q]
    BY <2>1, FinishIs DEF TypeOK, HoldsRow, Provisioning, Removing
  <2> QED BY <1>1, <2>2, RestTyped, FaultType DEF NotFound, TypeOK, table, host
<1>2. CASE BeginCreate(r)
  <2>1. PICK port \in Ports, number \in Numbers, password \in Passwords :
          Start(r, "create", "insert", None,
                [port |-> port, number |-> number, password |-> password], {})
    BY <1>2 DEF BeginCreate
  <2> DEFINE row == [port |-> port, number |-> number, password |-> password]
  <2>2. row \in Row /\ row # None
    BY RedisAssumption DEF Row
  <2> HIDE DEF row
  <2>3. req' \in [Requests -> RequestStates] /\ HoldsRow(r)'
          /\ \A q \in Requests \ {r} : req'[q] = req[q]
    <3>1. /\ Start(r, "create", "insert", None, row, {}) /\ {} \in SUBSET (Ids \X Row)
          /\ None \in Ids \cup {None} /\ row \in Row \cup {None}
          /\ "create" \in {"create", "password", "delete", "reconcile"}
      BY <2>1, <2>2 DEF row
    <3>2. req \in [Requests -> RequestStates]
      BY DEF TypeOK
    <3>3. /\ req' \in [Requests -> RequestStates]
          /\ req'[r].pc = "insert" /\ req'[r].row = row
          /\ \A q \in Requests \ {r} : req'[q] = req[q]
      BY <3>1, <3>2, StartIs, PCsAre
    <3> QED BY <2>2, <3>3 DEF HoldsRow, Provisioning, Removing
  <2> QED BY <1>2, <2>1, <2>3, RestTyped, FaultType DEF BeginCreate, Start, TypeOK, table, host
<1>3. CASE BeginPassword(r)
  <2>1. PICK i \in Known, password \in Passwords :
          Start(r, "password", "save", i, [rows[i] EXCEPT !.password = password], {})
    BY <1>3 DEF BeginPassword
  <2> DEFINE row == [rows[i] EXCEPT !.password = password]
  <2>2. row \in Row /\ row # None /\ i \in Ids /\ i # None
    BY KnownType, RedisAssumption DEF Row
  <2> HIDE DEF row
  <2>3. req' \in [Requests -> RequestStates] /\ HoldsRow(r)'
          /\ \A q \in Requests \ {r} : req'[q] = req[q]
    BY <2>1, <2>2, StartIs, PCsAre DEF row, TypeOK, HoldsRow, Provisioning, Removing
  <2> QED BY <1>3, <2>1, <2>3, RestTyped, FaultType DEF BeginPassword, Start, TypeOK, table, host
<1>4. CASE BeginDelete(r)
  <2>1. PICK i \in Known : Start(r, "delete", "stop", i, rows[i], {}) /\ hurt' = hurt \ {i}
    BY <1>4 DEF BeginDelete
  <2>2. rows[i] \in Row /\ rows[i] # None /\ i \in Ids /\ i # None
    BY KnownType, RedisAssumption
  <2>3. req' \in [Requests -> RequestStates] /\ HoldsRow(r)'
          /\ \A q \in Requests \ {r} : req'[q] = req[q]
    <3>1. "stop" \in PCs /\ {} \in SUBSET (Ids \X Row)
      BY PCsAre DEF Removing
    <3>2. /\ req' \in [Requests -> RequestStates]
          /\ req'[r].pc = "stop" /\ req'[r].id = i /\ req'[r].row = rows[i]
          /\ \A q \in Requests \ {r} : req'[q] = req[q]
      BY <2>1, <2>2, <3>1, StartIs DEF TypeOK
    <3> QED BY <2>2, <3>2 DEF HoldsRow, Provisioning, Removing
  <2> QED BY <2>1, <2>3, RestTyped, FaultType DEF Start, TypeOK, table, host
<1>5. CASE BeginReconcile(r)
  <2>1. Start(r, "reconcile", "next", None, None, Listed) /\ hurt' = hurt
    BY <1>5 DEF BeginReconcile
  <2>2. Listed \in SUBSET (Ids \X Row)
    BY KnownType DEF Listed
  <2>3. req' \in [Requests -> RequestStates] /\ HoldsRow(r)'
          /\ \A q \in Requests \ {r} : req'[q] = req[q]
    <3>1. /\ None \in Ids \cup {None} /\ None \in Row \cup {None}
          /\ "reconcile" \in {"create", "password", "delete", "reconcile"}
      OBVIOUS
    <3>2. req \in [Requests -> RequestStates]
      BY DEF TypeOK
    <3>3. /\ req' \in [Requests -> RequestStates] /\ req'[r].pc = "next"
          /\ \A q \in Requests \ {r} : req'[q] = req[q]
      BY <2>1, <2>2, <3>1, <3>2, StartIs, PCsAre
    <3> QED BY <3>3 DEF HoldsRow, Provisioning, Removing
  <2> QED BY <2>1, <2>3, RestTyped, FaultType DEF Start, TypeOK, table, host
<1> QED BY <1>1, <1>2, <1>3, <1>4, <1>5 DEF Begin

(* What an action of a request that moves on with GoTo or ends with Finish leaves. *)
LEMMA GoToTyped ==
  ASSUME TypeOK, NEW r \in Requests, req[r].pc \in Provisioning \cup Removing \cup {"save"},
         NEW pc \in Provisioning \cup Removing \cup {"next"}, GoTo(r, pc)
  PROVE  req' \in [Requests -> RequestStates] /\ \A q \in Requests : HoldsRow(q)'
<1>1. pc \in PCs /\ req \in [Requests -> RequestStates]
  BY PCsAre DEF TypeOK
<1>2. HoldsRow(r)' /\ req' \in [Requests -> RequestStates]
  BY <1>1, GoToIs DEF TypeOK, HoldsRow, Provisioning, Removing
<1> QED BY <1>1, <1>2, GoToIs, RestTyped

LEMMA FinishTyped ==
  ASSUME TypeOK, NEW r \in Requests, NEW result \in Resting, Finish(r, result)
  PROVE  req' \in [Requests -> RequestStates] /\ \A q \in Requests : HoldsRow(q)'
<1>1. req \in [Requests -> RequestStates]
  BY DEF TypeOK
<1>2. HoldsRow(r)' /\ req' \in [Requests -> RequestStates]
  BY <1>1, FinishIs DEF HoldsRow, Provisioning, Removing, Resting
<1> QED BY <1>1, <1>2, FinishIs, RestTyped

LEMMA InHandType ==
  ASSUME TypeOK, NEW r \in Requests, req[r].pc \in Provisioning \cup Removing \cup {"save", "undo"}
  PROVE  /\ req[r].id \in Ids /\ req[r].id # None
         /\ req[r].pc # "undo" => req[r].row \in Row
BY RedisAssumption DEF TypeOK, HoldsRow, RequestStates

LEMMA TableType ==
  ASSUME TypeOK, NEW r \in Requests,
         InsertRow(r) \/ UndoCreate(r) \/ SaveRow(r) \/ NextRow(r) \/ RemoveRow(r)
  PROVE  TypeOK'
<1>1. CASE InsertRow(r)
  <2>1. CASE nextId \in Ids /\ rows' = [rows EXCEPT ![nextId] = req[r].row]
               /\ nextId' = nextId + 1 /\ NoFault
               /\ req' = [req EXCEPT ![r].pc = "conf", ![r].id = nextId]
    <3>1. req[r].row \in Row /\ req[r].row # None
      BY <1>1 DEF InsertRow, TypeOK, HoldsRow, RequestStates
    <3>2. rows' \in [Ids -> Row \cup {None}] /\ nextId' \in 1..(MaxRows + 1)
      BY <2>1, <3>1, RedisAssumption DEF TypeOK, Ids
    <3> DEFINE rec == [req[r] EXCEPT !.pc = "conf", !.id = nextId]
    <3>3. rec \in RequestStates /\ rec.row = req[r].row /\ rec.id \in Ids /\ rec.pc = "conf"
      <4>1. req[r] \in RequestStates
        BY DEF TypeOK
      <4> QED BY <2>1, <4>1 DEF RequestStates, Provisioning
    <3>4. req' = [req EXCEPT ![r] = rec]
      BY <2>1
    <3> HIDE DEF rec
    <3>5. req' \in [Requests -> RequestStates] /\ HoldsRow(r)'
            /\ \A q \in Requests \ {r} : req'[q] = req[q]
      BY <3>1, <3>3, <3>4, RedisAssumption DEF TypeOK, HoldsRow, Provisioning, Removing
    <3> QED BY <1>1, <2>1, <3>2, <3>5, RestTyped, FaultType DEF InsertRow, TypeOK, host
  <2>2. CASE Fault /\ Finish(r, "failed") /\ UNCHANGED table
    BY <1>1, <2>2, FinishTyped, FaultType DEF InsertRow, TypeOK, table, host, Resting
  <2> QED BY <1>1, <2>1, <2>2 DEF InsertRow
<1>2. CASE UndoCreate(r)
  <2>1. req[r].id \in Ids
    BY <1>2, InHandType DEF UndoCreate
  <2>2. rows' \in [Ids -> Row \cup {None}] /\ hurt' \subseteq Ids /\ (Fault \/ NoFault)
    BY <1>2, <2>1 DEF UndoCreate, Hurt, TypeOK
  <2> QED BY <1>2, <2>2, FinishTyped, FaultType DEF UndoCreate, TypeOK, host, Resting
<1>3. CASE SaveRow(r)
  <2>1. req[r].id \in Ids /\ req[r].row \in Row /\ req[r].pc = "save"
    BY <1>3, InHandType DEF SaveRow
  <2>2. rows' \in [Ids -> Row \cup {None}] /\ hurt' \subseteq Ids /\ (Fault \/ NoFault)
    BY <1>3, <2>1 DEF SaveRow, Hurt, TypeOK
  <2>3. req' \in [Requests -> RequestStates] /\ \A q \in Requests : HoldsRow(q)'
    BY <1>3, <2>1, FinishTyped, GoToTyped DEF SaveRow, Resting, Provisioning
  <2> QED BY <1>3, <2>2, <2>3, FaultType DEF SaveRow, TypeOK, host
<1>4. CASE NextRow(r)
  <2>1. CASE Finish(r, "ok")
    BY <1>4, <2>1, FinishTyped, FaultType DEF NextRow, TypeOK, table, host, Resting
  <2>2. ASSUME NEW item \in req[r].listed,
               req' = [req EXCEPT ![r] = [pc |-> "conf", op |-> "reconcile", id |-> item[1],
                                          row |-> item[2], listed |-> req[r].listed \ {item}]]
        PROVE  TypeOK'
    <3> DEFINE rec == [pc |-> "conf", op |-> "reconcile", id |-> item[1],
                       row |-> item[2], listed |-> req[r].listed \ {item}]
    <3>1. item \in Ids \X Row /\ req[r].listed \subseteq Ids \X Row
      BY DEF TypeOK, RequestStates
    <3>2. rec \in RequestStates /\ rec.pc = "conf" /\ rec.id # None /\ rec.row # None
      BY <3>1, RedisAssumption DEF RequestStates, Provisioning
    <3> HIDE DEF rec
    <3>3. req' = [req EXCEPT ![r] = rec]
      BY <2>2 DEF rec
    <3>4. req' \in [Requests -> RequestStates] /\ HoldsRow(r)'
            /\ \A q \in Requests \ {r} : req'[q] = req[q]
      BY <3>2, <3>3 DEF TypeOK, HoldsRow, Provisioning, Removing
    <3> QED BY <1>4, <3>4, RestTyped, FaultType DEF NextRow, TypeOK, table, host
  <2> QED BY <1>4, <2>1, <2>2 DEF NextRow
<1>5. CASE RemoveRow(r)
  <2>1. req[r].id \in Ids
    BY <1>5, InHandType DEF RemoveRow, Removing
  <2>2. rows' \in [Ids -> Row \cup {None}] /\ hurt' \subseteq Ids /\ (Fault \/ NoFault)
    BY <1>5, <2>1 DEF RemoveRow, Hurt, TypeOK
  <2>3. req' \in [Requests -> RequestStates] /\ \A q \in Requests : HoldsRow(q)'
    BY <1>5, FinishTyped DEF RemoveRow, Resting
  <2> QED BY <1>5, <2>2, <2>3, FaultType DEF RemoveRow, TypeOK, host
<1> QED BY <1>1, <1>2, <1>3, <1>4, <1>5

LEMMA ProvisionType == ASSUME TypeOK, NEW r \in Requests, Provision(r) PROVE TypeOK'
<1>1. req[r].pc \in Provisioning /\ req[r].id \in Ids /\ req[r].row \in Row
  BY InHandType
  DEF Provision, WriteConf, InstallUnit, EnableUnit, StartUnit, Provisioning
<1>2. ASSUME Broken(r)
      PROVE  /\ req' \in [Requests -> RequestStates] /\ \A q \in Requests : HoldsRow(q)'
             /\ hurt' \subseteq Ids
  BY <1>1, <1>2, BrokenIs
<1>3. ASSUME NEW pc \in Provisioning \cup {"next"}, GoTo(r, pc)
      PROVE  req' \in [Requests -> RequestStates] /\ \A q \in Requests : HoldsRow(q)'
  BY <1>1, <1>3, GoToTyped
<1>4. {"unit", "enable", "start", "next"} \subseteq Provisioning \cup {"next"}
  BY DEF Provisioning
<1>5. CASE WriteConf(r)
  <2>1. conf' \in [Ids -> Row \cup {None}] /\ (Fault \/ NoFault)
    BY <1>1, <1>5 DEF WriteConf, TypeOK
  <2>2. /\ req' \in [Requests -> RequestStates] /\ \A q \in Requests : HoldsRow(q)'
        /\ hurt' \subseteq Ids
    BY <1>2, <1>3, <1>4, <1>5 DEF WriteConf, TypeOK
  <2> QED BY <1>5, <2>1, <2>2, FaultType DEF WriteConf, TypeOK, table
<1>6. CASE InstallUnit(r)
  <2>1. /\ unit' \in [Ids -> BOOLEAN] /\ services' \in [Ids -> {"none", "on", "off"}]
        /\ Fault \/ NoFault
    BY <1>1, <1>6 DEF InstallUnit, TypeOK
  <2>2. /\ req' \in [Requests -> RequestStates] /\ \A q \in Requests : HoldsRow(q)'
        /\ hurt' \subseteq Ids
    BY <1>2, <1>3, <1>4, <1>6 DEF InstallUnit, TypeOK
  <2> QED BY <1>6, <2>1, <2>2, FaultType DEF InstallUnit, TypeOK, table
<1>7. CASE EnableUnit(r)
  <2>1. enabled' \in [Ids -> BOOLEAN] /\ (Fault \/ NoFault)
    BY <1>1, <1>7 DEF EnableUnit, TypeOK
  <2>2. /\ req' \in [Requests -> RequestStates] /\ \A q \in Requests : HoldsRow(q)'
        /\ hurt' \subseteq Ids
    BY <1>2, <1>3, <1>4, <1>7 DEF EnableUnit, TypeOK
  <2> QED BY <1>7, <2>1, <2>2, FaultType DEF EnableUnit, TypeOK, table
<1>8. CASE StartUnit(r)
  <2>1. /\ active' \in [Ids -> BOOLEAN] /\ (Fault \/ NoFault)
        /\ \A i \in Ids : active[i] => active'[i]
    BY <1>1, <1>8 DEF StartUnit, TypeOK
  <2>2. /\ req' \in [Requests -> RequestStates] /\ \A q \in Requests : HoldsRow(q)'
        /\ hurt' \subseteq Ids
    BY <1>2, <1>3, <1>4, <1>8, FinishTyped DEF StartUnit, TypeOK, Resting
  <2> QED BY <1>8, <2>1, <2>2, FaultType DEF StartUnit, TypeOK, table
<1> QED BY <1>5, <1>6, <1>7, <1>8 DEF Provision

LEMMA DownType ==
  ASSUME TypeOK, NEW i \in Ids, Down(i)
  PROVE  /\ active' \in [Ids -> BOOLEAN] /\ serving' \in [Ids -> Row \cup {None}]
         /\ \A j \in Ids : serving'[j] # None => active'[j]
BY DEF TypeOK, Down

LEMMA RemoveType == ASSUME TypeOK, NEW r \in Requests, Remove(r) PROVE TypeOK'
<1>1. req[r].pc \in Removing /\ req[r].id \in Ids
  BY InHandType
  DEF Remove, StopUnit, DisableUnit, ForgetService, RemoveUnitFile, RemoveTree, RemoveRow,
      Removing
<1>2. ASSUME NEW pc \in Removing, GoTo(r, pc)
      PROVE  req' \in [Requests -> RequestStates] /\ \A q \in Requests : HoldsRow(q)'
  BY <1>1, <1>2, GoToTyped
<1>3. {"disable", "forget", "unlink", "tree", "remove"} \subseteq Removing
  BY DEF Removing
<1>4. CASE StopUnit(r)
  <2>1. /\ active' \in [Ids -> BOOLEAN] /\ serving' \in [Ids -> Row \cup {None}]
        /\ \A j \in Ids : serving'[j] # None => active'[j]
    <3>1. CASE Down(req[r].id)
      BY <1>1, <3>1, DownType
    <3>2. CASE UNCHANGED <<active, serving>>
      BY <3>2 DEF TypeOK
    <3> QED BY <1>4, <3>1, <3>2 DEF StopUnit
  <2>2. hurt' \subseteq Ids /\ (Fault \/ NoFault)
    BY <1>1, <1>4 DEF StopUnit, Hurt, TypeOK
  <2>3. req' \in [Requests -> RequestStates] /\ \A q \in Requests : HoldsRow(q)'
    BY <1>2, <1>3, <1>4 DEF StopUnit
  <2> QED BY <1>4, <2>1, <2>2, <2>3, FaultType DEF StopUnit, TypeOK, table
<1>5. CASE DisableUnit(r)
  <2>1. enabled' \in [Ids -> BOOLEAN] /\ (Fault \/ NoFault)
    BY <1>1, <1>5 DEF DisableUnit, TypeOK
  <2>2. req' \in [Requests -> RequestStates] /\ \A q \in Requests : HoldsRow(q)'
    BY <1>2, <1>3, <1>5 DEF DisableUnit
  <2> QED BY <1>5, <2>1, <2>2, FaultType DEF DisableUnit, TypeOK, table
<1>6. CASE ForgetService(r)
  <2>1. services' \in [Ids -> {"none", "on", "off"}] /\ (Fault \/ NoFault)
    BY <1>1, <1>6 DEF ForgetService, TypeOK
  <2>2. req' \in [Requests -> RequestStates] /\ \A q \in Requests : HoldsRow(q)'
    BY <1>2, <1>3, <1>6 DEF ForgetService
  <2> QED BY <1>6, <2>1, <2>2, FaultType DEF ForgetService, TypeOK, table
<1>7. CASE RemoveUnitFile(r)
  <2>1. unit' \in [Ids -> BOOLEAN] /\ hurt' \subseteq Ids /\ (Fault \/ NoFault)
    BY <1>1, <1>7 DEF RemoveUnitFile, Hurt, TypeOK
  <2>2. req' \in [Requests -> RequestStates] /\ \A q \in Requests : HoldsRow(q)'
    BY <1>2, <1>3, <1>7, FinishTyped DEF RemoveUnitFile, Resting
  <2> QED BY <1>7, <2>1, <2>2, FaultType DEF RemoveUnitFile, TypeOK, table
<1>8. CASE RemoveTree(r)
  <2>1. conf' \in [Ids -> Row \cup {None}] /\ hurt' \subseteq Ids /\ (Fault \/ NoFault)
    BY <1>1, <1>8 DEF RemoveTree, Hurt, TypeOK
  <2>2. req' \in [Requests -> RequestStates] /\ \A q \in Requests : HoldsRow(q)'
    BY <1>2, <1>3, <1>8, FinishTyped DEF RemoveTree, Resting
  <2> QED BY <1>8, <2>1, <2>2, FaultType DEF RemoveTree, TypeOK, table
<1> QED BY <1>4, <1>5, <1>6, <1>7, <1>8, TableType DEF Remove

LEMMA PageType == ASSUME TypeOK, NEW i \in Ids, Page(i) PROVE TypeOK'
<1>1. /\ req' \in [Requests -> RequestStates] /\ \A q \in Requests : HoldsRow(q)'
      /\ rows' \in [Ids -> Row \cup {None}] /\ nextId' \in 1..(MaxRows + 1)
      /\ conf' \in [Ids -> Row \cup {None}] /\ unit' \in [Ids -> BOOLEAN]
  BY DEF Page, StopAction, StartAction, RestartAction, EnableAction, DisableAction,
         ForgetAction, Kept, table, TypeOK, HoldsRow
<1>2. ASSUME NEW state \in {"none", "on", "off"}, Mark(i, state)
      PROVE  /\ services' \in [Ids -> {"none", "on", "off"}] /\ hurt' \subseteq Ids
             /\ failures' \in 0..MaxFailures
  BY <1>2, FaultType DEF Mark, Done, TypeOK
<1>3. ASSUME Done PROVE hurt' \subseteq Ids /\ failures' \in 0..MaxFailures
  BY <1>3, FaultType DEF Done, TypeOK
<1>4. CASE StopAction(i)
  BY <1>1, <1>3, <1>4, DownType DEF StopAction, TypeOK
<1>5. CASE StartAction(i) \/ RestartAction(i)
  BY <1>1, <1>3, <1>5 DEF StartAction, RestartAction, TypeOK
<1>6. CASE EnableAction(i) \/ DisableAction(i)
  BY <1>1, <1>2, <1>6 DEF EnableAction, DisableAction, TypeOK
<1>7. CASE ForgetAction(i)
  BY <1>1, <1>3, <1>7 DEF ForgetAction, TypeOK
<1> QED BY <1>4, <1>5, <1>6, <1>7 DEF Page

LEMMA HostType ==
  ASSUME TypeOK, \/ \E i \in Ids : Bind(i) \/ Die(i)
                 \/ Crash \/ Reboot
  PROVE  TypeOK'
<1>1. ASSUME Lost
      PROVE  /\ req' \in [Requests -> RequestStates] /\ \A q \in Requests : HoldsRow(q)'
             /\ hurt' \subseteq Ids
  <2>1. NoReq \in RequestStates
    BY DEF NoReq, RequestStates, Resting
  <2>2. req' \in [Requests -> RequestStates] /\ \A q \in Requests : HoldsRow(q)'
    BY <1>1, <2>1 DEF Lost, NoReq, HoldsRow, Provisioning, Removing
  <2>3. \A r \in Requests : req[r].id \in Ids \cup {None}
    BY DEF TypeOK, RequestStates
  <2> QED BY <1>1, <2>2, <2>3 DEF Lost, TypeOK
<1>2. ASSUME NEW i \in Ids, Bind(i) PROVE TypeOK'
  BY <1>2, FaultType DEF Bind, TypeOK, HoldsRow, table
<1>3. ASSUME NEW i \in Ids, Die(i) PROVE TypeOK'
  BY <1>3, FaultType DEF Die, TypeOK, HoldsRow, table
<1>4. CASE Crash
  BY <1>1, <1>4, FaultType DEF Crash, TypeOK, table, host
<1>5. CASE Reboot
  <2>1. /\ active' \in [Ids -> BOOLEAN] /\ serving' \in [Ids -> Row \cup {None}]
        /\ \A i \in Ids : serving'[i] # None => active'[i]
    BY <1>5 DEF Reboot, TypeOK
  <2> QED BY <1>1, <1>5, <2>1, FaultType DEF Reboot, TypeOK, table
<1> QED BY <1>2, <1>3, <1>4, <1>5

LEMMA StepType == ASSUME TypeOK, [Next]_vars PROVE TypeOK'
<1>1. CASE UNCHANGED vars
  BY <1>1 DEF vars, TypeOK, HoldsRow
<1>2. CASE Next
  BY <1>2, BeginType, TableType, ProvisionType, RemoveType, PageType, HostType DEF Next
<1> QED BY <1>1, <1>2

\* The tables, the host and the requests keep the types of the panel's models; a request that
\* provisions or removes an instance holds its row, and only an active unit has a process
\* that listens, whether or not requests overlap (DatabaseService, ServiceService).
THEOREM RedisTypeCorrect == Spec => []TypeOK
<1>1. Init => TypeOK
  BY InitType
<1>2. TypeOK /\ [Next]_vars => TypeOK'
  BY StepType
<1> QED BY <1>1, <1>2, PTL DEF Spec

-----------------------------------------------------------------------------
(* Operators taking turns. *)
AtMostOne ==
  \A q, r \in Requests : req[q].pc \notin Resting /\ req[r].pc \notin Resting => q = r
Standing(i) == conf[i] = rows[i] /\ unit[i] /\ enabled[i]

AtRest(r) == req[r].pc \in Resting => req[r].id = None /\ req[r].op = "none"
\* The number chosen is still free, and the row saved differs in the password alone.
Creating(r) ==
  /\ req[r].pc = "insert" => /\ req[r].op = "create" /\ req[r].id = None
                             /\ req[r].row.number \notin UsedNumbers
  /\ req[r].pc = "undo" => req[r].op = "create"
  /\ req[r].pc = "save" => /\ req[r].op = "password" /\ req[r].id \in Known
                           /\ req[r].row.number = rows[req[r].id].number
\* How much of the instance stands at each step of its provisioning.
Provided(r) ==
  /\ req[r].pc \in Provisioning => /\ req[r].id \in Known /\ rows[req[r].id] = req[r].row
                                   /\ req[r].op \in {"create", "password", "reconcile"}
  /\ req[r].pc \in {"unit", "enable", "start"} => conf[req[r].id] = req[r].row
  /\ req[r].pc \in {"enable", "start"} => unit[req[r].id]
  /\ req[r].pc = "start" => enabled[req[r].id]
\* How much of it is gone at each step of its removal.
Removed(r) ==
  /\ req[r].pc \in Removing => req[r].op = "delete"
  /\ req[r].pc \in Removing \ {"stop"} => ~active[req[r].id] \/ req[r].id \in hurt
  /\ req[r].pc \in {"tree", "remove"} => ~unit[req[r].id]
  /\ req[r].pc = "remove" => conf[req[r].id] = None
\* A connection is still to be done by a reconciliation, or in its hands, or stands.
Reconciling(r) ==
  /\ req[r].pc = "next" => /\ req[r].op = "reconcile"
                           /\ req[r].id # None => req[r].id \in Known /\ Standing(req[r].id)
  /\ req[r].op = "reconcile" =>
       /\ req[r].pc \in Provisioning \cup {"next"}
       /\ req[r].listed \subseteq Listed
       /\ \A j \in Known : \/ <<j, rows[j]>> \in req[r].listed
                           \/ j = req[r].id /\ req[r].pc # "next"
                           \/ Standing(j) /\ active[j]
Flow(r) == AtRest(r) /\ Creating(r) /\ Provided(r) /\ Removed(r) /\ Reconciling(r)

Results == NumbersDistinct /\ RowsProvisioned /\ InstancesOwned
TurnsInv == TypeOK /\ AtMostOne /\ (\A r \in Requests : Flow(r)) /\ Results

(* What Results says of one instance, and the instances a step leaves as they were. *)
Good(i) ==
  \/ InHand(i) \/ i \in hurt
  \/ /\ i \in Known => conf[i] = rows[i] /\ unit[i] /\ (services[i] = "on" => enabled[i])
     /\ active[i] \/ unit[i] \/ conf[i] # None => i \in Known
Touches(i) ==
  \A j \in Ids \ {i} :
    /\ rows'[j] = rows[j] /\ conf'[j] = conf[j] /\ unit'[j] = unit[j]
    /\ enabled'[j] = enabled[j] /\ services'[j] = services[j] /\ active'[j] = active[j]
    /\ j \in hurt => j \in hurt'
Rest(r) == req[r].pc \in Resting /\ req[r].id = None /\ req[r].op = "none"

LEMMA GoodIs == RowsProvisioned /\ InstancesOwned <=> \A i \in Ids : Good(i)
BY DEF RowsProvisioned, InstancesOwned, Good, Known

LEMMA GoodIsNext == (\A i \in Ids : Good(i)') => (RowsProvisioned /\ InstancesOwned)'
BY DEF RowsProvisioned, InstancesOwned, Good, Known, InHand

LEMMA RestFlow == ASSUME NEW r \in Requests, Rest(r) PROVE Flow(r)
BY DEF Rest, Flow, AtRest, Creating, Provided, Removed, Reconciling, Resting, Provisioning,
       Removing

LEMMA RestFlowNext == ASSUME NEW r \in Requests, Rest(r)' PROVE Flow(r)'
BY DEF Rest, Flow, AtRest, Creating, Provided, Removed, Reconciling, Resting, Provisioning,
       Removing

LEMMA OthersRest ==
  ASSUME TurnsInv, NEW r \in Requests, req[r].pc \notin Resting
  PROVE  \A q \in Requests \ {r} : Rest(q)
BY DEF TurnsInv, AtMostOne, Flow, AtRest, Rest

LEMMA QuietRest == ASSUME TurnsInv, Quiet PROVE \A q \in Requests : Rest(q)
BY DEF TurnsInv, Quiet, Flow, AtRest, Rest

LEMMA Acting ==
  ASSUME TypeOK, TypeOK', NEW r \in Requests,
         \A q \in Requests \ {r} : Rest(q) /\ req'[q] = req[q],
         NEW i \in Ids \cup {None}, req[r].id \in {i, None},
         \A j \in Ids : Good(j), Touches(i), i \in Ids => Good(i)', Flow(r)', NumbersDistinct'
  PROVE  TurnsInv'
<1>1. \A q \in Requests \ {r} : Rest(q)' /\ req'[q].id = None /\ req'[q].pc \in Resting
  BY DEF Rest
<1>2. (\A q \in Requests : Flow(q)') /\ AtMostOne'
  BY <1>1, RestFlowNext DEF AtMostOne
<1>3. ASSUME NEW j \in Ids \ {i} PROVE Good(j)'
  <2>1. ~InHand(j)
    BY RedisAssumption DEF InHand, Rest
  <2>2. CASE j \in hurt
    BY <2>2 DEF Good, Touches
  <2>3. CASE j \notin hurt
    <3>1. /\ j \in Known => conf[j] = rows[j] /\ unit[j] /\ (services[j] = "on" => enabled[j])
          /\ active[j] \/ unit[j] \/ conf[j] # None => j \in Known
      BY <2>1, <2>3 DEF Good
    <3>2. /\ rows'[j] = rows[j] /\ conf'[j] = conf[j] /\ unit'[j] = unit[j]
          /\ enabled'[j] = enabled[j] /\ services'[j] = services[j] /\ active'[j] = active[j]
      BY DEF Touches
    <3> QED BY <3>1, <3>2 DEF Good, Known
  <2> QED BY <2>2, <2>3
<1>4. \A j \in Ids : Good(j)'
  BY <1>3
<1> QED BY <1>2, <1>4, GoodIsNext DEF TurnsInv, Results

LEMMA NumbersKept == ASSUME NumbersDistinct, UNCHANGED rows PROVE NumbersDistinct'
BY DEF NumbersDistinct, Known

LEMMA NumbersSet ==
  ASSUME TypeOK, NumbersDistinct, NEW i \in Ids, NEW row \in Row,
         rows' = [rows EXCEPT ![i] = row],
         \A j \in Known : j # i => rows[j].number # row.number
  PROVE  NumbersDistinct'
BY DEF TypeOK, NumbersDistinct, Known

LEMMA NumbersDropped ==
  ASSUME TypeOK, NumbersDistinct, NEW i \in Ids, rows' = [rows EXCEPT ![i] = None]
  PROVE  NumbersDistinct'
BY DEF TypeOK, NumbersDistinct, Known

LEMMA BeginTurns ==
  ASSUME TypeOK', TurnsInv, ~Overlapping, NEW r \in Requests, Begin(r)
  PROVE  TurnsInv'
<1> USE DEF TurnsInv, Results
<1>1. Idle(r)
  BY DEF Begin, NotFound, BeginCreate, BeginPassword, BeginDelete, BeginReconcile
<1>2. \A q \in Requests : Rest(q)
  BY <1>1, QuietRest DEF Idle
<1>3. \A j \in Ids : Good(j)
  BY GoodIs
<1>4. req \in [Requests -> RequestStates] /\ req[r].id = None
  BY <1>2 DEF TypeOK, Rest
<1>5. CASE NotFound(r)
  <2>1. Finish(r, "failed") /\ "failed" \in Resting /\ UNCHANGED <<table, host, hurt>>
    BY <1>5 DEF NotFound, Resting
  <2>2. Rest(r)' /\ \A q \in Requests \ {r} : req'[q] = req[q]
    BY <1>4, <2>1, FinishIs DEF Rest
  <2>3. Touches(None) /\ NumbersDistinct'
    BY <2>1, NumbersKept DEF Touches, table, host
  <2> QED BY <1>2, <1>3, <1>4, <2>2, <2>3, RestFlowNext, Acting, RedisAssumption
<1>6. CASE BeginCreate(r)
  <2>1. PICK wanted \in Numbers, port \in Ports, number \in Numbers, password \in Passwords :
          /\ NumberFor(wanted, number)
          /\ Start(r, "create", "insert", None,
                   [port |-> port, number |-> number, password |-> password], {})
    BY <1>6 DEF BeginCreate
  <2> DEFINE row == [port |-> port, number |-> number, password |-> password]
  <2>2. row \in Row /\ row.number \notin UsedNumbers
    BY <2>1 DEF Row, NumberFor
  <2>3. /\ Start(r, "create", "insert", None, row, {}) /\ {} \in SUBSET (Ids \X Row)
        /\ None \in Ids \cup {None} /\ row \in Row \cup {None}
        /\ "create" \in {"create", "password", "delete", "reconcile"}
    BY <2>1, <2>2
  <2> HIDE DEF row
  <2>4. /\ req'[r].pc = "insert" /\ req'[r].op = "create" /\ req'[r].id = None
        /\ req'[r].row = row /\ \A q \in Requests \ {r} : req'[q] = req[q]
    BY <1>4, <2>3, StartIs, PCsAre
  <2>5. UNCHANGED <<table, host, hurt>>
    BY <1>6, <2>3 DEF Start, BeginCreate
  <2>6. Touches(None) /\ NumbersDistinct' /\ UsedNumbers' = UsedNumbers
    BY <2>5, NumbersKept DEF Touches, table, host, UsedNumbers, Known
  <2>7. Flow(r)'
    BY <2>2, <2>4, <2>6 DEF Flow, AtRest, Creating, Provided, Removed, Reconciling, Resting,
         Provisioning, Removing
  <2> QED BY <1>2, <1>3, <1>4, <2>4, <2>6, <2>7, Acting, RedisAssumption
<1>7. CASE BeginPassword(r)
  <2>1. PICK i \in Known, password \in Passwords :
          Start(r, "password", "save", i, [rows[i] EXCEPT !.password = password], {})
    BY <1>7 DEF BeginPassword
  <2> DEFINE row == [rows[i] EXCEPT !.password = password]
  <2>2. row \in Row /\ row.number = rows[i].number /\ i \in Ids /\ i # None
    BY KnownType, RedisAssumption DEF Row
  <2>3. /\ Start(r, "password", "save", i, row, {}) /\ {} \in SUBSET (Ids \X Row)
        /\ i \in Ids \cup {None} /\ row \in Row \cup {None}
        /\ "password" \in {"create", "password", "delete", "reconcile"}
    BY <2>1, <2>2
  <2> HIDE DEF row
  <2>4. /\ req'[r].pc = "save" /\ req'[r].op = "password" /\ req'[r].id = i
        /\ req'[r].row = row /\ \A q \in Requests \ {r} : req'[q] = req[q]
    BY <1>4, <2>3, StartIs, PCsAre
  <2>5. UNCHANGED <<table, host, hurt>>
    BY <1>7, <2>3 DEF Start, BeginPassword
  <2>6. Touches(i) /\ NumbersDistinct' /\ Known' = Known /\ rows' = rows
    BY <2>5, NumbersKept DEF Touches, table, host, Known
  <2>7. Flow(r)'
    BY <2>2, <2>4, <2>6 DEF Flow, AtRest, Creating, Provided, Removed, Reconciling, Resting,
         Provisioning, Removing
  <2>8. Good(i)'
    BY <2>4 DEF Good, InHand
  <2> QED BY <1>2, <1>3, <1>4, <2>2, <2>4, <2>6, <2>7, <2>8, Acting
<1>8. CASE BeginDelete(r)
  <2>1. PICK i \in Known : Start(r, "delete", "stop", i, rows[i], {}) /\ hurt' = hurt \ {i}
    BY <1>8 DEF BeginDelete
  <2>2. rows[i] \in Row /\ i \in Ids
    BY KnownType
  <2>3. /\ {} \in SUBSET (Ids \X Row) /\ i \in Ids \cup {None} /\ rows[i] \in Row \cup {None}
        /\ "delete" \in {"create", "password", "delete", "reconcile"} /\ "stop" \in PCs
    BY <2>2, PCsAre DEF Removing
  <2>4. /\ req'[r].pc = "stop" /\ req'[r].op = "delete" /\ req'[r].id = i
        /\ \A q \in Requests \ {r} : req'[q] = req[q]
    BY <1>4, <2>1, <2>3, StartIs
  <2>5. UNCHANGED <<table, host>>
    BY <2>1 DEF Start
  <2>6. Touches(i) /\ NumbersDistinct'
    BY <2>1, <2>5, NumbersKept DEF Touches, table, host
  <2>7. Flow(r)'
    BY <2>4 DEF Flow, AtRest, Creating, Provided, Removed, Reconciling, Resting,
         Provisioning, Removing
  <2>8. Good(i)'
    BY <2>4 DEF Good, InHand
  <2> QED BY <1>2, <1>3, <1>4, <2>2, <2>4, <2>6, <2>7, <2>8, Acting
<1>9. CASE BeginReconcile(r)
  <2>1. Start(r, "reconcile", "next", None, None, Listed) /\ hurt' = hurt
    BY <1>9 DEF BeginReconcile
  <2>2. /\ Listed \in SUBSET (Ids \X Row) /\ None \in Ids \cup {None} /\ None \in Row \cup {None}
        /\ "reconcile" \in {"create", "password", "delete", "reconcile"} /\ "next" \in PCs
    BY KnownType, PCsAre DEF Listed
  <2>3. /\ req'[r].pc = "next" /\ req'[r].op = "reconcile" /\ req'[r].id = None
        /\ req'[r].listed = Listed /\ \A q \in Requests \ {r} : req'[q] = req[q]
    BY <1>4, <2>1, <2>2, StartIs, SMTT(40)
  <2>4. UNCHANGED <<table, host, hurt>>
    BY <2>1 DEF Start
  <2>5. Touches(None) /\ NumbersDistinct' /\ Listed' = Listed /\ rows' = rows /\ Known' = Known
    BY <2>4, NumbersKept DEF Touches, table, host, Listed, Known
  <2>6. \A j \in Known : <<j, rows[j]>> \in Listed
    BY DEF Listed
  <2>7. Flow(r)'
    <3>1. AtRest(r)' /\ Creating(r)' /\ Provided(r)' /\ Removed(r)'
      BY <2>3 DEF AtRest, Creating, Provided, Removed, Resting, Provisioning, Removing
    <3>2. Reconciling(r)'
      BY <2>3, <2>5, <2>6 DEF Reconciling
    <3> QED BY <3>1, <3>2 DEF Flow
  <2> QED BY <1>2, <1>3, <1>4, <2>3, <2>5, <2>7, Acting, RedisAssumption
<1> QED BY <1>5, <1>6, <1>7, <1>8, <1>9 DEF Begin

(* The request in flight: the others are at rest, and all it can hurt is its instance. *)
LEMMA InFlight ==
  ASSUME TurnsInv, NEW r \in Requests, req[r].pc \notin Resting
  PROVE  /\ \A q \in Requests \ {r} : Rest(q)
         /\ \A j \in Ids : Good(j)
         /\ req \in [Requests -> RequestStates] /\ Flow(r) /\ req[r].id \in Ids \cup {None}
BY OthersRest, GoodIs DEF TurnsInv, Results, TypeOK, RequestStates

LEMMA FinishRest ==
  ASSUME TypeOK, NEW r \in Requests, NEW result \in Resting, Finish(r, result)
  PROVE  Rest(r)' /\ Flow(r)' /\ \A q \in Requests \ {r} : req'[q] = req[q]
<1>1. Rest(r)' /\ \A q \in Requests \ {r} : req'[q] = req[q]
  BY FinishIs DEF Rest, TypeOK
<1> QED BY <1>1, RestFlowNext

LEMMA BrokenFlow ==
  ASSUME TypeOK, NEW r \in Requests, req[r].pc \in Provisioning, Broken(r),
         NEW i \in Ids, req[r].id = i
  PROVE  /\ Flow(r)' /\ \A q \in Requests \ {r} : req'[q] = req[q]
         /\ Good(i)' /\ \A j \in Ids : j \in hurt => j \in hurt'
<1>1. CASE req'[r].op = "create" /\ req'[r].pc = "undo" /\ req'[r].id = req[r].id /\ hurt' = hurt
  BY <1>1, BrokenIs DEF Flow, AtRest, Creating, Provided, Removed, Reconciling, Resting,
       Provisioning, Removing, Good, InHand
<1>2. CASE /\ req'[r].pc = "failed" /\ req'[r].id = None /\ req'[r].op = "none"
           /\ hurt' = hurt \cup {req[r].id}
  <2>1. Rest(r)'
    BY <1>2 DEF Rest, Resting
  <2> QED BY <1>2, <2>1, BrokenIs, RestFlowNext DEF Good
<1> QED BY <1>1, <1>2, BrokenIs

LEMMA NotAtRest ==
  /\ Resting \cap (Provisioning \cup Removing \cup {"insert", "save", "undo", "next"}) = {}
  /\ Provisioning \cap (Removing \cup {"insert", "save", "undo", "next"}) = {}
BY DEF Resting, Provisioning, Removing

LEMMA TableTurns ==
  ASSUME TypeOK', TurnsInv, NEW r \in Requests,
         InsertRow(r) \/ UndoCreate(r) \/ SaveRow(r) \/ NextRow(r)
  PROVE  TurnsInv'
<1>1. TypeOK /\ NumbersDistinct /\ req[r].pc \notin Resting
  BY NotAtRest DEF InsertRow, UndoCreate, SaveRow, NextRow, TurnsInv, Results
<1>2. /\ \A q \in Requests \ {r} : Rest(q)
      /\ \A j \in Ids : Good(j)
      /\ req \in [Requests -> RequestStates] /\ Flow(r) /\ req[r].id \in Ids \cup {None}
  BY <1>1, InFlight
<1>i. PICK i \in Ids \cup {None} : i = req[r].id
  BY <1>2
<1>3. CASE InsertRow(r)
  <2>1. /\ req[r].id = None /\ req[r].op = "create" /\ req[r].row.number \notin UsedNumbers
        /\ req[r].row \in Row
    BY <1>1, <1>2, <1>3 DEF InsertRow, Flow, Creating, TypeOK, HoldsRow, RequestStates
  <2>2. CASE nextId \in Ids /\ rows' = [rows EXCEPT ![nextId] = req[r].row]
               /\ nextId' = nextId + 1 /\ NoFault
               /\ req' = [req EXCEPT ![r].pc = "conf", ![r].id = nextId]
    <3>n. PICK n \in Ids : n = nextId
      BY <2>2
    <3>1. /\ req'[r].pc = "conf" /\ req'[r].id = n /\ req'[r].op = "create"
          /\ req'[r].row = req[r].row /\ \A q \in Requests \ {r} : req'[q] = req[q]
      BY <3>n, <1>2, <2>1, <2>2 DEF RequestStates
    <3>2. NumbersDistinct'
      BY <3>n, <1>1, <2>1, <2>2, NumbersSet DEF UsedNumbers
    <3>3. Touches(n)
      BY <3>n, <1>1, <1>3, <2>2 DEF InsertRow, Touches, TypeOK, host
    <3>4. Flow(r)'
      <4>1. n \in Known' /\ rows'[n] = req[r].row
        BY <3>n, <1>1, <2>1, <2>2, RedisAssumption DEF Known, TypeOK
      <4> QED BY <3>1, <4>1 DEF Flow, AtRest, Creating, Provided, Removed, Reconciling,
                Resting, Provisioning, Removing
    <3>5. Good(n)'
      BY <3>n, <3>1 DEF Good, InHand
    <3> QED BY <1>1, <1>2, <2>1, <2>2, <3>1, <3>2, <3>3, <3>4, <3>5, Acting
  <2>3. CASE Finish(r, "failed") /\ UNCHANGED table
    <3>1. Flow(r)' /\ \A q \in Requests \ {r} : req'[q] = req[q]
      BY <1>1, <2>3, FinishRest DEF Resting
    <3>2. Touches(None) /\ NumbersDistinct'
      BY <1>1, <1>3, <2>3, NumbersKept DEF InsertRow, Touches, table, host
    <3> QED BY <1>1, <1>2, <2>1, <3>1, <3>2, Acting, RedisAssumption
  <2> QED BY <1>3, <2>2, <2>3 DEF InsertRow
<1>4. CASE UndoCreate(r)
  <2>1. i \in Ids
    BY <1>i, <1>1, <1>4, InHandType DEF UndoCreate
  <2>2. Flow(r)' /\ \A q \in Requests \ {r} : req'[q] = req[q]
    BY <1>i, <1>1, <1>4, FinishRest DEF UndoCreate, Resting
  <2>3. NumbersDistinct'
    BY <1>i, <1>1, <1>4, <2>1, NumbersKept, NumbersDropped DEF UndoCreate
  <2>4. Touches(i)
    BY <1>i, <1>1, <1>4, <2>1 DEF UndoCreate, Touches, TypeOK, host, Hurt
  <2>5. Good(i)'
    BY <1>i, <1>4 DEF UndoCreate, Hurt, Good
  <2> QED BY <1>i, <1>1, <1>2, <2>1, <2>2, <2>3, <2>4, <2>5, Acting
<1>5. CASE SaveRow(r)
  <2>1. /\ i \in Ids /\ i \in Known /\ req[r].row \in Row
        /\ req[r].row.number = rows[i].number /\ req[r].op = "password"
    BY <1>i, <1>1, <1>2, <1>5, InHandType DEF SaveRow, Flow, Creating
  <2>2. CASE /\ rows' = [rows EXCEPT ![i] = req[r].row]
             /\ GoTo(r, "conf") /\ NoFault /\ UNCHANGED hurt
    <3>1. NumbersDistinct'
      <4>1. \A j \in Known : j # i => rows[j].number # req[r].row.number
        BY <1>i, <1>1, <2>1 DEF NumbersDistinct
      <4> QED BY <1>i, <1>1, <2>1, <2>2, <4>1, NumbersSet
    <3>2. /\ req'[r].pc = "conf" /\ req'[r].id = i /\ req'[r].op = "password"
          /\ req'[r].row = req[r].row /\ \A q \in Requests \ {r} : req'[q] = req[q]
      <4>1. "conf" \in PCs
        BY PCsAre DEF Provisioning
      <4> QED BY <1>i, <1>2, <2>1, <2>2, <4>1, GoToIs
    <3>3. Flow(r)'
      <4>1. i \in Known' /\ rows'[i] = req[r].row
        BY <1>i, <1>1, <2>1, <2>2, RedisAssumption DEF Known, TypeOK
      <4> QED BY <3>2, <4>1 DEF Flow, AtRest, Creating, Provided, Removed, Reconciling,
                Resting, Provisioning, Removing
    <3>4. Touches(i)
      BY <1>i, <1>1, <1>5, <2>1, <2>2 DEF SaveRow, Touches, TypeOK, host
    <3>5. Good(i)'
      BY <3>2 DEF Good, InHand
    <3> QED BY <1>i, <1>1, <1>2, <2>1, <3>1, <3>2, <3>3, <3>4, <3>5, Acting
  <2>3. CASE Finish(r, "failed") /\ Hurt(r) /\ UNCHANGED rows
    <3>1. Flow(r)' /\ \A q \in Requests \ {r} : req'[q] = req[q]
      BY <1>i, <1>1, <2>3, FinishRest DEF Resting
    <3>2. Touches(i) /\ NumbersDistinct' /\ Good(i)'
      BY <1>i, <1>1, <1>5, <2>3, NumbersKept DEF SaveRow, Touches, host, Hurt, Good
    <3> QED BY <1>i, <1>1, <1>2, <2>1, <3>1, <3>2, Acting
  <2> QED BY <1>i, <1>5, <2>2, <2>3 DEF SaveRow
<1>6. CASE NextRow(r)
  <2>1. UNCHANGED <<table, host, hurt>> /\ req[r].op = "reconcile" /\ req[r].pc = "next"
    BY <1>i, <1>2, <1>6 DEF NextRow, Flow, Reconciling
  <2>2. Touches(i) /\ NumbersDistinct' /\ rows' = rows /\ Known' = Known
          /\ Listed' = Listed
    BY <1>i, <1>1, <2>1, NumbersKept DEF Touches, table, host, Known, Listed
  <2>3. i \in Ids => Good(i)'
    <3>1. SUFFICES ASSUME i \in Ids PROVE Good(i)'
      OBVIOUS
    <3>2. i \in Known /\ Standing(i)
      BY <1>i, <1>2, <2>1, <3>1, RedisAssumption DEF Flow, Reconciling
    <3> QED BY <2>1, <2>2, <3>2 DEF Good, Standing, host
  <2>4. CASE Finish(r, "ok")
    <3>1. Flow(r)' /\ \A q \in Requests \ {r} : req'[q] = req[q]
      BY <1>i, <1>1, <2>4, FinishRest DEF Resting
    <3> QED BY <1>i, <1>1, <1>2, <2>2, <2>3, <3>1, Acting
  <2>5. ASSUME NEW item \in req[r].listed,
               req' = [req EXCEPT ![r] = [pc |-> "conf", op |-> "reconcile", id |-> item[1],
                                          row |-> item[2], listed |-> req[r].listed \ {item}]]
        PROVE  TurnsInv'
    <3>1. /\ req'[r].pc = "conf" /\ req'[r].op = "reconcile" /\ req'[r].id = item[1]
          /\ req'[r].row = item[2] /\ req'[r].listed = req[r].listed \ {item}
          /\ \A q \in Requests \ {r} : req'[q] = req[q]
      BY <1>i, <1>2, <2>5
    <3>2. /\ req[r].listed \subseteq Listed
          /\ \A j \in Known : <<j, rows[j]>> \in req[r].listed \/ (Standing(j) /\ active[j])
      BY <1>i, <1>2, <2>1 DEF Flow, Reconciling
    <3>3. item[1] \in Known /\ rows[item[1]] = item[2] /\ item = <<item[1], rows[item[1]]>>
      BY <3>2 DEF Listed
    <3>4. Flow(r)'
      <4>1. AtRest(r)' /\ Creating(r)' /\ Provided(r)' /\ Removed(r)'
        BY <2>2, <3>1, <3>3 DEF AtRest, Creating, Provided, Removed, Resting, Provisioning,
             Removing
      <4>2. \A j \in Known : Standing(j)' = Standing(j) /\ active'[j] = active[j]
        BY <2>1, <2>2 DEF Standing, host
      <4>3. \A j \in Known : \/ <<j, rows[j]>> \in req[r].listed \ {item}
                             \/ j = item[1] \/ (Standing(j) /\ active[j])
        BY <3>2
      <4>4. Reconciling(r)'
        BY <2>2, <3>1, <3>2, <4>2, <4>3 DEF Reconciling, Provisioning
      <4> QED BY <4>1, <4>4 DEF Flow
    <3> QED BY <1>i, <1>1, <1>2, <2>2, <2>3, <3>1, <3>4, Acting
  <2> QED BY <1>6, <2>4, <2>5 DEF NextRow
<1> QED BY <1>3, <1>4, <1>5, <1>6

LEMMA ProvisionTurns ==
  ASSUME TypeOK', TurnsInv, NEW r \in Requests, Provision(r)
  PROVE  TurnsInv'
<1>1. /\ TypeOK /\ NumbersDistinct /\ req[r].pc \in Provisioning
      /\ req[r].pc \notin Resting /\ req[r].pc \notin {"insert", "save", "undo", "next"}
      /\ req[r].pc \notin Removing /\ req[r].row \in Row /\ req[r].id \in Ids
  <2>1. req[r].pc \in Provisioning /\ TypeOK
    BY DEF Provision, WriteConf, InstallUnit, EnableUnit, StartUnit, Provisioning, TurnsInv
  <2> QED BY <2>1, NotAtRest, InHandType DEF TurnsInv, Results
<1>2. /\ \A q \in Requests \ {r} : Rest(q)
      /\ \A j \in Ids : Good(j)
      /\ req \in [Requests -> RequestStates] /\ Flow(r)
  BY <1>1, InFlight
<1>3. PICK i \in Ids : i = req[r].id
  BY <1>1
<1>4. /\ i \in Known /\ rows[i] = req[r].row /\ req[r].op \in {"create", "password", "reconcile"}
      /\ req[r].pc \in {"unit", "enable", "start"} => conf[i] = req[r].row
      /\ req[r].pc \in {"enable", "start"} => unit[i]
      /\ req[r].pc = "start" => enabled[i]
      /\ req[r].op = "reconcile" =>
           /\ req[r].listed \subseteq Listed
           /\ \A j \in Known : \/ <<j, rows[j]>> \in req[r].listed
                               \/ j = i
                               \/ Standing(j) /\ active[j]
  <2>1. Provided(r) /\ Reconciling(r)
    BY <1>2 DEF Flow
  <2>2. req[r].op = "reconcile" =>
           /\ req[r].listed \subseteq Listed
           /\ \A j \in Known : \/ <<j, rows[j]>> \in req[r].listed
                               \/ j = i
                               \/ Standing(j) /\ active[j]
    <3>1. SUFFICES ASSUME req[r].op = "reconcile", NEW j \in Known, j # i,
                          <<j, rows[j]>> \notin req[r].listed
                   PROVE  Standing(j) /\ active[j]
      BY <2>1 DEF Reconciling
    <3> QED BY <1>3, <2>1, <3>1 DEF Reconciling
  <2> QED BY <1>1, <1>3, <2>1, <2>2 DEF Provided
<1>5. rows' = rows /\ Known' = Known /\ Listed' = Listed /\ NumbersDistinct'
  BY <1>1, NumbersKept
  DEF Provision, WriteConf, InstallUnit, EnableUnit, StartUnit, table, Known, Listed
<1>6. Touches(i)
  <2>1. ASSUME Hurt(r) \/ UNCHANGED hurt PROVE \A j \in Ids : j \in hurt => j \in hurt'
    BY <2>1 DEF Hurt
  <2>2. ASSUME Broken(r) PROVE \A j \in Ids : j \in hurt => j \in hurt'
    BY <2>1, <2>2 DEF Broken
  <2>3. CASE WriteConf(r)
    BY <1>1, <1>3, <2>2, <2>3 DEF WriteConf, Touches, TypeOK, table
  <2>4. CASE InstallUnit(r)
    BY <1>1, <1>3, <2>2, <2>4 DEF InstallUnit, Touches, TypeOK, table
  <2>5. CASE EnableUnit(r)
    BY <1>1, <1>3, <2>2, <2>5 DEF EnableUnit, Touches, TypeOK, table
  <2>6. CASE StartUnit(r)
    BY <1>1, <1>3, <2>2, <2>6 DEF StartUnit, Touches, TypeOK, table
  <2> QED BY <2>3, <2>4, <2>5, <2>6 DEF Provision
<1>7. CASE Broken(r)
  BY <1>1, <1>2, <1>3, <1>5, <1>6, <1>7, BrokenFlow, Acting
\* A step that goes on keeps what the reconciliation holds of the other connections.
<1>8. ASSUME NEW pc \in Provisioning \cup {"next"}, GoTo(r, pc)
      PROVE  /\ req'[r].pc = pc /\ req'[r].op = req[r].op /\ req'[r].id = i
             /\ req'[r].row = req[r].row /\ req'[r].listed = req[r].listed
             /\ \A q \in Requests \ {r} : req'[q] = req[q]
             /\ Good(i)'
  <2>1. pc \in PCs
    BY PCsAre
  <2>2. /\ req'[r].pc = pc /\ req'[r].op = req[r].op /\ req'[r].id = i
        /\ req'[r].row = req[r].row /\ req'[r].listed = req[r].listed
        /\ \A q \in Requests \ {r} : req'[q] = req[q]
    BY <1>2, <1>3, <1>8, <2>1, GoToIs
  <2> QED BY <2>2 DEF Good, InHand
<1>9. \A j \in Known : j # i => (Standing(j) <=> Standing(j)') /\ active'[j] = active[j]
  BY <1>6 DEF Touches, Standing, Known
<1>10. ASSUME NEW pc \in {"unit", "enable", "start"}, GoTo(r, pc), conf'[i] = req[r].row,
              pc \in {"enable", "start"} => unit'[i], pc = "start" => enabled'[i]
       PROVE  TurnsInv'
  <2>1. pc \in Provisioning /\ pc \notin Resting /\ pc \notin Removing
    BY DEF Provisioning, Resting, Removing
  <2>2. AtRest(r)' /\ Creating(r)' /\ Provided(r)' /\ Removed(r)'
    BY <1>4, <1>5, <1>8, <1>10, <2>1 DEF AtRest, Creating, Provided, Removed
  <2>3. Reconciling(r)'
    BY <1>4, <1>5, <1>8, <1>9, <1>10, <2>1 DEF Reconciling
  <2> QED BY <1>1, <1>2, <1>3, <1>5, <1>6, <1>8, <1>10, <2>1, <2>2, <2>3, Acting DEF Flow
<1>11. CASE WriteConf(r)
  <2>1. CASE /\ conf' = [conf EXCEPT ![req[r].id] = req[r].row]
             /\ GoTo(r, "unit")
    BY <1>1, <1>3, <1>10, <2>1 DEF TypeOK
  <2> QED BY <1>7, <1>11, <2>1 DEF WriteConf
<1>12. CASE InstallUnit(r)
  <2>1. CASE unit' = [unit EXCEPT ![req[r].id] = TRUE] /\ GoTo(r, "enable")
    BY <1>1, <1>3, <1>4, <1>10, <1>12, <2>1 DEF InstallUnit, TypeOK
  <2> QED BY <1>7, <1>12, <2>1 DEF InstallUnit
<1>13. CASE EnableUnit(r)
  <2>1. CASE /\ unit[req[r].id] /\ enabled' = [enabled EXCEPT ![req[r].id] = TRUE]
             /\ GoTo(r, "start")
    BY <1>1, <1>3, <1>4, <1>10, <1>13, <2>1 DEF EnableUnit, TypeOK
  <2> QED BY <1>7, <1>13, <2>1 DEF EnableUnit
<1>14. CASE StartUnit(r)
  <2>1. CASE /\ unit[req[r].id] /\ active' = [active EXCEPT ![req[r].id] = TRUE]
             /\ IF req[r].op = "reconcile" THEN GoTo(r, "next") ELSE Finish(r, "ok")
    <3>1. /\ Standing(i)' /\ active'[i] /\ i \in Known'
      BY <1>1, <1>3, <1>4, <1>5, <1>14, <2>1 DEF StartUnit, Standing, TypeOK
    <3>2. CASE req[r].op = "reconcile"
      <4>1. GoTo(r, "next")
        BY <2>1, <3>2
      <4>2. AtRest(r)' /\ Creating(r)' /\ Provided(r)' /\ Removed(r)'
        BY <1>8, <4>1 DEF AtRest, Creating, Provided, Removed, Resting, Provisioning, Removing
      <4>3. Reconciling(r)'
        BY <1>4, <1>5, <1>8, <1>9, <3>1, <3>2, <4>1 DEF Reconciling
      <4> QED BY <1>1, <1>2, <1>3, <1>5, <1>6, <1>8, <4>1, <4>2, <4>3, Acting DEF Flow
    <3>3. CASE req[r].op # "reconcile"
      <4>1. Flow(r)' /\ \A q \in Requests \ {r} : req'[q] = req[q]
        BY <1>1, <2>1, <3>3, FinishRest DEF Resting
      <4>2. Good(i)'
        BY <3>1 DEF Good, Standing
      <4> QED BY <1>1, <1>2, <1>3, <1>5, <1>6, <4>1, <4>2, Acting
    <3> QED BY <3>2, <3>3
  <2> QED BY <1>7, <1>14, <2>1 DEF StartUnit
<1> QED BY <1>11, <1>12, <1>13, <1>14 DEF Provision

LEMMA RemoveTurns ==
  ASSUME TypeOK', TurnsInv, NEW r \in Requests, Remove(r)
  PROVE  TurnsInv'
<1>1. /\ TypeOK /\ NumbersDistinct /\ req[r].pc \in Removing
      /\ req[r].pc \notin Resting /\ req[r].id \in Ids
  <2>1. req[r].pc \in Removing /\ TypeOK
    BY DEF Remove, StopUnit, DisableUnit, ForgetService, RemoveUnitFile, RemoveTree,
           RemoveRow, Removing, TurnsInv
  <2> QED BY <2>1, NotAtRest, InHandType DEF TurnsInv, Results
<1>2. /\ \A q \in Requests \ {r} : Rest(q)
      /\ \A j \in Ids : Good(j)
      /\ req \in [Requests -> RequestStates] /\ Flow(r)
  BY <1>1, InFlight
<1>3. PICK i \in Ids : i = req[r].id
  BY <1>1
<1>4. /\ req[r].op = "delete"
      /\ req[r].pc # "stop" => ~active[i] \/ i \in hurt
      /\ req[r].pc \in {"tree", "remove"} => ~unit[i]
      /\ req[r].pc = "remove" => conf[i] = None
  BY <1>1, <1>2, <1>3 DEF Flow, Removed
<1>5. NumbersDistinct'
  <2>1. CASE RemoveRow(r)
    BY <1>1, <2>1, NumbersKept, NumbersDropped DEF RemoveRow
  <2> QED BY <1>1, <2>1, NumbersKept
       DEF Remove, StopUnit, DisableUnit, ForgetService, RemoveUnitFile, RemoveTree, table
<1>6. Touches(i) /\ (i \in hurt => i \in hurt')
  <2>1. CASE StopUnit(r)
    BY <1>1, <1>3, <2>1 DEF StopUnit, Touches, TypeOK, table, Down, Hurt
  <2>2. CASE DisableUnit(r)
    BY <1>1, <1>3, <2>2 DEF DisableUnit, Touches, TypeOK, table
  <2>3. CASE ForgetService(r)
    BY <1>1, <1>3, <2>3 DEF ForgetService, Touches, TypeOK, table
  <2>4. CASE RemoveUnitFile(r)
    BY <1>1, <1>3, <2>4 DEF RemoveUnitFile, Touches, TypeOK, table, Hurt
  <2>5. CASE RemoveTree(r)
    BY <1>1, <1>3, <2>5 DEF RemoveTree, Touches, TypeOK, table, Hurt
  <2>6. CASE RemoveRow(r)
    BY <1>1, <1>3, <2>6 DEF RemoveRow, Touches, TypeOK, host, Hurt
  <2> QED BY <2>1, <2>2, <2>3, <2>4, <2>5, <2>6 DEF Remove
<1>7. ASSUME Finish(r, "failed"), Hurt(r) PROVE TurnsInv'
  <2>1. Flow(r)' /\ \A q \in Requests \ {r} : req'[q] = req[q]
    BY <1>1, <1>7, FinishRest DEF Resting
  <2>2. Good(i)'
    BY <1>3, <1>7 DEF Hurt, Good
  <2> QED BY <1>1, <1>2, <1>3, <1>5, <1>6, <2>1, <2>2, Acting
<1>8. ASSUME NEW pc \in Removing \ {"stop"}, GoTo(r, pc), ~active'[i] \/ i \in hurt',
             pc \in {"tree", "remove"} => ~unit'[i], pc = "remove" => conf'[i] = None
      PROVE  TurnsInv'
  <2>1. pc \in PCs /\ pc \notin Resting /\ pc \notin Provisioning
          /\ pc \notin {"insert", "save", "undo", "next"}
    BY PCsAre DEF Removing, Resting, Provisioning
  <2>2. /\ req'[r].pc = pc /\ req'[r].op = "delete" /\ req'[r].id = i
        /\ \A q \in Requests \ {r} : req'[q] = req[q]
    BY <1>2, <1>3, <1>4, <1>8, <2>1, GoToIs
  <2>3. AtRest(r)' /\ Creating(r)' /\ Provided(r)' /\ Reconciling(r)'
    BY <2>1, <2>2 DEF AtRest, Creating, Provided, Reconciling, Provisioning
  <2>4. Removed(r)'
    BY <1>8, <2>2 DEF Removed
  <2>5. Good(i)'
    BY <2>2 DEF Good, InHand
  <2> QED BY <1>1, <1>2, <1>3, <1>5, <1>6, <2>2, <2>3, <2>4, <2>5, Acting DEF Flow
<1>9. {"disable", "forget", "unlink", "tree", "remove"} \subseteq Removing \ {"stop"}
  BY DEF Removing
<1>10. CASE StopUnit(r)
  <2>1. ~active'[i] \/ i \in hurt'
    BY <1>1, <1>3, <1>10 DEF StopUnit, Down, Hurt, TypeOK
  <2> QED BY <1>8, <1>9, <1>10, <2>1 DEF StopUnit
<1>11. CASE DisableUnit(r)
  BY <1>4, <1>6, <1>8, <1>9, <1>11 DEF DisableUnit
<1>12. CASE ForgetService(r)
  BY <1>4, <1>6, <1>8, <1>9, <1>12 DEF ForgetService
<1>13. CASE RemoveUnitFile(r)
  <2>1. CASE unit' = [unit EXCEPT ![req[r].id] = FALSE] /\ GoTo(r, "tree")
    BY <1>1, <1>3, <1>4, <1>6, <1>8, <1>9, <1>13, <2>1 DEF RemoveUnitFile, TypeOK
  <2> QED BY <1>7, <1>13, <2>1 DEF RemoveUnitFile
<1>14. CASE RemoveTree(r)
  <2>1. CASE conf' = [conf EXCEPT ![req[r].id] = None] /\ GoTo(r, "remove")
    BY <1>1, <1>3, <1>4, <1>6, <1>8, <1>9, <1>14, <2>1 DEF RemoveTree, TypeOK
  <2> QED BY <1>7, <1>14, <2>1 DEF RemoveTree
<1>15. CASE RemoveRow(r)
  <2>1. CASE rows' = [rows EXCEPT ![req[r].id] = None] /\ Finish(r, "ok")
    <3>1. Flow(r)' /\ \A q \in Requests \ {r} : req'[q] = req[q]
      BY <1>1, <2>1, FinishRest DEF Resting
    <3>2. Good(i)'
      BY <1>1, <1>3, <1>4, <1>6, <1>15, <2>1 DEF RemoveRow, Good, Known, TypeOK, host
    <3> QED BY <1>1, <1>2, <1>3, <1>5, <1>6, <3>1, <3>2, Acting
  <2> QED BY <1>7, <1>15, <2>1 DEF RemoveRow
<1> QED BY <1>10, <1>11, <1>12, <1>13, <1>14, <1>15 DEF Remove

LEMMA PageTurns ==
  ASSUME TypeOK', TurnsInv, ~Overlapping, NEW i \in Ids, Page(i)
  PROVE  TurnsInv'
<1>1. TypeOK /\ NumbersDistinct /\ Quiet
  BY DEF Page, StopAction, StartAction, RestartAction, EnableAction, DisableAction,
         ForgetAction, Command, TurnsInv, Results
<1>2. (\A q \in Requests : Rest(q)) /\ (\A j \in Ids : Good(j))
  BY <1>1, QuietRest, GoodIs DEF TurnsInv, Results
<1>3. req' = req /\ rows' = rows /\ conf' = conf /\ unit' = unit
  BY DEF Page, StopAction, StartAction, RestartAction, EnableAction, DisableAction,
         ForgetAction, Kept, table
<1>4. /\ \A j \in Ids : j \in hurt => j \in hurt'
      /\ active'[i] => active[i] \/ unit[i]
      /\ \/ (services'[i] = "on" => enabled'[i]) \/ i \in hurt'
         \/ services' = services /\ enabled' = enabled
      /\ \A j \in Ids \ {i} : /\ active'[j] = active[j] /\ enabled'[j] = enabled[j]
                              /\ services'[j] = services[j]
  <2>m. ASSUME NEW state \in {"on", "off"}, Mark(i, state),
               enabled' \in [Ids -> BOOLEAN], state = "on" => enabled'[i]
        PROVE  /\ \A j \in Ids : j \in hurt => j \in hurt'
               /\ (services'[i] = "on" => enabled'[i]) \/ i \in hurt'
               /\ \A j \in Ids \ {i} : services'[j] = services[j]
    <3>1. CASE services' = [services EXCEPT ![i] = state] /\ Done
      BY <1>1, <2>m, <3>1 DEF Done, TypeOK
    <3>2. CASE Fault /\ hurt' = hurt \cup {i} /\ UNCHANGED services
      BY <3>2
    <3> QED BY <2>m, <3>1, <3>2 DEF Mark
  <2>1. CASE StopAction(i)
    BY <1>1, <2>1 DEF StopAction, Down, Done, TypeOK
  <2>2. CASE StartAction(i)
    BY <1>1, <2>2 DEF StartAction, Done, TypeOK
  <2>3. CASE RestartAction(i)
    BY <1>1, <2>3 DEF RestartAction, Done, TypeOK
  <2>4. CASE EnableAction(i)
    <3>1. /\ Mark(i, "on") /\ UNCHANGED active
          /\ enabled' = [enabled EXCEPT ![i] = TRUE]
      BY <2>4 DEF EnableAction
    <3>2. /\ enabled' \in [Ids -> BOOLEAN] /\ enabled'[i]
          /\ \A j \in Ids \ {i} : enabled'[j] = enabled[j]
      BY <1>1, <3>1 DEF TypeOK
    <3> QED BY <2>m, <3>1, <3>2
  <2>5. CASE DisableAction(i)
    <3>1. /\ Mark(i, "off") /\ UNCHANGED active
          /\ enabled' = [enabled EXCEPT ![i] = FALSE]
      BY <2>5 DEF DisableAction
    <3>2. /\ enabled' \in [Ids -> BOOLEAN]
          /\ \A j \in Ids \ {i} : enabled'[j] = enabled[j]
      BY <1>1, <3>1 DEF TypeOK
    <3> QED BY <2>m, <3>1, <3>2
  <2>6. CASE ForgetAction(i)
    BY <1>1, <2>6 DEF ForgetAction, Done, TypeOK
  <2> QED BY <2>1, <2>2, <2>3, <2>4, <2>5, <2>6 DEF Page
<1>5. \A q \in Requests : Rest(q)' /\ Flow(q)'
  <2>1. \A q \in Requests : Rest(q)'
    BY <1>2, <1>3 DEF Rest
  <2> QED BY <2>1, RestFlowNext
<1>6. \A j \in Ids : ~InHand(j) /\ ~InHand(j)'
  BY <1>2, <1>5, RedisAssumption DEF InHand, Rest
<1>7. \A j \in Ids : Good(j)'
  BY <1>2, <1>3, <1>4, <1>6 DEF Good, Known
<1>8. AtMostOne' /\ NumbersDistinct'
  BY <1>1, <1>3, <1>5, NumbersKept DEF AtMostOne, Rest
<1> QED BY <1>5, <1>7, <1>8, GoodIsNext DEF TurnsInv, Results

LEMMA HostTurns ==
  ASSUME TypeOK', TurnsInv, \/ \E i \in Ids : Bind(i) \/ Die(i)
                            \/ Crash \/ Reboot
  PROVE  TurnsInv'
<1>1. CASE \E i \in Ids : Bind(i) \/ Die(i)
  <2>1. UNCHANGED <<rows, nextId, conf, unit, enabled, services, active, req, hurt>>
    BY <1>1 DEF Bind, Die, table
  <2> QED BY <2>1 DEF TurnsInv, AtMostOne, Flow, AtRest, Creating, Provided, Removed,
          Reconciling, Results, NumbersDistinct, RowsProvisioned, InstancesOwned, InHand,
          Standing, Known, UsedNumbers, Listed
<1>2. CASE Crash \/ Reboot
  <2>1. /\ Lost /\ UNCHANGED <<rows, conf, unit, enabled, services>>
        /\ \A i \in Ids : active'[i] => active[i] \/ unit[i]
    BY <1>2 DEF Crash, Reboot, table, host
  <2>2. \A q \in Requests : Rest(q)' /\ Flow(q)'
    <3>1. \A q \in Requests : Rest(q)'
      BY <2>1 DEF Lost, Rest, NoReq, Resting
    <3> QED BY <3>1, RestFlowNext
  <2>3. ASSUME NEW j \in Ids PROVE Good(j)'
    <3>1. InHand(j) \/ j \in hurt => j \in hurt'
      BY <2>1, RedisAssumption DEF Lost, InHand
    <3>2. Good(j)
      BY GoodIs DEF TurnsInv, Results
    <3> QED BY <2>1, <3>1, <3>2 DEF Good, Known
  <2>4. AtMostOne' /\ NumbersDistinct'
    BY <2>1, <2>2, NumbersKept DEF AtMostOne, Rest, TurnsInv, Results
  <2> QED BY <2>2, <2>3, <2>4, GoodIsNext DEF TurnsInv, Results
<1> QED BY <1>1, <1>2

LEMMA InitTurns == ASSUME Init PROVE TurnsInv
<1>1. \A r \in Requests : Rest(r)
  BY DEF Init, NoReq, Rest, Resting
<1>2. \A r \in Requests : Flow(r)
  BY <1>1, RestFlow
<1> QED BY <1>1, <1>2, InitType DEF Init, TurnsInv, AtMostOne, Rest, Results,
        NumbersDistinct, RowsProvisioned, InstancesOwned, Known

LEMMA StepTurns == ASSUME ~Overlapping, TurnsInv, [Next]_vars PROVE TurnsInv'
<1>1. TypeOK'
  BY StepType DEF TurnsInv
<1>2. CASE UNCHANGED vars
  BY <1>2 DEF vars, TurnsInv, TypeOK, HoldsRow, AtMostOne, Flow, AtRest, Creating, Provided,
      Removed, Reconciling, Results, NumbersDistinct, RowsProvisioned, InstancesOwned,
      InHand, Standing, Known, UsedNumbers, Listed
<1>3. CASE Next
  BY <1>1, <1>3, BeginTurns, TableTurns, ProvisionTurns, RemoveTurns, PageTurns, HostTurns
  DEF Next
<1> QED BY <1>2, <1>3

LEMMA AlwaysTurns == ASSUME ~Overlapping PROVE Spec => []TurnsInv
<1>1. Init => TurnsInv
  BY InitTurns
<1>2. TurnsInv /\ [Next]_vars => TurnsInv'
  BY StepTurns
<1> QED BY <1>1, <1>2, PTL DEF Spec

\* While operators take turns, no two connections have the same database number, whatever
\* fails (ensureRedisDBUnique, which reads the table before the row is inserted).
THEOREM NumbersDistinctInTurns == ASSUME ~Overlapping PROVE Spec => []NumbersDistinct
<1>1. TurnsInv => NumbersDistinct
  BY DEF TurnsInv, Results
<1> QED BY <1>1, AlwaysTurns, PTL

\* While operators take turns, every connection has the configuration of its row and its
\* unit, unless a handler is at it or a failure cut one short (provisionManagedRedis).
THEOREM RowsProvisionedInTurns == ASSUME ~Overlapping PROVE Spec => []RowsProvisioned
<1>1. TurnsInv => RowsProvisioned
  BY DEF TurnsInv, Results
<1> QED BY <1>1, AlwaysTurns, PTL

\* While operators take turns, a deletion leaves no process, unit or configuration behind,
\* unless a failure cut it short (deprovisionManagedRedis).
THEOREM InstancesOwnedInTurns == ASSUME ~Overlapping PROVE Spec => []InstancesOwned
<1>1. TurnsInv => InstancesOwned
  BY DEF TurnsInv, Results
<1> QED BY <1>1, AlwaysTurns, PTL

\* While operators take turns, the table and the host agree both ways.
THEOREM InstancesMatchRowsInTurns == ASSUME ~Overlapping PROVE Spec => []InstancesMatchRows
<1>1. Spec => [](RowsProvisioned /\ InstancesOwned)
  BY RowsProvisionedInTurns, InstancesOwnedInTurns, PTL
<1> QED BY <1>1 DEF InstancesMatchRows

(* A reconciliation ends well in NextRow alone. *)
LEMMA ReconcileEnds ==
  ASSUME ~Overlapping, TurnsInv, [Next]_vars,
         NEW r \in Requests, req[r].op = "reconcile", req'[r].pc = "ok"
  PROVE  NextRow(r)
<1>1. /\ req[r].pc \in Provisioning \cup {"next"} /\ req[r].pc \notin Resting
      /\ req[r].pc # "insert" /\ req[r].pc # "undo" /\ req[r].pc # "save"
      /\ req[r].pc \notin Removing
      /\ req \in [Requests -> RequestStates] /\ TypeOK
  <2>1. TypeOK /\ req \in [Requests -> RequestStates] /\ req[r].pc \in Provisioning \cup {"next"}
    BY DEF TurnsInv, Flow, Reconciling, TypeOK
  <2> QED BY <2>1 DEF Resting, Provisioning, Removing
<1>2. req'[r].pc # req[r].pc
  BY <1>1 DEF Resting
<1>3. \A q \in Requests \ {r} : req[q].pc \in Resting
  BY <1>1, OthersRest DEF Rest
<1>4. ~Quiet /\ req' # req
  BY <1>1, <1>2 DEF Quiet
<1>5. ~Crash /\ ~Reboot
  BY <1>2 DEF Crash, Reboot, Lost, NoReq
<1>6. \A i \in Ids : ~Bind(i) /\ ~Die(i) /\ ~Page(i)
  BY <1>4 DEF Bind, Die, Page, StopAction, StartAction, RestartAction, EnableAction,
       DisableAction, ForgetAction, Kept
<1>7. PICK q \in Requests : \/ Begin(q) \/ InsertRow(q) \/ UndoCreate(q) \/ SaveRow(q)
                            \/ NextRow(q) \/ Provision(q) \/ Remove(q)
  BY <1>4, <1>5, <1>6 DEF Next, vars
<1>8. ~Begin(q)
  BY <1>1, <1>4
  DEF Begin, NotFound, BeginCreate, BeginPassword, BeginDelete, BeginReconcile, Idle
<1>9. q = r
  <2>1. req[q].pc \in Provisioning \cup Removing \cup {"insert", "save", "undo", "next"}
    BY <1>7, <1>8
    DEF InsertRow, UndoCreate, SaveRow, NextRow, Provision, WriteConf, InstallUnit, EnableUnit,
        StartUnit, Remove, StopUnit, DisableUnit, ForgetService, RemoveUnitFile, RemoveTree,
        RemoveRow, Provisioning, Removing
  <2> QED BY <1>3, <2>1, NotAtRest
<1>10. ASSUME NEW pc \in {"unit", "enable", "start", "next", "undo"}, GoTo(r, pc) PROVE FALSE
  BY <1>1, <1>10 DEF GoTo, RequestStates
<1>11. ~Finish(r, "failed")
  BY <1>1 DEF Finish, NoReq
<1>12. ~Broken(r)
  BY <1>10, <1>11 DEF Broken
<1>13. ~Provision(r)
  BY <1>10, <1>12 DEF Provision, WriteConf, InstallUnit, EnableUnit, StartUnit
<1>14. ~InsertRow(r) /\ ~UndoCreate(r) /\ ~SaveRow(r) /\ ~Remove(r)
  BY <1>1 DEF InsertRow, UndoCreate, SaveRow, Remove, StopUnit, DisableUnit, ForgetService,
       RemoveUnitFile, RemoveTree, RemoveRow, Removing
<1> QED BY <1>7, <1>8, <1>9, <1>13, <1>14

\* While operators take turns, a reconciliation that reports success leaves every connection
\* provisioned from its row, enabled and started (ReconcileManagedRedis).
THEOREM ReconcileRestoresInTurns == ASSUME ~Overlapping PROVE Spec => ReconcileRestores
<1>1. ASSUME TurnsInv, [Next]_vars, NEW r \in Requests, req[r].op = "reconcile",
             req'[r].pc = "ok"
      PROVE  \A i \in Known : conf[i] = rows[i] /\ unit[i] /\ enabled[i] /\ active[i]
  <2>1. NextRow(r)
    BY <1>1, ReconcileEnds
  <2>2. req[r].pc = "next" /\ req[r].listed = {}
    BY <1>1, <2>1 DEF NextRow, TurnsInv, TypeOK
  <2>3. Reconciling(r)
    BY <1>1 DEF TurnsInv, Flow
  <2> QED BY <1>1, <2>2, <2>3 DEF Reconciling, Standing
<1>2. TurnsInv /\ [Next]_vars =>
        [\A r \in Requests :
           req[r].op = "reconcile" /\ req'[r].pc = "ok" =>
             \A i \in Known : conf[i] = rows[i] /\ unit[i] /\ enabled[i] /\ active[i]]_vars
  BY <1>1
<1> QED BY <1>2, AlwaysTurns, PTL DEF Spec, ReconcileRestores
=============================================================================

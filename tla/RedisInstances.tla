---------------------------- MODULE RedisInstances ----------------------------
(***************************************************************************)
(* The managed Redis instances of DeployCP: a table of connections, and for *)
(* each of its rows a configuration file, a systemd unit, an entry on the   *)
(* services page and a process (DatabaseService in src/internal/services/   *)
(* database_service.go, with the actions of ServiceService on those units   *)
(* and the share of ReconcileService.Run).                                  *)
(*                                                                          *)
(* A creation inserts the row and then provisions the instance, a change of *)
(* the password saves the row and provisions it again, a deletion takes the *)
(* instance away and the row last.  A process reads its configuration when  *)
(* it starts, and listens some time after systemctl has reported success.   *)
(***************************************************************************)
EXTENDS Integers, FiniteSets

CONSTANTS
  Passwords,
  MaxPort,      \* ports 6379, 6380, ... as 0..MaxPort
  Taken,        \* ports other programs listen on
  MaxNumber,    \* database numbers 0..MaxNumber
  Requests,     \* handlers and commands that may be running
  MaxRows,      \* bound on the rows ever made
  Overlapping,  \* may requests be in flight together?
  MaxFailures,  \* bound on failing calls and commands, and crashes
  None

Ids     == 1..MaxRows
Ports   == 0..MaxPort
Numbers == 0..MaxNumber
Row     == [port : Ports, number : Numbers, password : Passwords]

ASSUME RedisAssumption ==
  /\ MaxPort \in Nat /\ MaxNumber \in Nat /\ MaxRows \in Nat /\ MaxFailures \in Nat
  /\ Taken \subseteq Ports
  /\ Overlapping \in BOOLEAN
  /\ None \notin Ids \cup Row

VARIABLES
  rows,      \* table redis_connections
  conf,      \* redis.conf of each instance, as the row it was rendered from
  unit,      \* has deploycp-redis-<id>.service a file?
  enabled,   \* does systemd start it at boot?
  services,  \* table managed_services: its Enabled column, or no row
  active,    \* is the unit active?
  serving,   \* the configuration the process that listens has read
  req,       \* each request: where it is and what it holds in memory
  nextId, failures,
  hurt       \* rows a failure or a crash left half-way

host   == <<conf, unit, enabled, services, active, serving>>
table  == <<rows, nextId>>
vars   == <<rows, nextId, conf, unit, enabled, services, active, serving, req, failures, hurt>>

Resting      == {"idle", "ok", "failed"}
Provisioning == {"conf", "unit", "enable", "start"}
Removing     == {"stop", "disable", "forget", "unlink", "tree", "remove"}
NoReq == [pc |-> "idle", op |-> "none", id |-> None, row |-> None, listed |-> {}]
RequestStates ==
  [pc : Resting \cup Provisioning \cup Removing \cup {"insert", "save", "undo", "next"},
   op : {"none", "create", "password", "delete", "reconcile"},
   id : Ids \cup {None}, row : Row \cup {None}, listed : SUBSET (Ids \X Row)]

-----------------------------------------------------------------------------
Known   == {i \in Ids : rows[i] # None}
Fault   == failures < MaxFailures /\ failures' = failures + 1
NoFault == UNCHANGED failures

Quiet   == \A r \in Requests : req[r].pc \in Resting
Idle(r) == req[r].pc \in Resting /\ (Overlapping \/ Quiet)
Start(r, op, pc, id, row, listed) ==
  /\ req' = [req EXCEPT ![r] = [pc |-> pc, op |-> op, id |-> id, row |-> row,
                                listed |-> listed]]
  /\ NoFault /\ UNCHANGED <<table, host>>
GoTo(r, pc) == req' = [req EXCEPT ![r].pc = pc]
Finish(r, result) == req' = [req EXCEPT ![r] = [NoReq EXCEPT !.pc = result]]
Hurt(r) == hurt' = hurt \cup {req[r].id}
\* A failing provisioning ends the request; a creation takes its row back first.
Broken(r) == IF req[r].op = "create" THEN GoTo(r, "undo") /\ UNCHANGED hurt
             ELSE Finish(r, "failed") /\ Hurt(r)

\* A page is stale: the connection it names is not in the table.
NotFound(r) == /\ Idle(r) /\ Known # Ids /\ Finish(r, "failed")
               /\ NoFault /\ UNCHANGED <<table, host, hurt>>

-----------------------------------------------------------------------------
(* CreateRedis *)
UsedNumbers == {rows[i].number : i \in Known}
\* Mutant: the number asked for is taken as it is.
NumberUnchecked(wanted, n) == n = wanted
\* The number asked for, or the least that no row has.
NumberFor(wanted, n) ==
  /\ n \notin UsedNumbers
  /\ n # wanted => wanted \in UsedNumbers /\ \A m \in 0..(n - 1) : m \in UsedNumbers

\* Somebody listens: the table is not asked.
Busy(port) == port \in Taken \/ \E i \in Ids : serving[i] # None /\ serving[i].port = port
\* The port asked for, or the next one free, from 6380 on.
PortFor(wanted, p) ==
  /\ ~Busy(p)
  /\ p # wanted => /\ Busy(wanted) /\ p >= 1
                   /\ \A q \in Ports : wanted <= q /\ 1 <= q /\ q < p => Busy(q)
                   /\ wanted <= p

Room == nextId + Cardinality({r \in Requests : req[r].pc = "insert"}) <= MaxRows
BeginCreate(r) ==
  /\ Idle(r) /\ Room
  /\ \E wantedPort \in Ports, wantedNumber \in Numbers, password \in Passwords :
     \E port \in Ports, number \in Numbers :
       /\ PortFor(wantedPort, port) /\ NumberFor(wantedNumber, number)
       /\ Start(r, "create", "insert", None,
                [port |-> port, number |-> number, password |-> password], {})
  /\ UNCHANGED hurt

\* Mutant: the row inserted is not the row provisioned.
InsertForgotten(r) ==
  /\ req[r].pc = "insert" /\ nextId \in Ids
  /\ rows' = [rows EXCEPT ![nextId] = req[r].row] /\ nextId' = nextId + 1
  /\ GoTo(r, "conf") /\ NoFault /\ UNCHANGED <<host, hurt>>
InsertRow(r) ==
  /\ req[r].pc = "insert"
  /\ \/ /\ nextId \in Ids
        /\ rows' = [rows EXCEPT ![nextId] = req[r].row] /\ nextId' = nextId + 1
        /\ req' = [req EXCEPT ![r].pc = "conf", ![r].id = nextId] /\ NoFault
     \/ Fault /\ Finish(r, "failed") /\ UNCHANGED table
  /\ UNCHANGED <<host, hurt>>

\* The error of the row's deletion is ignored, and nothing of the host is taken back.
UndoCreate(r) ==
  /\ req[r].pc = "undo"
  /\ \/ rows' = [rows EXCEPT ![req[r].id] = None] /\ NoFault
     \/ Fault /\ UNCHANGED rows
  /\ Finish(r, "failed") /\ Hurt(r)
  /\ UNCHANGED <<nextId, host>>

(* UpdateRedisPassword: the row is read, and saved whole. *)
BeginPassword(r) ==
  /\ Idle(r)
  /\ \E i \in Known, password \in Passwords :
       Start(r, "password", "save", i, [rows[i] EXCEPT !.password = password], {})
  /\ UNCHANGED hurt

SaveRow(r) ==
  /\ req[r].pc = "save"
  /\ \/ /\ rows' = [rows EXCEPT ![req[r].id] = req[r].row]
        /\ GoTo(r, "conf") /\ NoFault /\ UNCHANGED hurt
     \/ Fault /\ Finish(r, "failed") /\ Hurt(r) /\ UNCHANGED rows
  /\ UNCHANGED <<nextId, host>>

(* ReconcileManagedRedis: every row of one listing, the latest first. *)
\* Mutant: an instance that has its unit is passed over.
ListedMissing == {<<i, rows[i]>> : i \in {j \in Known : ~unit[j]}}
Listed == {<<i, rows[i]>> : i \in Known}
BeginReconcile(r) ==
  /\ Idle(r) /\ Known # {}
  /\ Start(r, "reconcile", "next", None, None, Listed)
  /\ UNCHANGED hurt

NextRow(r) ==
  /\ req[r].pc = "next"
  /\ \/ req[r].listed = {} /\ Finish(r, "ok")
     \/ \E item \in req[r].listed :
          /\ \A other \in req[r].listed : other[1] <= item[1]
          /\ req' = [req EXCEPT ![r] = [pc |-> "conf", op |-> "reconcile", id |-> item[1],
                                        row |-> item[2],
                                        listed |-> req[r].listed \ {item}]]
  /\ NoFault /\ UNCHANGED <<table, host, hurt>>

-----------------------------------------------------------------------------
(* provisionManagedRedis *)
WriteConf(r) ==
  /\ req[r].pc = "conf"
  /\ \/ /\ conf' = [conf EXCEPT ![req[r].id] = req[r].row]
        /\ GoTo(r, "unit") /\ NoFault /\ UNCHANGED hurt
     \/ Fault /\ Broken(r) /\ UNCHANGED conf
  /\ UNCHANGED <<table, unit, enabled, services, active, serving>>

\* The error of the entry on the services page is ignored.
InstallUnit(r) ==
  /\ req[r].pc = "unit"
  /\ \/ /\ unit' = [unit EXCEPT ![req[r].id] = TRUE] /\ GoTo(r, "enable") /\ UNCHANGED hurt
        /\ \/ services' = [services EXCEPT ![req[r].id] = "on"] /\ NoFault
           \/ Fault /\ UNCHANGED services
     \/ /\ Fault /\ Broken(r) /\ UNCHANGED services
        /\ unit' \in {unit, [unit EXCEPT ![req[r].id] = TRUE]}
  /\ UNCHANGED <<table, conf, enabled, active, serving>>

EnableUnit(r) ==
  /\ req[r].pc = "enable"
  /\ LET on == [enabled EXCEPT ![req[r].id] = TRUE]
     IN \/ unit[req[r].id] /\ enabled' = on /\ GoTo(r, "start") /\ NoFault /\ UNCHANGED hurt
        \/ ~unit[req[r].id] /\ Broken(r) /\ NoFault /\ UNCHANGED enabled
        \/ Fault /\ Broken(r) /\ enabled' \in {enabled, on}
  /\ UNCHANGED <<table, conf, unit, services, active, serving>>

\* systemctl start, which leaves an active unit as it is.
StartUnit(r) ==
  /\ req[r].pc = "start"
  /\ LET up == [active EXCEPT ![req[r].id] = TRUE]
     IN \/ /\ unit[req[r].id] /\ active' = up /\ NoFault /\ hurt' = hurt \ {req[r].id}
           /\ IF req[r].op = "reconcile" THEN GoTo(r, "next") ELSE Finish(r, "ok")
        \/ ~unit[req[r].id] /\ Broken(r) /\ NoFault /\ UNCHANGED active
        \/ Fault /\ Broken(r) /\ active' \in {active, up}
  /\ UNCHANGED <<table, conf, unit, enabled, services, serving>>

-----------------------------------------------------------------------------
(* DeleteRedis, DeleteRedisRecord: deprovisionManagedRedis and the row. *)
BeginDelete(r) ==
  /\ Idle(r)
  /\ \E i \in Known : /\ Start(r, "delete", "stop", i, rows[i], {})
                      /\ hurt' = hurt \ {i}

Down(i) == /\ active' = [active EXCEPT ![i] = FALSE]
           /\ serving' = [serving EXCEPT ![i] = None]
\* Mutant: the unit is not stopped before its file goes.
StopSkipped(r) ==
  req[r].pc = "stop" /\ GoTo(r, "disable") /\ NoFault /\ UNCHANGED <<table, host, hurt>>
\* The errors of stop, disable and the entry's deletion are ignored.
StopUnit(r) ==
  /\ req[r].pc = "stop" /\ GoTo(r, "disable")
  /\ \/ Down(req[r].id) /\ NoFault /\ UNCHANGED hurt
     \/ Fault /\ Hurt(r) /\ (Down(req[r].id) \/ UNCHANGED <<active, serving>>)
  /\ UNCHANGED <<table, conf, unit, enabled, services>>

DisableUnit(r) ==
  /\ req[r].pc = "disable" /\ GoTo(r, "forget")
  /\ \/ enabled' = [enabled EXCEPT ![req[r].id] = FALSE] /\ NoFault
     \/ Fault /\ UNCHANGED enabled
  /\ UNCHANGED <<table, conf, unit, services, active, serving, hurt>>

ForgetService(r) ==
  /\ req[r].pc = "forget" /\ GoTo(r, "unlink")
  /\ \/ services' = [services EXCEPT ![req[r].id] = "none"] /\ NoFault
     \/ Fault /\ UNCHANGED services
  /\ UNCHANGED <<table, conf, unit, enabled, active, serving, hurt>>

RemoveUnitFile(r) ==
  /\ req[r].pc = "unlink"
  /\ \/ /\ unit' = [unit EXCEPT ![req[r].id] = FALSE] /\ GoTo(r, "tree")
        /\ NoFault /\ UNCHANGED hurt
     \/ Fault /\ Finish(r, "failed") /\ Hurt(r) /\ UNCHANGED unit
  /\ UNCHANGED <<table, conf, enabled, services, active, serving>>

RemoveTree(r) ==
  /\ req[r].pc = "tree"
  /\ LET gone == [conf EXCEPT ![req[r].id] = None]
     IN \/ conf' = gone /\ GoTo(r, "remove") /\ NoFault /\ UNCHANGED hurt
        \/ Fault /\ Finish(r, "failed") /\ Hurt(r) /\ conf' \in {conf, gone}
  /\ UNCHANGED <<table, unit, enabled, services, active, serving>>

RemoveRow(r) ==
  /\ req[r].pc = "remove"
  /\ \/ /\ rows' = [rows EXCEPT ![req[r].id] = None] /\ Finish(r, "ok")
        /\ NoFault /\ UNCHANGED hurt
     \/ Fault /\ Finish(r, "failed") /\ Hurt(r) /\ UNCHANGED rows
  /\ UNCHANGED <<nextId, host>>

-----------------------------------------------------------------------------
(* The services page: actions on a unit it lists. *)
Command(i) == services[i] # "none" /\ (Overlapping \/ Quiet)
Done == NoFault /\ UNCHANGED hurt
Kept == UNCHANGED <<table, conf, unit, req>>
StopAction(i)    == Command(i) /\ Down(i) /\ Done /\ Kept /\ UNCHANGED <<enabled, services>>
StartAction(i)   == /\ Command(i) /\ unit[i]
                    /\ active' = [active EXCEPT ![i] = TRUE]
                    /\ Done /\ Kept /\ UNCHANGED <<enabled, services, serving>>
RestartAction(i) == /\ Command(i) /\ unit[i]
                    /\ active' = [active EXCEPT ![i] = TRUE]
                    /\ serving' = [serving EXCEPT ![i] = None]
                    /\ Done /\ Kept /\ UNCHANGED <<enabled, services>>
\* The error of the entry's update is ignored.
Mark(i, state) == \/ services' = [services EXCEPT ![i] = state] /\ Done
                  \/ Fault /\ hurt' = hurt \cup {i} /\ UNCHANGED services
EnableAction(i)  == /\ Command(i) /\ unit[i]
                    /\ enabled' = [enabled EXCEPT ![i] = TRUE] /\ Mark(i, "on")
                    /\ Kept /\ UNCHANGED <<active, serving>>
DisableAction(i) == /\ Command(i)
                    /\ enabled' = [enabled EXCEPT ![i] = FALSE] /\ Mark(i, "off")
                    /\ Kept /\ UNCHANGED <<active, serving>>
ForgetAction(i)  == /\ Command(i) /\ services' = [services EXCEPT ![i] = "none"]
                    /\ Done /\ Kept /\ UNCHANGED <<enabled, active, serving>>

(* The host. *)
\* The process of an active unit reads its configuration and listens, once it can.
Bind(i) ==
  /\ active[i] /\ serving[i] = None /\ conf[i] # None
  /\ ~Busy(conf[i].port)
  /\ serving' = [serving EXCEPT ![i] = conf[i]]
  /\ NoFault /\ UNCHANGED <<table, conf, unit, enabled, services, active, req, hurt>>

\* The process ends, and the unit, which is always restarted, stays active.
Die(i) ==
  /\ serving[i] # None /\ Fault
  /\ serving' = [serving EXCEPT ![i] = None]
  /\ UNCHANGED <<table, conf, unit, enabled, services, active, req, hurt>>

Lost == /\ req' = [r \in Requests |-> NoReq]
        /\ hurt' = hurt \cup ({req[r].id : r \in Requests} \ {None})
\* The panel dies.
Crash == ~Quiet /\ Fault /\ Lost /\ UNCHANGED <<table, host>>
\* The host starts anew.
Reboot ==
  /\ Fault /\ Lost
  /\ active'  = [i \in Ids |-> unit[i] /\ enabled[i]]
  /\ serving' = [i \in Ids |-> None]
  /\ UNCHANGED <<table, conf, unit, enabled, services>>

-----------------------------------------------------------------------------
Init ==
  /\ rows = [i \in Ids |-> None] /\ nextId = 1
  /\ conf = [i \in Ids |-> None] /\ serving = [i \in Ids |-> None]
  /\ unit = [i \in Ids |-> FALSE] /\ enabled = [i \in Ids |-> FALSE]
  /\ active = [i \in Ids |-> FALSE] /\ services = [i \in Ids |-> "none"]
  /\ req = [r \in Requests |-> NoReq]
  /\ failures = 0 /\ hurt = {}

Begin(r) == \/ NotFound(r) \/ BeginCreate(r) \/ BeginPassword(r)
            \/ BeginDelete(r) \/ BeginReconcile(r)
Provision(r) == WriteConf(r) \/ InstallUnit(r) \/ EnableUnit(r) \/ StartUnit(r)
Remove(r) == \/ StopUnit(r) \/ DisableUnit(r) \/ ForgetService(r)
             \/ RemoveUnitFile(r) \/ RemoveTree(r) \/ RemoveRow(r)
Page(i) == \/ StopAction(i) \/ StartAction(i) \/ RestartAction(i)
           \/ EnableAction(i) \/ DisableAction(i) \/ ForgetAction(i)
Next ==
  \/ \E r \in Requests : \/ Begin(r) \/ InsertRow(r) \/ UndoCreate(r) \/ SaveRow(r)
                         \/ NextRow(r) \/ Provision(r) \/ Remove(r)
  \/ \E i \in Ids : Page(i) \/ Bind(i) \/ Die(i)
  \/ Crash \/ Reboot
Spec == Init /\ [][Next]_vars

-----------------------------------------------------------------------------
HoldsRow(r) ==
  /\ req[r].pc = "insert" => req[r].row # None
  /\ req[r].pc \in Provisioning \cup Removing \cup {"save"} =>
       req[r].id # None /\ req[r].row # None
  /\ req[r].pc = "undo" => req[r].id # None
\* The tables, the host and the requests are of the types of models.RedisConnection and
\* models.ManagedService; a request that provisions or removes an instance holds its row,
\* and only an active unit has a process that listens.
TypeOK ==
  /\ rows \in [Ids -> Row \cup {None}] /\ nextId \in 1..(MaxRows + 1)
  /\ conf \in [Ids -> Row \cup {None}] /\ serving \in [Ids -> Row \cup {None}]
  /\ unit \in [Ids -> BOOLEAN] /\ enabled \in [Ids -> BOOLEAN] /\ active \in [Ids -> BOOLEAN]
  /\ services \in [Ids -> {"none", "on", "off"}]
  /\ req \in [Requests -> RequestStates] /\ \A r \in Requests : HoldsRow(r)
  /\ failures \in 0..MaxFailures /\ hurt \subseteq Ids
  /\ \A i \in Ids : serving[i] # None => active[i]

InHand(i) == \E r \in Requests : req[r].id = i
\* Every connection of the panel has its configuration, rendered from the row as it is now,
\* and its unit, which starts at boot where the services page says so, unless a handler is
\* at it or a failure cut one short.
RowsProvisioned ==
  \A i \in Known : \/ InHand(i) \/ i \in hurt
                   \/ /\ conf[i] = rows[i] /\ unit[i]
                      /\ services[i] = "on" => enabled[i]

\* Whatever runs or is configured on the host belongs to a connection of the panel, unless a
\* handler is at it or a failure cut one short: a deletion leaves no process behind.
InstancesOwned ==
  \A i \in Ids : active[i] \/ unit[i] \/ conf[i] # None =>
    i \in Known \/ InHand(i) \/ i \in hurt

\* The table and the host agree both ways.
InstancesMatchRows == RowsProvisioned /\ InstancesOwned

\* No two connections have the same database number ("keeps DB numbering and ports unique").
NumbersDistinct ==
  \A i, j \in Known : i # j => rows[i].number # rows[j].number

\* A reconciliation that reports success leaves every connection provisioned from its row,
\* enabled and started, whatever failed, crashed or was switched off before it.
ReconcileRestores ==
  [][\A r \in Requests :
       req[r].op = "reconcile" /\ req'[r].pc = "ok" =>
         \A i \in Known : conf[i] = rows[i] /\ unit[i] /\ enabled[i] /\ active[i]]_vars
=============================================================================

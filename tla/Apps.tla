-------------------------------- MODULE Apps --------------------------------
(***************************************************************************)
(* The application runtimes of DeployCP: a platform whose row has a         *)
(* runtime, the systemd unit that runs it, the sudo rules of its users and  *)
(* the port nginx proxies to (AppService in                                 *)
(* src/internal/services/app_service.go, RemoveRuntime and ApplyAppProxy in *)
(* website_service.go).                                                     *)
(*                                                                          *)
(* The port is looked up in the table and probed on the host, the row is    *)
(* written first, and the host follows step by step.  The name of the unit  *)
(* comes from the name of the platform when the runtime is made; it is      *)
(* compared with nothing and never changes again.                           *)
(***************************************************************************)
EXTENDS Integers, FiniteSets

CONSTANTS
  AppSites, AppServices, AppPorts,
  BindHosts,
  Wildcards,      \* hosts that stand for every address: 0.0.0.0 and ::
  Asked,          \* the forms operators send for each site
  Settings,       \* the runtime settings they send for each site
  ForeignPorts,   \* ports other programs listen on
  AppRequests,    \* handlers that may be running
  AppOverlapping, \* may requests be in flight together?
  MaxAppFailures, \* bound on failing calls, dying processes, crashes and reboots
  NoApp, NoPort

Binding == [host : BindHosts, port : AppPorts]
\* `argued`: gunicorn and uwsgi are given the port as an argument.
AppRow == [service : AppServices, bind : Binding, env : AppPorts \cup {NoPort},
           argued : BOOLEAN, enabled : BOOLEAN]

ASSUME AppsAssumption ==
  /\ MaxAppFailures \in Nat /\ AppOverlapping \in BOOLEAN
  /\ Wildcards \subseteq BindHosts /\ ForeignPorts \subseteq AppPorts
  /\ Asked \in [AppSites -> SUBSET AppRow]
  /\ Settings \in [AppSites -> SUBSET [port : AppPorts, argued : BOOLEAN]]
  /\ NoApp \notin AppRow \cup AppSites /\ NoPort \notin AppPorts

VARIABLES
  apps,        \* table platforms: the runtime of each site, or none
  units,       \* unit files: the port each one tells its process to listen on
  running,     \* the port of each process, or none
  boot,        \* units systemd starts at boot
  managed,     \* table managed_services
  sudoers,     \* files in /etc/sudoers.d: the users of which site, for which service
  proxies,     \* the port nginx proxies each site to
  appReq,      \* each request: where it is and the row it holds in memory
  appFailures,
  cutApps,     \* sites a failure or a crash left half-way
  leftServices,\* services a step of a removal failed on
  contested    \* services two sites have had at once

appHost   == <<units, running, boot, sudoers, proxies>>
appGhosts == <<cutApps, leftServices, contested>>
appVars == <<apps, units, running, boot, managed, sudoers, proxies, appReq, appFailures,
             cutApps, leftServices, contested>>

Installing == {"record", "proxy", "unit", "sudoers", "enable", "start", "apply"}
Removing   == {"stop", "disable", "unsudo", "unmanage", "ununit", "clear", "refresh"}
NoAppReq == [pc |-> "idle", op |-> "none", site |-> NoApp, row |-> NoApp]
AppRequestStates ==
  [pc : {"idle"} \cup Installing \cup Removing,
   op : {"none", "create", "update", "settings", "reconcile", "remove", "delete"},
   site : AppSites \cup {NoApp}, row : AppRow \cup {NoApp}]

-----------------------------------------------------------------------------
Hosted    == {s \in AppSites : apps[s] # NoApp}
AppFault  == appFailures < MaxAppFailures /\ appFailures' = appFailures + 1
AppWorks  == UNCHANGED appFailures
AppIdle(r) == /\ appReq[r].pc = "idle"
              /\ AppOverlapping \/ \A q \in AppRequests : appReq[q].pc = "idle"
AppStart(r, op, pc, s, row) ==
  /\ AppIdle(r)
  /\ appReq' = [appReq EXCEPT ![r] = [pc |-> pc, op |-> op, site |-> s, row |-> row]]
  /\ AppWorks /\ UNCHANGED <<apps, managed, appHost, appGhosts>>
AppGoTo(r, pc) == appReq' = [appReq EXCEPT ![r].pc = pc]
AppFinish(r) == appReq' = [appReq EXCEPT ![r] = NoAppReq]

\* An error ends the handler, but a creation undoes what it did (rollbackFailedCreate).
AppBreaks(r) ==
  /\ AppFault
  /\ IF appReq[r].op = "create" /\ appReq[r].pc \in Installing \ {"record"}
     THEN AppGoTo(r, "stop") /\ UNCHANGED cutApps
     ELSE AppFinish(r) /\ cutApps' = cutApps \cup {appReq[r].site}
  /\ UNCHANGED <<leftServices, contested>>

-----------------------------------------------------------------------------
(* What the panel checks *)
\* A form that is refused changes nothing.
AppRefused(r) == AppIdle(r) /\ UNCHANGED appVars

Conflict(a, b) == /\ a.port = b.port
                  /\ a.host = b.host \/ a.host \in Wildcards \/ b.host \in Wildcards
\* Mutant: a wildcard address conflicts with nothing but itself.
BindingUnlisted(s, b) == \A t \in Hosted \ {s} : apps[t].bind # b
BindingFree(s, b) == \A t \in Hosted \ {s} : ~Conflict(apps[t].bind, b)
PortOccupied(p) == p \in ForeignPorts \/ \E v \in AppServices : running[v] = p
\* ensurePortAvailable: the host is not asked about the binding the site has already.
Available(s, b, same) == BindingFree(s, b) /\ (same \/ ~PortOccupied(b.port))

\* A runtime for a site that has none.  The service is named after the domain it has now,
\* and the form of a linked runtime puts its port in the environment, too.
BeginApp(r) ==
  \E s \in AppSites \ Hosted : \E row \in Asked[s] :
    Available(s, row.bind, FALSE) /\ AppStart(r, "create", "record", s, row)
\* Update: everything but the name of the service may change.
BeginAppUpdate(r) ==
  \E s \in Hosted : \E form \in Asked[s] :
    LET row == [form EXCEPT !.service = apps[s].service]
    IN  /\ Available(s, row.bind, row.bind = apps[s].bind)
        /\ AppStart(r, "update", "record", s, row)
\* UpdateRuntimeSettings: the port and the process manager change, the environment stays.
BeginAppSettings(r) ==
  \E s \in Hosted : \E new \in Settings[s] :
    LET row == [apps[s] EXCEPT !.bind.port = new.port, !.argued = new.argued]
    IN  /\ Available(s, row.bind, row.bind = apps[s].bind)
        /\ AppStart(r, "settings", "record", s, row)
BeginAppReconcile(r) == \E s \in Hosted : AppStart(r, "reconcile", "proxy", s, apps[s])

-----------------------------------------------------------------------------
(* installService and what comes before it *)
\* A running process holds the port its unit had when it started.
\* PORT of the environment wins over the port of the row (serviceRuntimeEnv), unless the
\* process manager is given that of the row (buildAppServiceDefinition).
PortOf(row) == IF row.argued \/ row.env = NoPort THEN row.bind.port ELSE row.env
\* The unit of a row, and the rule for the users of its site.
Written(row) == [units EXCEPT ![row.service] = PortOf(row)]
RuleOf(r) == <<appReq[r].site, appReq[r].row.service>>

RecordApp(r) ==
  /\ appReq[r].pc = "record"
  /\ LET s == appReq[r].site
         row == appReq[r].row
         others == {apps[t].service : t \in Hosted \ {s}}
     IN  \/ /\ apps' = [apps EXCEPT ![s] = IF @ = NoApp /\ appReq[r].op # "create" THEN NoApp
                                           ELSE row]
            /\ contested' = IF row.service \in others THEN contested \cup {row.service}
                            ELSE contested
            /\ AppGoTo(r, "proxy") /\ AppWorks /\ UNCHANGED <<cutApps, leftServices>>
         \/ AppBreaks(r) /\ UNCHANGED apps
  /\ UNCHANGED <<managed, appHost>>

ProxyApp(r) ==
  /\ appReq[r].pc = "proxy"
  /\ \/ /\ proxies' = [proxies EXCEPT ![appReq[r].site] = appReq[r].row.bind.port]
        /\ AppGoTo(r, "unit") /\ AppWorks /\ UNCHANGED appGhosts
     \/ AppBreaks(r) /\ UNCHANGED proxies
  /\ UNCHANGED <<apps, managed, units, running, boot, sudoers>>

\* Writes the unit, verifies it and reloads systemd; a refused unit stays.
\* The row of managed_services follows, and its error is ignored.
InstallUnit(r) ==
  /\ appReq[r].pc = "unit"
  /\ LET v == appReq[r].row.service
         written == Written(appReq[r].row)
     IN  \/ /\ units' = written /\ AppGoTo(r, "sudoers")
            /\ \/ managed' = managed \cup {v} /\ AppWorks /\ UNCHANGED appGhosts
               \/ /\ managed' = managed /\ AppFault /\ cutApps' = cutApps \cup {appReq[r].site}
                  /\ UNCHANGED <<leftServices, contested>>
         \/ units' \in {units, written} /\ AppBreaks(r) /\ UNCHANGED managed
  /\ UNCHANGED <<apps, running, boot, sudoers, proxies>>

\* A file visudo refuses is removed again.
WriteSudoers(r) ==
  /\ appReq[r].pc = "sudoers"
  /\ LET rule == RuleOf(r)
     IN  \/ /\ sudoers' = sudoers \cup {rule}
            /\ IF appReq[r].row.enabled THEN AppGoTo(r, "enable") ELSE AppFinish(r)
            /\ AppWorks /\ UNCHANGED appGhosts
         \/ sudoers' \in {sudoers, sudoers \ {rule}} /\ AppBreaks(r)
  /\ UNCHANGED <<apps, managed, units, running, boot, proxies>>

EnableUnit(r) ==
  /\ appReq[r].pc = "enable"
  /\ \/ /\ boot' = boot \cup {appReq[r].row.service}
        /\ AppGoTo(r, "start") /\ AppWorks /\ UNCHANGED appGhosts
     \/ AppBreaks(r) /\ UNCHANGED boot
  /\ UNCHANGED <<apps, managed, units, running, sudoers, proxies>>

\* systemctl start does nothing to a unit that is active.
Started(v) == [running EXCEPT ![v] = IF @ = NoPort THEN units[v] ELSE @]
StartUnit(r) ==
  /\ appReq[r].pc = "start"
  /\ LET v == appReq[r].row.service
     IN  \/ /\ running' = Started(v)
            /\ IF appReq[r].op = "settings" THEN AppGoTo(r, "apply") ELSE AppFinish(r)
            /\ AppWorks /\ UNCHANGED appGhosts
         \/ AppBreaks(r) /\ UNCHANGED running
  /\ UNCHANGED <<apps, managed, units, boot, sudoers, proxies>>

Restarted(v) == [running EXCEPT ![v] = units[v]]
\* Restart, or a stop whose error is ignored and a start.
ApplySettings(r) ==
  /\ appReq[r].pc = "apply"
  /\ LET v == appReq[r].row.service
     IN  \/ running' = Restarted(v) /\ AppFinish(r) /\ AppWorks /\ UNCHANGED appGhosts
         \/ running' \in {running, [running EXCEPT ![v] = NoPort]} /\ AppBreaks(r)
         \/ /\ running' = Started(v) /\ AppFinish(r)
            /\ AppFault /\ cutApps' = cutApps \cup {appReq[r].site}
            /\ UNCHANGED <<leftServices, contested>>
  /\ UNCHANGED <<apps, managed, units, boot, sudoers, proxies>>

-----------------------------------------------------------------------------
(* RemoveRuntime, the deletion of the platform, and the undo of a creation *)
BeginAppRemoval(r) ==
  \E s \in Hosted, op \in {"remove", "delete"} : AppStart(r, op, "stop", s, apps[s])

\* The undo ignores every error; a removal stops at those that are not its first two.
Lenient(r) == appReq[r].op = "create" \/ appReq[r].pc \in {"stop", "disable"}
RemovalStep(r, next) ==
  AppGoTo(r, next) /\ AppWorks /\ UNCHANGED appGhosts
RemovalFails(r, next) ==
  /\ AppFault
  /\ leftServices' = leftServices \cup {appReq[r].row.service} /\ UNCHANGED contested
  /\ IF Lenient(r) THEN AppGoTo(r, next) /\ UNCHANGED cutApps
     ELSE AppFinish(r) /\ cutApps' = cutApps \cup {appReq[r].site}

StopUnit(r) ==
  /\ appReq[r].pc = "stop"
  /\ \/ /\ running' = [running EXCEPT ![appReq[r].row.service] = NoPort]
        /\ RemovalStep(r, "disable")
     \/ RemovalFails(r, "disable") /\ UNCHANGED running
  /\ UNCHANGED <<apps, managed, units, boot, sudoers, proxies>>
DisableUnit(r) ==
  /\ appReq[r].pc = "disable"
  /\ \/ boot' = boot \ {appReq[r].row.service} /\ RemovalStep(r, "unsudo")
     \/ RemovalFails(r, "unsudo") /\ UNCHANGED boot
  /\ UNCHANGED <<apps, managed, units, running, sudoers, proxies>>
RemoveSudoers(r) ==
  /\ appReq[r].pc = "unsudo"
  /\ \/ /\ sudoers' = sudoers \ {RuleOf(r)}
        /\ RemovalStep(r, "unmanage")
     \/ RemovalFails(r, "unmanage") /\ UNCHANGED sudoers
  /\ UNCHANGED <<apps, managed, units, running, boot, proxies>>
Unmanage(r) ==
  /\ appReq[r].pc = "unmanage"
  /\ \/ managed' = managed \ {appReq[r].row.service} /\ RemovalStep(r, "ununit")
     \/ RemovalFails(r, "ununit") /\ UNCHANGED managed
  /\ UNCHANGED <<apps, appHost>>
RemoveUnit(r) ==
  /\ appReq[r].pc = "ununit"
  /\ \/ /\ units' = [units EXCEPT ![appReq[r].row.service] = NoPort]
        /\ RemovalStep(r, "clear")
     \/ RemovalFails(r, "clear") /\ UNCHANGED units
  /\ UNCHANGED <<apps, managed, running, boot, sudoers, proxies>>

\* The runtime leaves the row, or the whole row goes, its virtual host with it.
ClearApp(r) ==
  /\ appReq[r].pc = "clear"
  /\ \/ /\ apps' = [apps EXCEPT ![appReq[r].site] = NoApp]
        /\ IF appReq[r].op = "delete"
           THEN proxies' = [proxies EXCEPT ![appReq[r].site] = NoPort] /\ AppFinish(r)
           ELSE AppGoTo(r, "refresh") /\ UNCHANGED proxies
        /\ AppWorks /\ UNCHANGED <<leftServices, contested>>
        /\ cutApps' = cutApps \ {appReq[r].site}
     \/ /\ AppFault /\ AppFinish(r) /\ cutApps' = cutApps \cup {appReq[r].site}
        /\ UNCHANGED <<apps, proxies, leftServices, contested>>
  /\ UNCHANGED <<managed, units, running, boot, sudoers>>
RefreshProxy(r) ==
  /\ appReq[r].pc = "refresh"
  /\ AppFinish(r)
  /\ \/ /\ proxies' = [proxies EXCEPT ![appReq[r].site] = NoPort] /\ AppWorks
        /\ UNCHANGED cutApps
     \/ AppFault /\ UNCHANGED proxies /\ cutApps' = cutApps \cup {appReq[r].site}
  /\ UNCHANGED <<apps, managed, units, running, boot, sudoers, leftServices, contested>>

-----------------------------------------------------------------------------
(* Action, and what the host does by itself *)
ServiceAction(r) ==
  /\ AppIdle(r)
  /\ \E s \in Hosted :
       LET v == apps[s].service
       IN  \/ running' \in {Started(v), Restarted(v)} /\ UNCHANGED boot
           \/ running' = [running EXCEPT ![v] = NoPort] /\ UNCHANGED boot
           \/ boot' \in {boot \cup {v}, boot \ {v}} /\ UNCHANGED running
  /\ AppFinish(r) /\ AppWorks
  /\ UNCHANGED <<apps, units, managed, sudoers, proxies, appGhosts>>

\* A process ends; its restart policy may start the unit it has now.
ProcessEnds ==
  /\ AppFault
  /\ \E v \in AppServices :
       /\ running[v] # NoPort
       /\ running' \in {[running EXCEPT ![v] = NoPort], Restarted(v)}
  /\ UNCHANGED <<apps, units, boot, managed, sudoers, proxies, appReq, appGhosts>>

\* The panel dies, or the host with it.
AppCrash ==
  LET lost == {r \in AppRequests : appReq[r].pc # "idle"}
  IN  /\ lost # {} /\ AppFault
      /\ appReq' = [r \in AppRequests |-> NoAppReq]
      /\ cutApps' = cutApps \cup {appReq[r].site : r \in lost}
      /\ leftServices' = leftServices \cup {appReq[r].row.service : r \in lost}
      /\ running' \in {running, [v \in AppServices |-> IF v \in boot THEN units[v] ELSE NoPort]}
      /\ UNCHANGED <<apps, units, boot, managed, sudoers, proxies, contested>>

-----------------------------------------------------------------------------
AppsInit ==
  /\ apps = [s \in AppSites |-> NoApp]
  /\ units = [v \in AppServices |-> NoPort] /\ running = [v \in AppServices |-> NoPort]
  /\ boot = {} /\ managed = {} /\ sudoers = {}
  /\ proxies = [s \in AppSites |-> NoPort]
  /\ appReq = [r \in AppRequests |-> NoAppReq]
  /\ appFailures = 0 /\ cutApps = {} /\ leftServices = {} /\ contested = {}

AppStep(r) ==
  \/ AppRefused(r) \/ BeginApp(r) \/ BeginAppUpdate(r) \/ BeginAppSettings(r)
  \/ BeginAppReconcile(r) \/ RecordApp(r) \/ ProxyApp(r) \/ InstallUnit(r)
  \/ WriteSudoers(r) \/ EnableUnit(r) \/ StartUnit(r) \/ ApplySettings(r)
  \/ BeginAppRemoval(r) \/ StopUnit(r) \/ DisableUnit(r) \/ RemoveSudoers(r)
  \/ Unmanage(r) \/ RemoveUnit(r) \/ ClearApp(r) \/ RefreshProxy(r) \/ ServiceAction(r)
AppsNext == ProcessEnds \/ AppCrash \/ \E r \in AppRequests : AppStep(r)
AppsSpec == AppsInit /\ [][AppsNext]_appVars

-----------------------------------------------------------------------------
(* Properties *)

AppsTypeOK ==
  /\ apps \in [AppSites -> AppRow \cup {NoApp}]
  /\ units \in [AppServices -> AppPorts \cup {NoPort}]
  /\ running \in [AppServices -> AppPorts \cup {NoPort}]
  /\ boot \subseteq AppServices /\ managed \subseteq AppServices
  /\ sudoers \subseteq AppSites \X AppServices
  /\ proxies \in [AppSites -> AppPorts \cup {NoPort}]
  /\ appReq \in [AppRequests -> AppRequestStates]
  /\ appFailures \in 0..MaxAppFailures
  /\ cutApps \subseteq AppSites
  /\ leftServices \subseteq AppServices /\ contested \subseteq AppServices

AtApp(s) == \E r \in AppRequests : appReq[r].site = s
\* What the panel shows of a runtime is what the host has: its unit, the users' sudo rules,
\* the row of the services page and nginx's proxy are those of the row (installService,
\* ApplyAppProxy), unless a request is at it, a failure cut one short, or two sites have
\* had one service.
AppsInstalled ==
  \A s \in Hosted : ~AtApp(s) /\ s \notin cutApps /\ apps[s].service \notin contested =>
    LET v == apps[s].service
    IN  /\ units[v] = PortOf(apps[s]) /\ v \in managed
        /\ <<s, v>> \in sudoers /\ proxies[s] = apps[s].bind.port

\* Nothing of a runtime outlives it: a unit, a process, a rule or a row that is left is that
\* of a site, of a request in flight, or of a removal that failed (AppService.Delete,
\* deleteLinkedAppRuntime, rollbackFailedCreate).
AppsOwned ==
  \A v \in AppServices :
    \/ v \in leftServices \cup contested
    \/ \E s \in Hosted : apps[s].service = v
    \/ \E r \in AppRequests : appReq[r].row # NoApp /\ appReq[r].row.service = v
    \/ /\ units[v] = NoPort /\ running[v] = NoPort /\ v \notin boot /\ v \notin managed
       /\ \A s \in AppSites : <<s, v>> \notin sudoers

\* No two runtimes are given bindings that cannot both be listened on (ensurePortAvailable).
BindingsDistinct == \A s, t \in Hosted : s # t => ~Conflict(apps[s].bind, apps[t].bind)

\* The panel and the host agree both ways, and the bindings do not conflict.
AppsKept == AppsInstalled /\ AppsOwned /\ BindingsDistinct
=============================================================================

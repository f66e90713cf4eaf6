------------------------------ MODULE AppsProofs ------------------------------
(***************************************************************************)
(* Proofs about the application runtimes (Apps): when requests take turns,  *)
(* the rows of the runtimes and what is installed for them agree both ways, *)
(* for any sites, services, ports, forms, failures, deaths of the panel and *)
(* reboots.                                                                 *)
(***************************************************************************)
EXTENDS Apps, TLAPS

-----------------------------------------------------------------------------
(* What a request has done to the host, at each of its steps.               *)

AppTurns ==
  \A r, q \in AppRequests : appReq[r].pc # "idle" /\ appReq[q].pc # "idle" => r = q

Excused(v) == v \in leftServices \cup contested
NothingOf(v) ==
  /\ units[v] = NoPort /\ running[v] = NoPort /\ v \notin boot /\ v \notin managed
  /\ \A s \in AppSites : <<s, v>> \notin sudoers
\* A form that was accepted: its row is not in the table yet.
Recording(r) ==
  LET s   == appReq[r].site
      row == appReq[r].row
  IN  /\ s \in AppSites /\ row \in AppRow /\ BindingFree(s, row.bind)
      /\ \/ appReq[r].op = "create" /\ s \notin Hosted
         \/ appReq[r].op \in {"update",
           "settings"} /\ s \in Hosted /\ row.service = apps[s].service

\* The host follows the row, step by step.
OnHost(r) ==
  LET s   == appReq[r].site
      row == appReq[r].row
  IN  /\ appReq[r].op \in {"create", "update", "settings", "reconcile"}
      /\ s \in AppSites /\ row \in AppRow /\ apps[s] = row
      /\ appReq[r].pc # "proxy" => proxies[s] = row.bind.port
      /\ appReq[r].pc \notin {"proxy", "unit"} =>
           units[row.service] = PortOf(row) /\ (row.service \in managed \/ s \in cutApps)
      /\ appReq[r].pc \in {"enable", "start", "apply"} => <<s, row.service>> \in sudoers

\* What is gone already of a runtime that is removed.
Undone(r) ==
  LET s == appReq[r].site
      v == appReq[r].row.service
  IN  /\ appReq[r].pc # "stop" => running[v] = NoPort
      /\ appReq[r].pc \notin {"stop", "disable"} => v \notin boot
      /\ appReq[r].pc \in {"unmanage", "ununit", "clear"} => <<s, v>> \notin sudoers
      /\ appReq[r].pc \in {"ununit", "clear"} => v \notin managed
      /\ appReq[r].pc = "clear" => units[v] = NoPort
Clearing(r) ==
  /\ appReq[r].op \in {"create", "remove", "delete"}
  /\ appReq[r].site \in AppSites /\ appReq[r].row \in AppRow
  /\ apps[appReq[r].site] = appReq[r].row
  /\ appReq[r].row.service \in leftServices \/ Undone(r)
Refreshing(r) == appReq[r].site \in AppSites \ Hosted /\ appReq[r].row \in AppRow

AppStage(r) ==
  /\ appReq[r].pc = "idle" => appReq[r] = NoAppReq
  /\ appReq[r].pc = "record" => Recording(r)
  /\ appReq[r].pc \in Installing \ {"record"} => OnHost(r)
  /\ appReq[r].pc \in Removing \ {"refresh"} => Clearing(r)
  /\ appReq[r].pc = "refresh" => Refreshing(r)
AppStages == \A r \in AppRequests : AppStage(r)

\* The rows: services differ or are known to be contested, and bindings do not conflict.
AppRowsFit ==
  \A s, t \in Hosted : s # t =>
    /\ apps[s].service = apps[t].service => apps[s].service \in contested
    /\ ~Conflict(apps[s].bind, apps[t].bind)

\* What is on the host is a row's, or something failed on it.
AppOwned ==
  /\ \A v \in AppServices :
       Excused(v) \/ NothingOf(v) \/ \E s \in Hosted : apps[s].service = v
  /\ \A rule \in sudoers :
       Excused(rule[2]) \/ (rule[1] \in Hosted /\ apps[rule[1]].service = rule[2])

AppInv == AppsTypeOK /\ AppTurns /\ AppStages /\ AppRowsFit /\ AppOwned /\ AppsInstalled

-----------------------------------------------------------------------------
(* One request is under way at most: the invariant as that request sees it. *)

Typed ==
  /\ apps \in [AppSites -> AppRow \cup {NoApp}]
  /\ units \in [AppServices -> AppPorts \cup {NoPort}]
  /\ running \in [AppServices -> AppPorts \cup {NoPort}]
  /\ boot \subseteq AppServices /\ managed \subseteq AppServices
  /\ sudoers \subseteq AppSites \X AppServices
  /\ proxies \in [AppSites -> AppPorts \cup {NoPort}]
  /\ cutApps \subseteq AppSites
  /\ leftServices \subseteq AppServices /\ contested \subseteq AppServices
AppNumbered == appFailures \in 0..MaxAppFailures
Pending == appReq \in [AppRequests -> AppRequestStates]
OnlyApp(r) == \A q \in AppRequests \ {r} : appReq[q] = NoAppReq
Kept(s) ==
  s \notin cutApps /\ apps[s].service \notin contested =>
    LET v == apps[s].service
    IN  /\ units[v] = PortOf(apps[s]) /\ v \in managed
        /\ <<s, v>> \in sudoers /\ proxies[s] = apps[s].bind.port
AppSettled(r) == \A s \in Hosted : s # appReq[r].site => Kept(s)
AppView(r) ==
  /\ Typed /\ AppNumbered /\ Pending /\ OnlyApp(r) /\ AppStage(r) /\ AppRowsFit /\ AppOwned
  /\ AppSettled(r)

AppPcs == {"idle"} \cup Installing \cup Removing
LEMMA NoAppRequest ==
  /\ NoAppReq \in AppRequestStates /\ NoAppReq.pc = "idle" /\ NoAppReq.op = "none"
  /\ NoAppReq.site = NoApp /\ NoAppReq.row = NoApp
BY DEF NoAppReq, AppRequestStates

LEMMA AppRowParts ==
  /\ \A row \in AppRow :
       /\ row # NoApp /\ row.service \in AppServices /\ row.bind.port \in AppPorts
       /\ PortOf(row) \in AppPorts \cup {NoPort} /\ row.enabled \in BOOLEAN
  /\ NoApp \notin AppSites
BY AppsAssumption DEF AppRow, Binding, PortOf

LEMMA HostedParts ==
  ASSUME Typed, NEW s \in Hosted
  PROVE  s \in AppSites /\ apps[s] \in AppRow /\ apps[s].service \in AppServices
BY AppRowParts DEF Typed, Hosted

LEMMA AppFocus ==
  ASSUME AppInv, NEW r \in AppRequests,
         appReq[r].pc # "idle" \/ \A q \in AppRequests : appReq[q].pc = "idle"
  PROVE  AppView(r)
<1>1. Typed /\ AppNumbered /\ Pending
  BY DEF AppInv, AppsTypeOK, Typed, AppNumbered, Pending
<1>2. OnlyApp(r)
  BY DEF AppInv, AppTurns, AppStages, AppStage, OnlyApp
<1>3. \A s \in AppSites : AtApp(s) => appReq[r].site = s
  BY <1>2, NoAppRequest, AppRowParts DEF AtApp, OnlyApp
<1>4. AppSettled(r)
  BY <1>1, <1>3, HostedParts DEF AppInv, AppsInstalled, AppSettled, Kept
<1> QED BY <1>1, <1>2, <1>4 DEF AppView, AppInv, AppStages

LEMMA AppWiden ==
  ASSUME NEW r \in AppRequests, AppView(r)
  PROVE  AppInv
<1>1. AppsTypeOK
  BY DEF AppView, AppsTypeOK, Typed, AppNumbered, Pending
<1>2. AppTurns
  BY NoAppRequest DEF AppView, AppTurns, OnlyApp
<1>3. AppStages
  <2> SUFFICES ASSUME NEW q \in AppRequests, q # r PROVE AppStage(q)
    BY DEF AppView, AppStages
  <2> QED BY NoAppRequest DEF AppView, OnlyApp, AppStage, Installing, Removing
<1>4. AppsInstalled
  BY DEF AppView, AppsInstalled, AppSettled, Kept, AtApp
<1> QED BY <1>1, <1>2, <1>3, <1>4 DEF AppInv, AppView

-----------------------------------------------------------------------------
(* What the parts of the actions do to the request.                         *)

LEMMA AppCounting == AppNumbered /\ (AppFault \/ AppWorks) => AppNumbered'
BY AppsAssumption DEF AppNumbered, AppFault, AppWorks

LEMMA AppGoes ==
  ASSUME Pending, NEW r \in AppRequests, OnlyApp(r), NEW pc \in AppPcs, AppGoTo(r, pc)
  PROVE  /\ Pending' /\ OnlyApp(r)' /\ appReq'[r].pc = pc /\ appReq'[r].op = appReq[r].op
         /\ appReq'[r].site = appReq[r].site /\ appReq'[r].row = appReq[r].row
BY DEF Pending, OnlyApp, AppPcs, AppGoTo, AppRequestStates

LEMMA AppEnds ==
  ASSUME Pending, NEW r \in AppRequests, OnlyApp(r), AppFinish(r)
  PROVE  Pending' /\ OnlyApp(r)' /\ appReq'[r] = NoAppReq /\ AppStage(r)'
<1>1. Pending' /\ OnlyApp(r)' /\ appReq'[r] = NoAppReq
  BY NoAppRequest DEF Pending, OnlyApp, AppFinish
<1> QED BY <1>1, NoAppRequest DEF AppStage, Installing, Removing

LEMMA Starts ==
  ASSUME Pending, NEW r \in AppRequests, OnlyApp(r), NEW pc \in AppPcs,
         NEW op \in {"create", "update", "settings", "reconcile", "remove", "delete"},
         NEW s \in AppSites, NEW row \in AppRow, AppStart(r, op, pc, s, row)
  PROVE  /\ Pending' /\ OnlyApp(r)'
         /\ appReq'[r].pc = pc /\ appReq'[r].op = op
         /\ appReq'[r].site = s /\ appReq'[r].row = row
         /\ UNCHANGED <<apps, units, running, boot, managed, sudoers, proxies, appFailures,
                        cutApps, leftServices, contested>>
BY DEF Pending, OnlyApp, AppStart, AppPcs, AppRequestStates, AppWorks, appHost, appGhosts

\* Nothing but the request has changed.
Still == UNCHANGED <<apps, units, running, boot, managed, sudoers, proxies, appFailures,
                     cutApps, leftServices, contested>>
LEMMA Stills ==
  ASSUME Typed, AppNumbered, AppRowsFit, AppOwned, Still
  PROVE  /\ Typed' /\ AppNumbered' /\ AppRowsFit' /\ AppOwned' /\ Hosted' = Hosted
         /\ \A s \in Hosted : Kept(s) => Kept(s)'
BY DEF Typed, AppNumbered, AppRowsFit, AppOwned, Still, Kept, Hosted, Excused, NothingOf

LEMMA AppBegins ==
  ASSUME NEW r \in AppRequests, AppView(r), appReq[r].pc = "idle",
         \/ BeginApp(r) \/ BeginAppUpdate(r) \/ BeginAppSettings(r) \/ BeginAppReconcile(r)
         \/ BeginAppRemoval(r)
  PROVE  AppView(r)'
<1>a. /\ Typed /\ AppNumbered /\ Pending /\ OnlyApp(r) /\ AppRowsFit /\ AppOwned
      /\ \A s \in Hosted : Kept(s)
  BY NoAppRequest, AppRowParts, HostedParts DEF AppView, AppStage, AppSettled
<1>b. ASSUME Still, Pending', OnlyApp(r)', AppStage(r)' PROVE AppView(r)'
  BY <1>a, <1>b, Stills DEF AppView, AppSettled
<1>1. CASE BeginApp(r)
  <2>0. PICK s \in AppSites \ Hosted : \E row \in Asked[s] :
          Available(s, row.bind, FALSE) /\ AppStart(r, "create", "record", s, row)
    BY <1>1 DEF BeginApp
  <2>1. PICK row \in Asked[s] :
          Available(s, row.bind, FALSE) /\ AppStart(r, "create", "record", s, row)
    BY <2>0
  <2>2. row \in AppRow
    BY AppsAssumption
  <2>3. /\ Pending' /\ OnlyApp(r)' /\ Still /\ appReq'[r].pc = "record"
        /\ appReq'[r].op = "create" /\ appReq'[r].site = s /\ appReq'[r].row = row
    BY <1>a, <2>1, <2>2, Starts DEF AppPcs, Installing, Still
  <2>4. Recording(r)'
    BY <2>1, <2>2, <2>3 DEF Recording, Still, Hosted, Available, BindingFree
  <2>5. AppStage(r)'
    BY <2>3, <2>4 DEF AppStage, Removing
  <2> QED BY <1>b, <2>3, <2>5
<1>2. CASE BeginAppUpdate(r)
  <2>0. PICK s \in Hosted : \E form \in Asked[s] :
          /\ BindingFree(s, [form EXCEPT !.service = apps[s].service].bind)
          /\ AppStart(r, "update", "record", s, [form EXCEPT !.service = apps[s].service])
    BY <1>2 DEF BeginAppUpdate, Available
  <2>1. PICK form \in Asked[s] :
          /\ BindingFree(s, [form EXCEPT !.service = apps[s].service].bind)
          /\ AppStart(r, "update", "record", s, [form EXCEPT !.service = apps[s].service])
    BY <2>0
  <2> DEFINE row == [form EXCEPT !.service = apps[s].service]
  <2>2. s \in AppSites /\ apps[s] \in AppRow /\ form \in AppRow
    BY <1>a, HostedParts, AppsAssumption
  <2>3. row \in AppRow /\ row.service = apps[s].service
    BY <2>2 DEF AppRow
  <2>4. BindingFree(s, row.bind) /\ AppStart(r, "update", "record", s, row)
    BY <2>1
  <2> HIDE DEF row
  <2>5. /\ Pending' /\ OnlyApp(r)' /\ Still /\ appReq'[r].pc = "record"
        /\ appReq'[r].op = "update" /\ appReq'[r].site = s /\ appReq'[r].row = row
    BY <1>a, <2>2, <2>3, <2>4, Starts DEF AppPcs, Installing, Still
  <2>6. Recording(r)'
    BY <2>2, <2>3, <2>4, <2>5 DEF Recording, Still, Hosted, BindingFree
  <2>7. AppStage(r)'
    BY <2>5, <2>6 DEF AppStage, Removing
  <2> QED BY <1>b, <2>5, <2>7
<1>3. CASE BeginAppSettings(r)
  <2>0. PICK s \in Hosted : \E new \in Settings[s] :
          LET row == [apps[s] EXCEPT !.bind.port = new.port, !.argued = new.argued]
          IN  BindingFree(s, row.bind) /\ AppStart(r, "settings", "record", s, row)
    BY <1>3 DEF BeginAppSettings, Available
  <2>1. PICK new \in Settings[s] :
          LET row == [apps[s] EXCEPT !.bind.port = new.port, !.argued = new.argued]
          IN  BindingFree(s, row.bind) /\ AppStart(r, "settings", "record", s, row)
    BY <2>0
  <2> DEFINE row == [apps[s] EXCEPT !.bind.port = new.port, !.argued = new.argued]
  <2>2. s \in AppSites /\ apps[s] \in AppRow /\ new \in [port : AppPorts, argued : BOOLEAN]
    BY <1>a, HostedParts, AppsAssumption
  <2>3. row \in AppRow /\ row.service = apps[s].service
    BY <2>2 DEF AppRow, Binding
  <2>4. BindingFree(s, row.bind) /\ AppStart(r, "settings", "record", s, row)
    BY <2>1
  <2> HIDE DEF row
  <2>5. /\ Pending' /\ OnlyApp(r)' /\ Still /\ appReq'[r].pc = "record"
        /\ appReq'[r].op = "settings" /\ appReq'[r].site = s /\ appReq'[r].row = row
    BY <1>a, <2>2, <2>3, <2>4, Starts DEF AppPcs, Installing, Still
  <2>6. Recording(r)'
    BY <2>2, <2>3, <2>4, <2>5 DEF Recording, Still, Hosted, BindingFree
  <2>7. AppStage(r)'
    BY <2>5, <2>6 DEF AppStage, Removing
  <2> QED BY <1>b, <2>5, <2>7
<1>4. CASE BeginAppReconcile(r)
  <2>1. PICK s \in Hosted : AppStart(r, "reconcile", "proxy", s, apps[s])
    BY <1>4 DEF BeginAppReconcile
  <2>2. s \in AppSites /\ apps[s] \in AppRow
    BY <1>a, HostedParts
  <2>3. /\ Pending' /\ OnlyApp(r)' /\ Still /\ appReq'[r].pc = "proxy"
        /\ appReq'[r].op = "reconcile" /\ appReq'[r].site = s /\ appReq'[r].row = apps[s]
    BY <1>a, <2>1, <2>2, Starts DEF AppPcs, Installing, Still
  <2>4. OnHost(r)'
    BY <2>2, <2>3 DEF OnHost, Still
  <2>5. AppStage(r)'
    BY <2>3, <2>4 DEF AppStage, Removing
  <2> QED BY <1>b, <2>3, <2>5
<1>5. CASE BeginAppRemoval(r)
  <2>1. PICK s \in Hosted, op \in {"remove", "delete"} : AppStart(r, op, "stop", s, apps[s])
    BY <1>5 DEF BeginAppRemoval
  <2>2. s \in AppSites /\ apps[s] \in AppRow
    BY <1>a, HostedParts
  <2>3. /\ Pending' /\ OnlyApp(r)' /\ Still /\ appReq'[r].pc = "stop"
        /\ appReq'[r].op = op /\ appReq'[r].site = s /\ appReq'[r].row = apps[s]
    BY <1>a, <2>1, <2>2, Starts DEF AppPcs, Removing, Still
  <2>4. Clearing(r)'
    BY <2>1, <2>2, <2>3 DEF Clearing, Undone, Still
  <2>5. AppStage(r)'
    BY <2>3, <2>4 DEF AppStage, Installing
  <2> QED BY <1>b, <2>3, <2>5
<1> QED BY <1>1, <1>2, <1>3, <1>4, <1>5

-----------------------------------------------------------------------------
(* One site and its service: what a request does there disturbs no other.   *)

AtWork(r) == appReq[r].pc \in (Installing \ {"record"}) \cup (Removing \ {"refresh"})
LEMMA WorkParts ==
  ASSUME NEW r \in AppRequests, AppView(r), AtWork(r)
  PROVE  /\ appReq[r].site \in Hosted /\ appReq[r].site \in AppSites
         /\ appReq[r].row \in AppRow /\ apps[appReq[r].site] = appReq[r].row
         /\ appReq[r].row.service \in AppServices
BY AppRowParts DEF AppView, AppStage, AtWork, OnHost, Clearing, Hosted

LEMMA Elsewhere ==
  ASSUME NEW r \in AppRequests, AppView(r), AtWork(r),
         NEW s \in AppSites, NEW v \in AppServices,
         s = appReq[r].site, v = appReq[r].row.service,
         UNCHANGED <<apps, contested>>, Typed',
         leftServices \subseteq leftServices', cutApps \subseteq cutApps',
         \A w \in AppServices \ {v} :
           /\ units'[w] = units[w] /\ running'[w] = running[w]
           /\ w \in boot' <=> w \in boot
           /\ w \in managed' <=> w \in managed,
         \A rule \in AppSites \X AppServices :
           rule # <<s, v>> => (rule \in sudoers' <=> rule \in sudoers),
         \A t \in AppSites \ {s} : proxies'[t] = proxies[t]
  PROVE  /\ AppRowsFit' /\ AppOwned' /\ Hosted' = Hosted
         /\ \A t \in Hosted \ {s} : Kept(t)'
<1>a. Typed /\ AppRowsFit /\ AppOwned /\ \A t \in Hosted : t # s => Kept(t)
  BY DEF AppView, AppSettled
<1>b. s \in Hosted /\ apps[s].service = v
  BY WorkParts
<1>1. Hosted' = Hosted /\ AppRowsFit'
  BY <1>a DEF Hosted, AppRowsFit
<1>2. AppOwned'
  <2>1. ASSUME NEW w \in AppServices
        PROVE  Excused(w)' \/ NothingOf(w)' \/ \E t \in Hosted' : apps'[t].service = w
    <3>1. CASE w = v
      BY <1>1, <1>b, <3>1
    <3>2. CASE w # v
      <4>1. NothingOf(w) => NothingOf(w)'
        BY <3>2 DEF NothingOf
      <4> QED BY <1>a, <1>1, <4>1 DEF AppOwned, Excused
    <3> QED BY <3>1, <3>2
  <2>2. ASSUME NEW rule \in sudoers'
        PROVE  Excused(rule[2])' \/ (rule[1] \in Hosted' /\ apps'[rule[1]].service = rule[2])
    <3>1. rule \in AppSites \X AppServices
      BY DEF Typed
    <3>2. CASE rule = <<s, v>>
      BY <1>1, <1>b, <3>2
    <3>3. CASE rule # <<s, v>>
      BY <1>a, <1>1, <3>1, <3>3 DEF AppOwned, Excused
    <3> QED BY <3>2, <3>3
  <2> QED BY <2>1, <2>2 DEF AppOwned
<1>3. ASSUME NEW t \in Hosted \ {s} PROVE Kept(t)'
  <2>1. t \in AppSites /\ apps[t].service \in AppServices
    BY <1>a, HostedParts
  <2>2. apps[t].service = v => v \in contested
    BY <1>a, <1>b DEF AppRowsFit
  <2> SUFFICES ASSUME t \notin cutApps', apps[t].service \notin contested PROVE Kept(t)'
    BY DEF Kept
  <2>3. Kept(t) /\ apps[t].service # v /\ t # s /\ t \notin cutApps
    BY <1>a, <2>2
  <2>4. <<t, apps[t].service>> \in AppSites \X AppServices /\ <<t, apps[t].service>> # <<s, v>>
    BY <2>1, <2>3
  <2> QED BY <2>1, <2>3, <2>4 DEF Kept, PortOf
<1> QED BY <1>1, <1>2, <1>3

\* The host has changed at one service; the request goes on, ends, or breaks off.
Local(s) ==
  /\ UNCHANGED <<apps, contested>> /\ Typed' /\ AppNumbered' /\ AppRowsFit' /\ AppOwned'
  /\ Hosted' = Hosted /\ \A t \in Hosted \ {s} : Kept(t)'
LEMMA LocalGoes ==
  ASSUME NEW r \in AppRequests, AppView(r), AtWork(r),
         NEW s, s = appReq[r].site, Local(s),
         NEW pc \in AppPcs, AppGoTo(r, pc), AppStage(r)'
  PROVE  AppView(r)'
<1>1. /\ Pending' /\ OnlyApp(r)' /\ appReq'[r].site = s
  BY AppGoes DEF AppView
<1> QED BY <1>1 DEF AppView, Local, AppSettled
LEMMA LocalEnds ==
  ASSUME NEW r \in AppRequests, AppView(r), AtWork(r),
         NEW s, s = appReq[r].site, Local(s), AppFinish(r), Kept(s)'
  PROVE  AppView(r)'
<1>1. Pending' /\ OnlyApp(r)' /\ AppStage(r)'
  BY AppEnds DEF AppView
<1> QED BY <1>1 DEF AppView, Local, AppSettled
LEMMA LocalBreaks ==
  ASSUME NEW r \in AppRequests, AppView(r), appReq[r].pc \in Installing \ {"record"},
         NEW s, s = appReq[r].site, Local(s), AppBreaks(r)
  PROVE  AppView(r)'
<1>a. AtWork(r) /\ s \in Hosted /\ s \in AppSites /\ appReq[r].row \in AppRow
      /\ apps[s] = appReq[r].row
  BY WorkParts DEF AtWork
<1>1. CASE AppGoTo(r, "stop") /\ appReq[r].op = "create"
  <2>1. /\ appReq'[r].pc = "stop" /\ appReq'[r].site = s /\ appReq'[r].op = "create"
        /\ appReq'[r].row = appReq[r].row
    BY <1>1, AppGoes DEF AppView, AppPcs, Removing
  <2>2. AppStage(r)'
    BY <1>a, <2>1 DEF AppStage, Clearing, Undone, Local, Installing, Removing
  <2> QED BY <1>1, <1>a, <2>2, LocalGoes DEF AppPcs, Removing
<1>2. CASE AppFinish(r) /\ cutApps' = cutApps \cup {appReq[r].site}
  <2>1. Kept(s)'
    BY <1>2 DEF Kept
  <2> QED BY <1>2, <1>a, <2>1, LocalEnds
<1> QED BY <1>1, <1>2 DEF AppBreaks

-----------------------------------------------------------------------------
(* The row                                                                  *)

LEMMA Records ==
  ASSUME NEW r \in AppRequests, AppView(r), RecordApp(r)
  PROVE  AppView(r)'
<1>a. /\ Typed /\ AppNumbered /\ Pending /\ OnlyApp(r) /\ AppRowsFit /\ AppOwned /\ AppSettled(r)
      /\ appReq[r].pc = "record" /\ Recording(r)
  BY DEF AppView, AppStage, RecordApp
<1> DEFINE s == appReq[r].site
           row == appReq[r].row
<1>b. s \in AppSites /\ row \in AppRow /\ row # NoApp /\ row.service \in AppServices
  BY <1>a, AppRowParts DEF Recording
<1>c. UNCHANGED <<managed, units, running, boot, sudoers, proxies>>
  BY DEF RecordApp, appHost
<1>1. CASE AppBreaks(r) /\ UNCHANGED apps
  <2>1. /\ AppFinish(r) /\ cutApps' = cutApps \cup {s} /\ AppFault
        /\ UNCHANGED <<leftServices, contested>>
    BY <1>1, <1>a DEF AppBreaks
  <2>2. Pending' /\ OnlyApp(r)' /\ AppStage(r)' /\ AppNumbered'
    BY <1>a, <2>1, AppEnds, AppCounting
  <2>3. Typed' /\ AppRowsFit' /\ AppOwned'
    BY <1>1, <1>a, <1>b, <1>c, <2>1
    DEF Typed, AppRowsFit, AppOwned, Hosted, Excused, NothingOf
  <2>4. \A t \in Hosted' : Kept(t)'
    BY <1>1, <1>a, <1>c, <2>1 DEF Kept, AppSettled, Hosted
  <2> QED BY <2>2, <2>3, <2>4 DEF AppView, AppSettled
<1>2. CASE /\ apps' = [apps EXCEPT ![s] = IF @ = NoApp /\ appReq[r].op # "create" THEN NoApp
                                         ELSE row]
           /\ contested' = IF row.service \in {apps[t].service : t \in Hosted \ {s}}
                           THEN contested \cup {row.service} ELSE contested
           /\ AppGoTo(r, "proxy") /\ AppWorks /\ UNCHANGED <<cutApps, leftServices>>
  <2>1. /\ Pending' /\ OnlyApp(r)' /\ AppNumbered' /\ appReq'[r].pc = "proxy"
        /\ appReq'[r].op = appReq[r].op
        /\ appReq'[r].site = appReq[r].site /\ appReq'[r].row = appReq[r].row
    BY <1>2, <1>a, AppGoes, AppCounting DEF AppPcs, Installing
  <2>2. apps' = [apps EXCEPT ![s] = row]
    BY <1>2, <1>a DEF Recording, Hosted
  <2>3. Typed'
    BY <1>2, <1>a, <1>b, <1>c, <2>2 DEF Typed
  <2>4. /\ apps'[s] = row /\ Hosted' = Hosted \cup {s}
        /\ \A t \in Hosted \ {s} : apps'[t] = apps[t]
    BY <1>a, <1>b, <2>2 DEF Hosted, Typed
  <2>5. contested \subseteq contested'
        /\ \A t \in Hosted \ {s} : apps[t].service = row.service => row.service \in contested'
    BY <1>2
  <2>6. AppRowsFit'
    <3> SUFFICES ASSUME NEW t \in Hosted', NEW u \in Hosted', t # u
                 PROVE  /\ apps'[t].service = apps'[u].service => apps'[t].service \in contested'
                        /\ ~Conflict(apps'[t].bind, apps'[u].bind)
      BY DEF AppRowsFit
    <3>1. CASE t # s /\ u # s
      BY <1>a, <2>4, <2>5, <3>1 DEF AppRowsFit
    <3>2. CASE t = s
      BY <1>a, <2>4, <2>5, <3>2 DEF Recording, BindingFree, Conflict
    <3>3. CASE u = s
      BY <1>a, <2>4, <2>5, <3>3 DEF Recording, BindingFree, Conflict
    <3> QED BY <3>1, <3>2, <3>3
  <2>7. \A w : Excused(w) => Excused(w)'
    BY <1>2, <2>5 DEF Excused
  <2>8. s \in Hosted => apps[s].service = row.service
    BY <1>a DEF Recording
  <2>9. AppOwned'
    <3>1. \A w \in AppServices : NothingOf(w) => NothingOf(w)'
      BY <1>c DEF NothingOf
    <3> QED BY <1>a, <1>c, <2>4, <2>7, <2>8, <3>1 DEF AppOwned
  <2>10. AppSettled(r)'
    BY <1>2, <1>a, <1>c, <2>1, <2>4, <2>5 DEF AppSettled, Kept, PortOf
  <2>11. OnHost(r)'
    BY <1>a, <1>b, <2>1, <2>4 DEF OnHost, Recording
  <2>12. AppStage(r)'
    BY <2>1, <2>11 DEF AppStage, Removing
  <2> QED BY <2>1, <2>3, <2>6, <2>9, <2>10, <2>12 DEF AppView
<1> QED BY <1>1, <1>2 DEF RecordApp

-----------------------------------------------------------------------------
(* The steps of an installation                                             *)

LEMMA Proxied ==
  ASSUME NEW r \in AppRequests, AppView(r), ProxyApp(r)
  PROVE  AppView(r)'
<1>a. /\ Typed /\ AppNumbered /\ Pending /\ OnlyApp(r) /\ appReq[r].pc = "proxy" /\ OnHost(r)
  BY DEF AppView, AppStage, ProxyApp, Installing, Removing
<1>w. AtWork(r)
  BY <1>a DEF AtWork, Installing, Removing
<1>s. PICK s \in AppSites, v \in AppServices : s = appReq[r].site /\ v = appReq[r].row.service
  BY <1>w, WorkParts
<1>b. /\ AtWork(r) /\ s \in Hosted /\ s = appReq[r].site /\ v = appReq[r].row.service
      /\ appReq[r].row \in AppRow /\ apps[s] = appReq[r].row
  BY <1>w, <1>s, WorkParts
<1>c. PortOf(appReq[r].row) \in AppPorts \cup {NoPort} /\ appReq[r].row.bind.port \in AppPorts
  BY <1>b, AppRowParts
<1>1. Typed' /\ AppNumbered'
  BY <1>a, <1>b, <1>c, AppCounting
  DEF Typed, ProxyApp, appGhosts, AppWorks, AppFault, AppBreaks
<1>2. Local(s)
  <2>1. /\ UNCHANGED <<apps, contested>>
        /\ leftServices \subseteq leftServices' /\ cutApps \subseteq cutApps'
        /\ \A w \in AppServices \ {v} :
             /\ units'[w] = units[w] /\ running'[w] = running[w]
             /\ w \in boot' <=> w \in boot
             /\ w \in managed' <=> w \in managed
        /\ \A rule \in AppSites \X AppServices :
             rule # <<s, v>> => (rule \in sudoers' <=> rule \in sudoers)
        /\ \A t \in AppSites \ {s} : proxies'[t] = proxies[t]
    BY <1>a, <1>b DEF Typed, ProxyApp, appGhosts, AppWorks, AppFault, AppBreaks
  <2> QED BY <1>1, <1>b, <2>1, Elsewhere DEF Local
<1>3. CASE AppBreaks(r)
  BY <1>2, <1>3, <1>a, <1>b, LocalBreaks DEF Installing
<1>4. CASE /\ AppGoTo(r, "unit")
           /\ proxies' = [proxies EXCEPT ![s] = appReq[r].row.bind.port] /\ UNCHANGED cutApps
  <2>1. /\ appReq'[r].pc = "unit" /\ appReq'[r].op = appReq[r].op
        /\ appReq'[r].site = appReq[r].site /\ appReq'[r].row = appReq[r].row
    BY <1>a, <1>4, AppGoes DEF AppPcs, Installing
  <2>2. OnHost(r)'
    BY <1>4, <1>a, <1>b, <1>2, <2>1 DEF OnHost, Local, PortOf, Typed, ProxyApp, appGhosts
  <2>3. AppStage(r)'
    BY <2>1, <2>2 DEF AppStage, Removing
  <2> QED BY <1>4, <1>b, <1>2, <2>3, LocalGoes DEF AppPcs, Installing
<1> QED BY <1>b, <1>3, <1>4 DEF ProxyApp, appGhosts

LEMMA UnitInstalled ==
  ASSUME NEW r \in AppRequests, AppView(r), InstallUnit(r)
  PROVE  AppView(r)'
<1>a. /\ Typed /\ AppNumbered /\ Pending /\ OnlyApp(r) /\ appReq[r].pc = "unit" /\ OnHost(r)
  BY DEF AppView, AppStage, InstallUnit, Installing, Removing
<1>w. AtWork(r)
  BY <1>a DEF AtWork, Installing, Removing
<1>s. PICK s \in AppSites, v \in AppServices : s = appReq[r].site /\ v = appReq[r].row.service
  BY <1>w, WorkParts
<1>b. /\ AtWork(r) /\ s \in Hosted /\ s = appReq[r].site /\ v = appReq[r].row.service
      /\ appReq[r].row \in AppRow /\ apps[s] = appReq[r].row
  BY <1>w, <1>s, WorkParts
<1>c. PortOf(appReq[r].row) \in AppPorts \cup {NoPort} /\ appReq[r].row.bind.port \in AppPorts
  BY <1>b, AppRowParts
<1>1. Typed' /\ AppNumbered'
  BY <1>a, <1>b, <1>c, AppCounting
  DEF Typed, InstallUnit, appGhosts, AppWorks, AppFault, AppBreaks, Written
<1>2. Local(s)
  <2>1. /\ UNCHANGED <<apps, contested>>
        /\ leftServices \subseteq leftServices' /\ cutApps \subseteq cutApps'
        /\ \A w \in AppServices \ {v} :
             /\ units'[w] = units[w] /\ running'[w] = running[w]
             /\ w \in boot' <=> w \in boot
             /\ w \in managed' <=> w \in managed
        /\ \A rule \in AppSites \X AppServices :
             rule # <<s, v>> => (rule \in sudoers' <=> rule \in sudoers)
        /\ \A t \in AppSites \ {s} : proxies'[t] = proxies[t]
    BY <1>a, <1>b DEF Typed, InstallUnit, appGhosts, AppWorks, AppFault, AppBreaks, Written
  <2> QED BY <1>1, <1>b, <2>1, Elsewhere DEF Local
<1>3. CASE AppBreaks(r)
  BY <1>2, <1>3, <1>a, <1>b, LocalBreaks DEF Installing
<1>4. CASE /\ AppGoTo(r, "sudoers")
           /\ units' = Written(appReq[r].row) /\ (v \in managed' \/ s \in cutApps')
  <2>1. /\ appReq'[r].pc = "sudoers" /\ appReq'[r].op = appReq[r].op
        /\ appReq'[r].site = appReq[r].site /\ appReq'[r].row = appReq[r].row
    BY <1>a, <1>4, AppGoes DEF AppPcs, Installing
  <2>2. OnHost(r)'
    BY <1>4, <1>a, <1>b, <1>2, <2>1
    DEF OnHost, Local, PortOf, Typed, InstallUnit, Written, appGhosts
  <2>3. AppStage(r)'
    BY <2>1, <2>2 DEF AppStage, Removing
  <2> QED BY <1>4, <1>b, <1>2, <2>3, LocalGoes DEF AppPcs, Installing
<1> QED BY <1>b, <1>3, <1>4 DEF InstallUnit, appGhosts

LEMMA SudoersWritten ==
  ASSUME NEW r \in AppRequests, AppView(r), WriteSudoers(r)
  PROVE  AppView(r)'
<1>a. /\ Typed /\ AppNumbered /\ Pending /\ OnlyApp(r) /\ appReq[r].pc = "sudoers" /\ OnHost(r)
  BY DEF AppView, AppStage, WriteSudoers, Installing, Removing
<1>w. AtWork(r)
  BY <1>a DEF AtWork, Installing, Removing
<1>s. PICK s \in AppSites, v \in AppServices : s = appReq[r].site /\ v = appReq[r].row.service
  BY <1>w, WorkParts
<1>b. /\ AtWork(r) /\ s \in Hosted /\ s = appReq[r].site /\ v = appReq[r].row.service
      /\ appReq[r].row \in AppRow /\ apps[s] = appReq[r].row
  BY <1>w, <1>s, WorkParts
<1>c. PortOf(appReq[r].row) \in AppPorts \cup {NoPort} /\ appReq[r].row.bind.port \in AppPorts
  BY <1>b, AppRowParts
<1>1. Typed' /\ AppNumbered'
  BY <1>a, <1>b, <1>c, AppCounting
  DEF Typed, WriteSudoers, appGhosts, AppWorks, AppFault, AppBreaks, RuleOf
<1>2. Local(s)
  <2>1. /\ UNCHANGED <<apps, contested>>
        /\ leftServices \subseteq leftServices' /\ cutApps \subseteq cutApps'
        /\ \A w \in AppServices \ {v} :
             /\ units'[w] = units[w] /\ running'[w] = running[w]
             /\ w \in boot' <=> w \in boot
             /\ w \in managed' <=> w \in managed
        /\ \A rule \in AppSites \X AppServices :
             rule # <<s, v>> => (rule \in sudoers' <=> rule \in sudoers)
        /\ \A t \in AppSites \ {s} : proxies'[t] = proxies[t]
    BY <1>a, <1>b DEF Typed, WriteSudoers, appGhosts, AppWorks, AppFault, AppBreaks, RuleOf
  <2> QED BY <1>1, <1>b, <2>1, Elsewhere DEF Local
<1>3. CASE AppBreaks(r)
  BY <1>2, <1>3, <1>a, <1>b, LocalBreaks DEF Installing
<1>4. CASE AppGoTo(r, "enable") /\ sudoers' = sudoers \cup {RuleOf(r)} /\ UNCHANGED cutApps
  <2>1. /\ appReq'[r].pc = "enable" /\ appReq'[r].op = appReq[r].op
        /\ appReq'[r].site = appReq[r].site /\ appReq'[r].row = appReq[r].row
    BY <1>a, <1>4, AppGoes DEF AppPcs, Installing
  <2>2. OnHost(r)'
    BY <1>4, <1>a, <1>b, <1>2, <2>1 DEF OnHost, Local, PortOf, Typed, WriteSudoers, RuleOf
  <2>3. AppStage(r)'
    BY <2>1, <2>2 DEF AppStage, Removing
  <2> QED BY <1>4, <1>b, <1>2, <2>3, LocalGoes DEF AppPcs, Installing
<1>5. CASE AppFinish(r) /\ sudoers' = sudoers \cup {RuleOf(r)} /\ UNCHANGED cutApps
  <2>1. Kept(s)'
    BY <1>5, <1>a, <1>b, <1>2 DEF Kept, OnHost, Local, PortOf, Typed, WriteSudoers, RuleOf
  <2> QED BY <1>5, <1>b, <1>2, <2>1, LocalEnds
<1> QED BY <1>b, <1>3, <1>4, <1>5 DEF WriteSudoers, appGhosts

LEMMA Enabled ==
  ASSUME NEW r \in AppRequests, AppView(r), EnableUnit(r)
  PROVE  AppView(r)'
<1>a. /\ Typed /\ AppNumbered /\ Pending /\ OnlyApp(r) /\ appReq[r].pc = "enable" /\ OnHost(r)
  BY DEF AppView, AppStage, EnableUnit, Installing, Removing
<1>w. AtWork(r)
  BY <1>a DEF AtWork, Installing, Removing
<1>s. PICK s \in AppSites, v \in AppServices : s = appReq[r].site /\ v = appReq[r].row.service
  BY <1>w, WorkParts
<1>b. /\ AtWork(r) /\ s \in Hosted /\ s = appReq[r].site /\ v = appReq[r].row.service
      /\ appReq[r].row \in AppRow /\ apps[s] = appReq[r].row
  BY <1>w, <1>s, WorkParts
<1>c. PortOf(appReq[r].row) \in AppPorts \cup {NoPort} /\ appReq[r].row.bind.port \in AppPorts
  BY <1>b, AppRowParts
<1>1. Typed' /\ AppNumbered'
  BY <1>a, <1>b, <1>c, AppCounting
  DEF Typed, EnableUnit, appGhosts, AppWorks, AppFault, AppBreaks
<1>2. Local(s)
  <2>1. /\ UNCHANGED <<apps, contested>>
        /\ leftServices \subseteq leftServices' /\ cutApps \subseteq cutApps'
        /\ \A w \in AppServices \ {v} :
             /\ units'[w] = units[w] /\ running'[w] = running[w]
             /\ w \in boot' <=> w \in boot
             /\ w \in managed' <=> w \in managed
        /\ \A rule \in AppSites \X AppServices :
             rule # <<s, v>> => (rule \in sudoers' <=> rule \in sudoers)
        /\ \A t \in AppSites \ {s} : proxies'[t] = proxies[t]
    BY <1>a, <1>b DEF Typed, EnableUnit, appGhosts, AppWorks, AppFault, AppBreaks
  <2> QED BY <1>1, <1>b, <2>1, Elsewhere DEF Local
<1>3. CASE AppBreaks(r)
  BY <1>2, <1>3, <1>a, <1>b, LocalBreaks DEF Installing
<1>4. CASE AppGoTo(r, "start") /\ UNCHANGED cutApps
  <2>1. /\ appReq'[r].pc = "start" /\ appReq'[r].op = appReq[r].op
        /\ appReq'[r].site = appReq[r].site /\ appReq'[r].row = appReq[r].row
    BY <1>a, <1>4, AppGoes DEF AppPcs, Installing
  <2>2. OnHost(r)'
    BY <1>4, <1>a, <1>b, <1>2, <2>1 DEF OnHost, Local, PortOf, Typed, EnableUnit, appGhosts
  <2>3. AppStage(r)'
    BY <2>1, <2>2 DEF AppStage, Removing
  <2> QED BY <1>4, <1>b, <1>2, <2>3, LocalGoes DEF AppPcs, Installing
<1> QED BY <1>b, <1>3, <1>4 DEF EnableUnit, appGhosts

LEMMA UnitStarted ==
  ASSUME NEW r \in AppRequests, AppView(r), StartUnit(r)
  PROVE  AppView(r)'
<1>a. /\ Typed /\ AppNumbered /\ Pending /\ OnlyApp(r) /\ appReq[r].pc = "start" /\ OnHost(r)
  BY DEF AppView, AppStage, StartUnit, Installing, Removing
<1>w. AtWork(r)
  BY <1>a DEF AtWork, Installing, Removing
<1>s. PICK s \in AppSites, v \in AppServices : s = appReq[r].site /\ v = appReq[r].row.service
  BY <1>w, WorkParts
<1>b. /\ AtWork(r) /\ s \in Hosted /\ s = appReq[r].site /\ v = appReq[r].row.service
      /\ appReq[r].row \in AppRow /\ apps[s] = appReq[r].row
  BY <1>w, <1>s, WorkParts
<1>c. PortOf(appReq[r].row) \in AppPorts \cup {NoPort} /\ appReq[r].row.bind.port \in AppPorts
  BY <1>b, AppRowParts
<1>1. Typed' /\ AppNumbered'
  BY <1>a, <1>b, <1>c, AppCounting
  DEF Typed, StartUnit, appGhosts, AppWorks, AppFault, AppBreaks, Started
<1>2. Local(s)
  <2>1. /\ UNCHANGED <<apps, contested>>
        /\ leftServices \subseteq leftServices' /\ cutApps \subseteq cutApps'
        /\ \A w \in AppServices \ {v} :
             /\ units'[w] = units[w] /\ running'[w] = running[w]
             /\ w \in boot' <=> w \in boot
             /\ w \in managed' <=> w \in managed
        /\ \A rule \in AppSites \X AppServices :
             rule # <<s, v>> => (rule \in sudoers' <=> rule \in sudoers)
        /\ \A t \in AppSites \ {s} : proxies'[t] = proxies[t]
    BY <1>a, <1>b DEF Typed, StartUnit, appGhosts, AppWorks, AppFault, AppBreaks, Started
  <2> QED BY <1>1, <1>b, <2>1, Elsewhere DEF Local
<1>3. CASE AppBreaks(r)
  BY <1>2, <1>3, <1>a, <1>b, LocalBreaks DEF Installing
<1>4. CASE AppGoTo(r, "apply") /\ UNCHANGED cutApps
  <2>1. /\ appReq'[r].pc = "apply" /\ appReq'[r].op = appReq[r].op
        /\ appReq'[r].site = appReq[r].site /\ appReq'[r].row = appReq[r].row
    BY <1>a, <1>4, AppGoes DEF AppPcs, Installing
  <2>2. OnHost(r)'
    BY <1>4, <1>a, <1>b, <1>2, <2>1 DEF OnHost, Local, PortOf, Typed, StartUnit, appGhosts
  <2>3. AppStage(r)'
    BY <2>1, <2>2 DEF AppStage, Removing
  <2> QED BY <1>4, <1>b, <1>2, <2>3, LocalGoes DEF AppPcs, Installing
<1>5. CASE AppFinish(r) /\ UNCHANGED cutApps
  <2>1. Kept(s)'
    BY <1>5, <1>a, <1>b, <1>2 DEF Kept, OnHost, Local, PortOf, Typed, StartUnit, appGhosts
  <2> QED BY <1>5, <1>b, <1>2, <2>1, LocalEnds
<1> QED BY <1>b, <1>3, <1>4, <1>5 DEF StartUnit, appGhosts

LEMMA SettingsApplied ==
  ASSUME NEW r \in AppRequests, AppView(r), ApplySettings(r)
  PROVE  AppView(r)'
<1>a. /\ Typed /\ AppNumbered /\ Pending /\ OnlyApp(r) /\ appReq[r].pc = "apply" /\ OnHost(r)
  BY DEF AppView, AppStage, ApplySettings, Installing, Removing
<1>w. AtWork(r)
  BY <1>a DEF AtWork, Installing, Removing
<1>s. PICK s \in AppSites, v \in AppServices : s = appReq[r].site /\ v = appReq[r].row.service
  BY <1>w, WorkParts
<1>b. /\ AtWork(r) /\ s \in Hosted /\ s = appReq[r].site /\ v = appReq[r].row.service
      /\ appReq[r].row \in AppRow /\ apps[s] = appReq[r].row
  BY <1>w, <1>s, WorkParts
<1>c. PortOf(appReq[r].row) \in AppPorts \cup {NoPort} /\ appReq[r].row.bind.port \in AppPorts
  BY <1>b, AppRowParts
<1>1. Typed' /\ AppNumbered'
  BY <1>a, <1>b, <1>c, AppCounting
  DEF Typed, ApplySettings, appGhosts, AppWorks, AppFault, AppBreaks, Started, Restarted
<1>2. Local(s)
  <2>1. /\ UNCHANGED <<apps, contested>>
        /\ leftServices \subseteq leftServices' /\ cutApps \subseteq cutApps'
        /\ \A w \in AppServices \ {v} :
             /\ units'[w] = units[w] /\ running'[w] = running[w]
             /\ w \in boot' <=> w \in boot
             /\ w \in managed' <=> w \in managed
        /\ \A rule \in AppSites \X AppServices :
             rule # <<s, v>> => (rule \in sudoers' <=> rule \in sudoers)
        /\ \A t \in AppSites \ {s} : proxies'[t] = proxies[t]
    BY <1>a, <1>b
    DEF Typed, ApplySettings, appGhosts, AppWorks, AppFault, AppBreaks, Started, Restarted
  <2> QED BY <1>1, <1>b, <2>1, Elsewhere DEF Local
<1>3. CASE AppBreaks(r)
  BY <1>2, <1>3, <1>a, <1>b, LocalBreaks DEF Installing
<1>4. CASE AppFinish(r) /\ cutApps \subseteq cutApps'
  <2>1. Kept(s)'
    BY <1>4, <1>a, <1>b, <1>2 DEF Kept, OnHost, Local, PortOf, Typed, ApplySettings, appGhosts
  <2> QED BY <1>4, <1>b, <1>2, <2>1, LocalEnds
<1> QED BY <1>b, <1>3, <1>4 DEF ApplySettings, appGhosts

-----------------------------------------------------------------------------
(* The steps of a removal                                                   *)

\* A step that fails leaves the service on record, whether the removal goes on or not.
LEMMA RemovalFailed ==
  ASSUME NEW r \in AppRequests, AppView(r), appReq[r].pc \in Removing \ {"refresh"},
         NEW s, s = appReq[r].site, Local(s),
         NEW pc \in Removing \ {"refresh"}, RemovalFails(r, pc)
  PROVE  AppView(r)'
<1>a. /\ AtWork(r) /\ s \in Hosted /\ s \in AppSites /\ appReq[r].row \in AppRow
      /\ apps[s] = appReq[r].row /\ Clearing(r) /\ Pending /\ OnlyApp(r)
  BY WorkParts DEF AtWork, AppView, AppStage
<1>1. CASE AppGoTo(r, pc)
  <2>1. /\ appReq'[r].pc = pc /\ appReq'[r].op = appReq[r].op
        /\ appReq'[r].site = s /\ appReq'[r].row = appReq[r].row
    BY <1>a, <1>1, AppGoes DEF AppPcs
  <2>2. Clearing(r)'
    BY <1>a, <2>1 DEF Clearing, Local, RemovalFails
  <2>3. AppStage(r)'
    BY <2>1, <2>2 DEF AppStage, Installing, Removing
  <2> QED BY <1>a, <1>1, <2>3, LocalGoes DEF AppPcs
<1>2. CASE AppFinish(r) /\ cutApps' = cutApps \cup {appReq[r].site}
  <2>1. Kept(s)'
    BY <1>2 DEF Kept
  <2> QED BY <1>a, <1>2, <2>1, LocalEnds
<1> QED BY <1>1, <1>2 DEF RemovalFails

LEMMA Stopped ==
  ASSUME NEW r \in AppRequests, AppView(r), StopUnit(r)
  PROVE  AppView(r)'
<1>a. /\ Typed /\ AppNumbered /\ Pending /\ OnlyApp(r) /\ appReq[r].pc = "stop" /\ Clearing(r)
  BY DEF AppView, AppStage, StopUnit, Installing, Removing
<1>w. AtWork(r)
  BY <1>a DEF AtWork, Installing, Removing
<1>s. PICK s \in AppSites, v \in AppServices : s = appReq[r].site /\ v = appReq[r].row.service
  BY <1>w, WorkParts
<1>b. /\ AtWork(r) /\ s \in Hosted /\ s = appReq[r].site /\ v = appReq[r].row.service
      /\ appReq[r].row \in AppRow /\ apps[s] = appReq[r].row
  BY <1>w, <1>s, WorkParts
<1>1. Typed' /\ AppNumbered'
  BY <1>a, <1>b, AppCounting
  DEF Typed, StopUnit, appGhosts, AppWorks, AppFault, RemovalStep, RemovalFails
<1>2. Local(s)
  <2>1. /\ UNCHANGED <<apps, contested>>
        /\ leftServices \subseteq leftServices' /\ cutApps \subseteq cutApps'
        /\ \A w \in AppServices \ {v} :
             /\ units'[w] = units[w] /\ running'[w] = running[w]
             /\ w \in boot' <=> w \in boot
             /\ w \in managed' <=> w \in managed
        /\ \A rule \in AppSites \X AppServices :
             rule # <<s, v>> => (rule \in sudoers' <=> rule \in sudoers)
        /\ \A t \in AppSites \ {s} : proxies'[t] = proxies[t]
    BY <1>a, <1>b DEF Typed, StopUnit, appGhosts, AppWorks, AppFault, RemovalStep, RemovalFails
  <2> QED BY <1>1, <1>b, <2>1, Elsewhere DEF Local
<1>3. CASE RemovalFails(r, "disable")
  BY <1>2, <1>3, <1>a, <1>b, RemovalFailed DEF Removing
<1>4. CASE RemovalStep(r, "disable")
  <2>1. /\ appReq'[r].pc = "disable" /\ appReq'[r].op = appReq[r].op
        /\ appReq'[r].site = s /\ appReq'[r].row = appReq[r].row
    BY <1>4, <1>a, <1>b, AppGoes DEF AppPcs, Removing, RemovalStep
  <2>2. Clearing(r)'
    BY <1>4, <1>a, <1>b, <1>2, <2>1
    DEF Clearing, Undone, Local, Typed, StopUnit, RemovalStep, appGhosts, AppFault, RemovalFails
  <2>3. AppStage(r)'
    BY <2>1, <2>2 DEF AppStage, Installing, Removing
  <2> QED BY <1>4, <1>b, <1>2, <2>3, LocalGoes DEF AppPcs, Removing, RemovalStep
<1> QED BY <1>3, <1>4 DEF StopUnit

LEMMA Disabled ==
  ASSUME NEW r \in AppRequests, AppView(r), DisableUnit(r)
  PROVE  AppView(r)'
<1>a. /\ Typed /\ AppNumbered /\ Pending /\ OnlyApp(r) /\ appReq[r].pc = "disable" /\ Clearing(r)
  BY DEF AppView, AppStage, DisableUnit, Installing, Removing
<1>w. AtWork(r)
  BY <1>a DEF AtWork, Installing, Removing
<1>s. PICK s \in AppSites, v \in AppServices : s = appReq[r].site /\ v = appReq[r].row.service
  BY <1>w, WorkParts
<1>b. /\ AtWork(r) /\ s \in Hosted /\ s = appReq[r].site /\ v = appReq[r].row.service
      /\ appReq[r].row \in AppRow /\ apps[s] = appReq[r].row
  BY <1>w, <1>s, WorkParts
<1>1. Typed' /\ AppNumbered'
  BY <1>a, <1>b, AppCounting
  DEF Typed, DisableUnit, appGhosts, AppWorks, AppFault, RemovalStep, RemovalFails
<1>2. Local(s)
  <2>1. /\ UNCHANGED <<apps, contested>>
        /\ leftServices \subseteq leftServices' /\ cutApps \subseteq cutApps'
        /\ \A w \in AppServices \ {v} :
             /\ units'[w] = units[w] /\ running'[w] = running[w]
             /\ w \in boot' <=> w \in boot
             /\ w \in managed' <=> w \in managed
        /\ \A rule \in AppSites \X AppServices :
             rule # <<s, v>> => (rule \in sudoers' <=> rule \in sudoers)
        /\ \A t \in AppSites \ {s} : proxies'[t] = proxies[t]
    BY <1>a, <1>b DEF Typed, DisableUnit, appGhosts, AppWorks, AppFault, RemovalStep, RemovalFails
  <2> QED BY <1>1, <1>b, <2>1, Elsewhere DEF Local
<1>3. CASE RemovalFails(r, "unsudo")
  BY <1>2, <1>3, <1>a, <1>b, RemovalFailed DEF Removing
<1>4. CASE RemovalStep(r, "unsudo")
  <2>1. /\ appReq'[r].pc = "unsudo" /\ appReq'[r].op = appReq[r].op
        /\ appReq'[r].site = s /\ appReq'[r].row = appReq[r].row
    BY <1>4, <1>a, <1>b, AppGoes DEF AppPcs, Removing, RemovalStep
  <2>2. Clearing(r)'
    BY <1>4, <1>a, <1>b, <1>2, <2>1
    DEF Clearing, Undone, Local, Typed, DisableUnit, RemovalStep, appGhosts, AppFault,
        RemovalFails
  <2>3. AppStage(r)'
    BY <2>1, <2>2 DEF AppStage, Installing, Removing
  <2> QED BY <1>4, <1>b, <1>2, <2>3, LocalGoes DEF AppPcs, Removing, RemovalStep
<1> QED BY <1>3, <1>4 DEF DisableUnit

LEMMA SudoersRemoved ==
  ASSUME NEW r \in AppRequests, AppView(r), RemoveSudoers(r)
  PROVE  AppView(r)'
<1>a. /\ Typed /\ AppNumbered /\ Pending /\ OnlyApp(r) /\ appReq[r].pc = "unsudo" /\ Clearing(r)
  BY DEF AppView, AppStage, RemoveSudoers, Installing, Removing
<1>w. AtWork(r)
  BY <1>a DEF AtWork, Installing, Removing
<1>s. PICK s \in AppSites, v \in AppServices : s = appReq[r].site /\ v = appReq[r].row.service
  BY <1>w, WorkParts
<1>b. /\ AtWork(r) /\ s \in Hosted /\ s = appReq[r].site /\ v = appReq[r].row.service
      /\ appReq[r].row \in AppRow /\ apps[s] = appReq[r].row
  BY <1>w, <1>s, WorkParts
<1>1. Typed' /\ AppNumbered'
  BY <1>a, <1>b, AppCounting
  DEF Typed, RemoveSudoers, appGhosts, AppWorks, AppFault, RemovalStep, RemovalFails, RuleOf
<1>2. Local(s)
  <2>1. /\ UNCHANGED <<apps, contested>>
        /\ leftServices \subseteq leftServices' /\ cutApps \subseteq cutApps'
        /\ \A w \in AppServices \ {v} :
             /\ units'[w] = units[w] /\ running'[w] = running[w]
             /\ w \in boot' <=> w \in boot
             /\ w \in managed' <=> w \in managed
        /\ \A rule \in AppSites \X AppServices :
             rule # <<s, v>> => (rule \in sudoers' <=> rule \in sudoers)
        /\ \A t \in AppSites \ {s} : proxies'[t] = proxies[t]
    BY <1>a, <1>b
    DEF Typed, RemoveSudoers, appGhosts, AppWorks, AppFault, RemovalStep, RemovalFails, RuleOf
  <2> QED BY <1>1, <1>b, <2>1, Elsewhere DEF Local
<1>3. CASE RemovalFails(r, "unmanage")
  BY <1>2, <1>3, <1>a, <1>b, RemovalFailed DEF Removing
<1>4. CASE RemovalStep(r, "unmanage")
  <2>1. /\ appReq'[r].pc = "unmanage" /\ appReq'[r].op = appReq[r].op
        /\ appReq'[r].site = s /\ appReq'[r].row = appReq[r].row
    BY <1>4, <1>a, <1>b, AppGoes DEF AppPcs, Removing, RemovalStep
  <2>2. Clearing(r)'
    BY <1>4, <1>a, <1>b, <1>2, <2>1
    DEF Clearing, Undone, Local, Typed, RemoveSudoers, RemovalStep, appGhosts, AppFault,
        RemovalFails, RuleOf
  <2>3. AppStage(r)'
    BY <2>1, <2>2 DEF AppStage, Installing, Removing
  <2> QED BY <1>4, <1>b, <1>2, <2>3, LocalGoes DEF AppPcs, Removing, RemovalStep
<1> QED BY <1>3, <1>4 DEF RemoveSudoers

LEMMA Unmanaged ==
  ASSUME NEW r \in AppRequests, AppView(r), Unmanage(r)
  PROVE  AppView(r)'
<1>a. /\ Typed /\ AppNumbered /\ Pending /\ OnlyApp(r) /\ appReq[r].pc = "unmanage" /\ Clearing(r)
  BY DEF AppView, AppStage, Unmanage, Installing, Removing
<1>w. AtWork(r)
  BY <1>a DEF AtWork, Installing, Removing
<1>s. PICK s \in AppSites, v \in AppServices : s = appReq[r].site /\ v = appReq[r].row.service
  BY <1>w, WorkParts
<1>b. /\ AtWork(r) /\ s \in Hosted /\ s = appReq[r].site /\ v = appReq[r].row.service
      /\ appReq[r].row \in AppRow /\ apps[s] = appReq[r].row
  BY <1>w, <1>s, WorkParts
<1>1. Typed' /\ AppNumbered'
  BY <1>a, <1>b, AppCounting
  DEF Typed, Unmanage, appHost, appGhosts, AppWorks, AppFault, RemovalStep, RemovalFails
<1>2. Local(s)
  <2>1. /\ UNCHANGED <<apps, contested>>
        /\ leftServices \subseteq leftServices' /\ cutApps \subseteq cutApps'
        /\ \A w \in AppServices \ {v} :
             /\ units'[w] = units[w] /\ running'[w] = running[w]
             /\ w \in boot' <=> w \in boot
             /\ w \in managed' <=> w \in managed
        /\ \A rule \in AppSites \X AppServices :
             rule # <<s, v>> => (rule \in sudoers' <=> rule \in sudoers)
        /\ \A t \in AppSites \ {s} : proxies'[t] = proxies[t]
    BY <1>a, <1>b
    DEF Typed, Unmanage, appHost, appGhosts, AppWorks, AppFault, RemovalStep, RemovalFails
  <2> QED BY <1>1, <1>b, <2>1, Elsewhere DEF Local
<1>3. CASE RemovalFails(r, "ununit")
  BY <1>2, <1>3, <1>a, <1>b, RemovalFailed DEF Removing
<1>4. CASE RemovalStep(r, "ununit")
  <2>1. /\ appReq'[r].pc = "ununit" /\ appReq'[r].op = appReq[r].op
        /\ appReq'[r].site = s /\ appReq'[r].row = appReq[r].row
    BY <1>4, <1>a, <1>b, AppGoes DEF AppPcs, Removing, RemovalStep
  <2>2. Clearing(r)'
    BY <1>4, <1>a, <1>b, <1>2, <2>1
    DEF Clearing, Undone, Local, Typed, Unmanage, appHost, RemovalStep, appGhosts, AppFault,
        RemovalFails
  <2>3. AppStage(r)'
    BY <2>1, <2>2 DEF AppStage, Installing, Removing
  <2> QED BY <1>4, <1>b, <1>2, <2>3, LocalGoes DEF AppPcs, Removing, RemovalStep
<1> QED BY <1>3, <1>4 DEF Unmanage

LEMMA UnitRemoved ==
  ASSUME NEW r \in AppRequests, AppView(r), RemoveUnit(r)
  PROVE  AppView(r)'
<1>a. /\ Typed /\ AppNumbered /\ Pending /\ OnlyApp(r) /\ appReq[r].pc = "ununit" /\ Clearing(r)
  BY DEF AppView, AppStage, RemoveUnit, Installing, Removing
<1>w. AtWork(r)
  BY <1>a DEF AtWork, Installing, Removing
<1>s. PICK s \in AppSites, v \in AppServices : s = appReq[r].site /\ v = appReq[r].row.service
  BY <1>w, WorkParts
<1>b. /\ AtWork(r) /\ s \in Hosted /\ s = appReq[r].site /\ v = appReq[r].row.service
      /\ appReq[r].row \in AppRow /\ apps[s] = appReq[r].row
  BY <1>w, <1>s, WorkParts
<1>1. Typed' /\ AppNumbered'
  BY <1>a, <1>b, AppCounting
  DEF Typed, RemoveUnit, appGhosts, AppWorks, AppFault, RemovalStep, RemovalFails
<1>2. Local(s)
  <2>1. /\ UNCHANGED <<apps, contested>>
        /\ leftServices \subseteq leftServices' /\ cutApps \subseteq cutApps'
        /\ \A w \in AppServices \ {v} :
             /\ units'[w] = units[w] /\ running'[w] = running[w]
             /\ w \in boot' <=> w \in boot
             /\ w \in managed' <=> w \in managed
        /\ \A rule \in AppSites \X AppServices :
             rule # <<s, v>> => (rule \in sudoers' <=> rule \in sudoers)
        /\ \A t \in AppSites \ {s} : proxies'[t] = proxies[t]
    BY <1>a, <1>b DEF Typed, RemoveUnit, appGhosts, AppWorks, AppFault, RemovalStep, RemovalFails
  <2> QED BY <1>1, <1>b, <2>1, Elsewhere DEF Local
<1>3. CASE RemovalFails(r, "clear")
  BY <1>2, <1>3, <1>a, <1>b, RemovalFailed DEF Removing
<1>4. CASE RemovalStep(r, "clear")
  <2>1. /\ appReq'[r].pc = "clear" /\ appReq'[r].op = appReq[r].op
        /\ appReq'[r].site = s /\ appReq'[r].row = appReq[r].row
    BY <1>4, <1>a, <1>b, AppGoes DEF AppPcs, Removing, RemovalStep
  <2>2. Clearing(r)'
    BY <1>4, <1>a, <1>b, <1>2, <2>1
    DEF Clearing, Undone, Local, Typed, RemoveUnit, RemovalStep, appGhosts, AppFault, RemovalFails
  <2>3. AppStage(r)'
    BY <2>1, <2>2 DEF AppStage, Installing, Removing
  <2> QED BY <1>4, <1>b, <1>2, <2>3, LocalGoes DEF AppPcs, Removing, RemovalStep
<1> QED BY <1>3, <1>4 DEF RemoveUnit

LEMMA Cleared ==
  ASSUME NEW r \in AppRequests, AppView(r), ClearApp(r)
  PROVE  AppView(r)'
<1>a. /\ Typed /\ AppNumbered /\ Pending /\ OnlyApp(r) /\ AppRowsFit /\ AppOwned /\ AppSettled(r)
      /\ appReq[r].pc = "clear" /\ Clearing(r) /\ AtWork(r)
  BY DEF AppView, AppStage, ClearApp, AtWork, Installing, Removing
<1>s. PICK s \in AppSites, v \in AppServices : s = appReq[r].site /\ v = appReq[r].row.service
  BY <1>a, WorkParts
<1>b. /\ s \in Hosted /\ s = appReq[r].site /\ v = appReq[r].row.service
      /\ appReq[r].row \in AppRow /\ apps[s] = appReq[r].row
  BY <1>a, <1>s, WorkParts
<1>1. AppNumbered'
  BY <1>a, AppCounting DEF ClearApp
<1>2. CASE /\ AppFault /\ AppFinish(r) /\ cutApps' = cutApps \cup {appReq[r].site}
           /\ UNCHANGED <<apps, proxies, leftServices, contested>>
  <2>1. Typed' /\ AppRowsFit' /\ AppOwned' /\ Hosted' = Hosted
    BY <1>2, <1>a, <1>b DEF ClearApp, Typed, AppRowsFit, AppOwned, Hosted, Excused, NothingOf
  <2>2. \A t \in Hosted : Kept(t)'
    BY <1>2, <1>a, <1>b DEF ClearApp, AppSettled, Kept, PortOf
  <2>3. Pending' /\ OnlyApp(r)' /\ AppStage(r)'
    BY <1>2, <1>a, AppEnds
  <2> QED BY <1>1, <2>1, <2>2, <2>3 DEF AppView, AppSettled
<1>3. CASE /\ apps' = [apps EXCEPT ![appReq[r].site] = NoApp]
           /\ UNCHANGED <<leftServices, contested>> /\ cutApps' = cutApps \ {appReq[r].site}
           /\ \/ AppFinish(r) /\ proxies' = [proxies EXCEPT ![appReq[r].site] = NoPort]
              \/ AppGoTo(r, "refresh") /\ UNCHANGED proxies
  <2>1. Typed'
    BY <1>3, <1>a, <1>b DEF ClearApp, Typed
  <2>2. Hosted' = Hosted \ {s} /\ \A t \in Hosted \ {s} : apps'[t] = apps[t]
    BY <1>3, <1>a, <1>b DEF Hosted, Typed
  <2>3. AppRowsFit'
    BY <1>3, <1>a, <2>2 DEF AppRowsFit
  <2>4. ASSUME NEW rule \in sudoers
        PROVE  Excused(rule[2]) \/ (rule[1] \in Hosted' /\ apps'[rule[1]].service = rule[2])
    <3>1. rule = <<rule[1], rule[2]>>
      BY <1>a DEF Typed
    <3>2. CASE rule[1] = s
      BY <1>a, <1>b, <3>1, <3>2 DEF AppOwned, Clearing, Undone, Excused
    <3>3. CASE rule[1] # s
      BY <1>a, <2>2, <3>3 DEF AppOwned
    <3> QED BY <3>2, <3>3
  <2>5. Excused(v) \/ NothingOf(v)
    <3>1. CASE v \in leftServices
      BY <3>1 DEF Excused
    <3>2. CASE Undone(r) /\ ~Excused(v)
      <4>1. \A t \in AppSites : <<t, v>> \notin sudoers
        <5> SUFFICES ASSUME NEW t \in AppSites, <<t, v>> \in sudoers PROVE FALSE
          OBVIOUS
        <5>1. t \in Hosted \ {s} /\ apps[t].service = v
          BY <3>2, <2>2, <2>4
        <5> QED BY <5>1, <1>a, <1>b, <3>2 DEF AppRowsFit, Excused
      <4> QED BY <1>a, <1>b, <3>2, <4>1 DEF Undone, NothingOf
    <3> QED BY <1>a, <1>b, <3>1, <3>2 DEF Clearing
  <2>6. AppOwned'
    <3>1. \A w : Excused(w) <=> Excused(w)'
      BY <1>3 DEF Excused
    <3>2. \A w \in AppServices : NothingOf(w) <=> NothingOf(w)'
      BY DEF ClearApp, NothingOf
    <3>3. sudoers' = sudoers
      BY DEF ClearApp
    <3> QED BY <1>a, <1>b, <2>2, <2>4, <2>5, <3>1, <3>2, <3>3 DEF AppOwned
  <2>7. \A t \in Hosted' : Kept(t)'
    BY <1>3, <1>a, <1>b, <2>2 DEF ClearApp, AppSettled, Kept, PortOf, Typed, Hosted
  <2>8. CASE AppFinish(r)
    <3>1. Pending' /\ OnlyApp(r)' /\ AppStage(r)'
      BY <2>8, <1>a, AppEnds
    <3> QED BY <3>1, <1>1, <2>1, <2>3, <2>6, <2>7 DEF AppView, AppSettled
  <2>9. CASE AppGoTo(r, "refresh")
    <3>1. /\ Pending' /\ OnlyApp(r)' /\ appReq'[r].pc = "refresh"
          /\ appReq'[r].site = s /\ appReq'[r].row = appReq[r].row
      BY <2>9, <1>a, <1>b, AppGoes DEF AppPcs, Removing
    <3>2. AppStage(r)'
      BY <1>b, <2>2, <3>1 DEF AppStage, Refreshing, Installing
    <3> QED BY <3>1, <3>2, <1>1, <2>1, <2>3, <2>6, <2>7 DEF AppView, AppSettled
  <2> QED BY <1>3, <2>8, <2>9
<1> QED BY <1>2, <1>3 DEF ClearApp

LEMMA Refreshed ==
  ASSUME NEW r \in AppRequests, AppView(r), RefreshProxy(r)
  PROVE  AppView(r)'
<1>a. /\ Typed /\ AppNumbered /\ Pending /\ OnlyApp(r) /\ AppRowsFit /\ AppOwned /\ AppSettled(r)
      /\ Refreshing(r)
  BY DEF AppView, AppStage, RefreshProxy
<1>1. Typed' /\ AppNumbered' /\ AppRowsFit' /\ AppOwned' /\ Hosted' = Hosted
  BY <1>a, AppCounting DEF RefreshProxy, Refreshing, Typed, AppRowsFit, AppOwned, Hosted, Excused,
     NothingOf
<1>2. \A t \in Hosted : Kept(t)'
  BY <1>a DEF RefreshProxy, Refreshing, AppSettled, Kept, PortOf, Typed, Hosted
<1>3. Pending' /\ OnlyApp(r)' /\ AppStage(r)'
  BY <1>a, AppEnds DEF RefreshProxy
<1> QED BY <1>1, <1>2, <1>3 DEF AppView, AppSettled

-----------------------------------------------------------------------------
(* What needs no request under way                                          *)

LEMMA Acts ==
  ASSUME NEW r \in AppRequests, AppView(r), ServiceAction(r)
  PROVE  AppView(r)'
<1>a. /\ Typed /\ AppNumbered /\ Pending /\ OnlyApp(r) /\ AppRowsFit /\ AppOwned
      /\ \A s \in Hosted : Kept(s)
  BY NoAppRequest, HostedParts, AppRowParts DEF AppView, AppStage, AppSettled,
       ServiceAction, AppIdle
<1>1. PICK s \in Hosted :
        LET v == apps[s].service
        IN  \/ running' \in {Started(v), Restarted(v)} /\ UNCHANGED boot
            \/ running' = [running EXCEPT ![v] = NoPort] /\ UNCHANGED boot
            \/ boot' \in {boot \cup {v}, boot \ {v}} /\ UNCHANGED running
  BY DEF ServiceAction
<1>2. apps[s].service \in AppServices
  BY <1>a, HostedParts
<1>3. Typed' /\ AppNumbered'
  BY <1>a, <1>1, <1>2 DEF ServiceAction, Typed, AppNumbered, Started, Restarted, AppWorks, appGhosts
<1>4. AppRowsFit' /\ Hosted' = Hosted /\ \A t \in Hosted : Kept(t)'
  BY <1>a DEF ServiceAction, AppRowsFit, Hosted, Kept, PortOf, appGhosts
<1>5. AppOwned'
  <2>1. \A w \in AppServices : w # apps[s].service =>
          running'[w] = running[w] /\ (w \in boot' <=> w \in boot)
    BY <1>a, <1>1, <1>2 DEF Typed, Started, Restarted
  <2> QED BY <1>a, <1>4, <2>1 DEF ServiceAction, AppOwned, Excused, NothingOf, appGhosts
<1>6. Pending' /\ OnlyApp(r)' /\ AppStage(r)'
  BY <1>a, AppEnds DEF ServiceAction
<1> QED BY <1>3, <1>4, <1>5, <1>6 DEF AppView, AppSettled

LEMMA AppEnded == AppInv /\ ProcessEnds => AppInv'
<1> SUFFICES ASSUME AppInv, ProcessEnds PROVE AppInv'
  OBVIOUS
<1>1. PICK v \in AppServices : /\ running[v] # NoPort
                               /\ running' \in {[running EXCEPT ![v] = NoPort], Restarted(v)}
  BY DEF ProcessEnds
<1>2. UNCHANGED <<apps, units, boot, managed, sudoers, proxies, appReq, cutApps, leftServices,
                  contested>>
  BY DEF ProcessEnds, appGhosts
<1>3. AppsTypeOK'
  <2>1. appFailures' \in 0..MaxAppFailures
    BY AppsAssumption DEF ProcessEnds, AppFault, AppInv, AppsTypeOK
  <2>2. running' \in [AppServices -> AppPorts \cup {NoPort}]
    BY <1>1 DEF AppInv, AppsTypeOK, Restarted
  <2> QED BY <1>2, <2>1, <2>2 DEF AppInv, AppsTypeOK
<1>4. \A w \in AppServices : running[w] = NoPort => running'[w] = NoPort
  BY <1>1 DEF AppInv, AppsTypeOK, Restarted
<1>5. AppStages'
  <2> SUFFICES ASSUME NEW r \in AppRequests PROVE AppStage(r)'
    BY DEF AppStages
  <2>1. AppStage(r)
    BY DEF AppInv, AppStages
  <2>2. appReq[r].row \in AppRow => appReq[r].row.service \in AppServices
    BY AppRowParts
  <2>3. Recording(r) => Recording(r)'
    BY <1>2 DEF Recording, Hosted, BindingFree
  <2>4. OnHost(r) => OnHost(r)'
    BY <1>2 DEF OnHost, PortOf
  <2>5. Clearing(r) => Clearing(r)'
    BY <1>2, <1>4, <2>2 DEF Clearing, Undone
  <2>6. Refreshing(r) => Refreshing(r)'
    BY <1>2 DEF Refreshing, Hosted
  <2> QED BY <1>2, <2>1, <2>3, <2>4, <2>5, <2>6 DEF AppStage
<1>6. AppOwned'
  <2>1. \A w \in AppServices : NothingOf(w) => NothingOf(w)'
    BY <1>2, <1>4 DEF NothingOf
  <2> QED BY <1>2, <2>1 DEF AppInv, AppOwned, Excused, Hosted
<1>7. AppTurns' /\ AppRowsFit' /\ AppsInstalled'
  BY <1>2 DEF AppInv, AppTurns, AppRowsFit, AppsInstalled, Hosted, AtApp, PortOf
<1> QED BY <1>3, <1>5, <1>6, <1>7 DEF AppInv

\* The panel, or the host, dies: the site and the service of the request are on record.
LEMMA Crashes ==
  ASSUME NEW r \in AppRequests, AppView(r), appReq[r].pc # "idle", AppCrash
  PROVE  AppView(r)'
<1>a. /\ Typed /\ AppNumbered /\ Pending /\ OnlyApp(r) /\ AppRowsFit /\ AppOwned /\ AppSettled(r)
  BY DEF AppView
<1>b. appReq[r].site \in AppSites /\ appReq[r].row.service \in AppServices
  <2>1. appReq[r].pc \in AppPcs
    BY <1>a DEF Pending, AppRequestStates, AppPcs
  <2>2. appReq[r].site \in AppSites /\ appReq[r].row \in AppRow
    BY <2>1 DEF AppView, AppStage, AppPcs, Recording, OnHost, Clearing, Refreshing
  <2> QED BY <2>2, AppRowParts
<1>1. {q \in AppRequests : appReq[q].pc # "idle"} = {r}
  BY <1>a, NoAppRequest DEF OnlyApp
<1>2. /\ cutApps' = cutApps \cup {appReq[r].site}
      /\ leftServices' = leftServices \cup {appReq[r].row.service}
      /\ UNCHANGED <<apps, units, boot, managed, sudoers, proxies, contested>>
  BY <1>1 DEF AppCrash
<1>3. /\ running' \in [AppServices -> AppPorts \cup {NoPort}]
      /\ \A w \in AppServices : running[w] = NoPort /\ w \notin boot => running'[w] = NoPort
  BY <1>a DEF AppCrash, Typed
<1>4. Typed' /\ AppNumbered'
  BY <1>a, <1>b, <1>2, <1>3, AppCounting DEF AppCrash, Typed
<1>5. AppRowsFit' /\ AppOwned' /\ Hosted' = Hosted
  BY <1>a, <1>2, <1>3 DEF AppRowsFit, AppOwned, Hosted, Excused, NothingOf
<1>6. \A t \in Hosted : Kept(t)'
  BY <1>a, <1>2 DEF AppSettled, Kept, PortOf, Hosted
<1>7. appReq' = [q \in AppRequests |-> NoAppReq]
  BY DEF AppCrash
<1>8. Pending' /\ OnlyApp(r)' /\ AppStage(r)'
  BY <1>7, NoAppRequest DEF Pending, OnlyApp, AppStage, Installing, Removing
<1> QED BY <1>4, <1>5, <1>6, <1>8 DEF AppView, AppSettled

-----------------------------------------------------------------------------
(* The invariant, and what it says                                          *)

LEMMA AppsInitially == AppsInit => AppInv
<1> SUFFICES ASSUME AppsInit PROVE AppInv
  OBVIOUS
<1>1. Hosted = {} /\ \A r \in AppRequests : appReq[r] = NoAppReq
  BY DEF AppsInit, Hosted
<1>2. AppsTypeOK
  BY NoAppRequest, AppsAssumption DEF AppsInit, AppsTypeOK
<1>3. AppTurns /\ AppStages
  BY <1>1, NoAppRequest DEF AppTurns, AppStages, AppStage, Installing, Removing
<1>4. AppRowsFit /\ AppsInstalled
  BY <1>1 DEF AppRowsFit, AppsInstalled
<1>5. AppOwned
  BY DEF AppsInit, AppOwned, NothingOf
<1> QED BY <1>2, <1>3, <1>4, <1>5 DEF AppInv

LEMMA AppWidenAll == \A r \in AppRequests : AppView(r) => AppInv
BY AppWiden
LEMMA AppWidenNext == (\A r \in AppRequests : AppView(r) => AppInv)'
BY AppWidenAll, PTL

LEMMA AppsKeep == ~AppOverlapping /\ AppInv /\ [AppsNext]_appVars => AppInv'
<1> SUFFICES ASSUME ~AppOverlapping, AppInv, [AppsNext]_appVars PROVE AppInv'
  OBVIOUS
<1>1. CASE ProcessEnds
  BY <1>1, AppEnded
<1>2. CASE AppCrash
  <2>1. PICK r \in AppRequests : appReq[r].pc # "idle"
    BY <1>2 DEF AppCrash
  <2>2. AppView(r)'
    BY <1>2, <2>1, AppFocus, Crashes
  <2> QED BY <2>2, AppWidenNext
<1>3. CASE UNCHANGED appVars
  BY <1>3 DEF appVars, AppInv, AppsTypeOK, AppTurns, AppStages, AppStage, Recording, OnHost,
     Clearing, Undone, Refreshing, AppRowsFit, AppOwned, Excused, NothingOf, AppsInstalled, Hosted,
     AtApp, BindingFree, PortOf
<1>4. ASSUME NEW r \in AppRequests, AppStep(r) PROVE AppInv'
  <2>1. CASE AppRefused(r)
    BY <1>3, <2>1 DEF AppRefused
  <2>2. CASE \/ BeginApp(r) \/ BeginAppUpdate(r) \/ BeginAppSettings(r) \/ BeginAppReconcile(r)
             \/ BeginAppRemoval(r)
    <3>1. \A q \in AppRequests : appReq[q].pc = "idle"
      BY <2>2 DEF BeginApp, BeginAppUpdate, BeginAppSettings, BeginAppReconcile, BeginAppRemoval,
         AppStart, AppIdle
    <3>2. AppView(r)'
      BY <2>2, <3>1, AppFocus, AppBegins
    <3> QED BY <3>2, AppWidenNext
  <2>3. CASE \/ RecordApp(r) \/ ProxyApp(r) \/ InstallUnit(r) \/ WriteSudoers(r)
             \/ EnableUnit(r) \/ StartUnit(r) \/ ApplySettings(r)
    <3>1. appReq[r].pc # "idle"
      BY <2>3 DEF RecordApp, ProxyApp, InstallUnit, WriteSudoers, EnableUnit, StartUnit,
         ApplySettings
    <3>2. AppView(r)'
      BY <2>3, <3>1, AppFocus, Records, Proxied, UnitInstalled, SudoersWritten, Enabled,
         UnitStarted, SettingsApplied
    <3> QED BY <3>2, AppWidenNext
  <2>4. CASE \/ StopUnit(r) \/ DisableUnit(r) \/ RemoveSudoers(r) \/ Unmanage(r)
             \/ RemoveUnit(r) \/ ClearApp(r) \/ RefreshProxy(r)
    <3>1. appReq[r].pc # "idle"
      BY <2>4 DEF StopUnit, DisableUnit, RemoveSudoers, Unmanage, RemoveUnit, ClearApp,
         RefreshProxy
    <3>2. AppView(r)'
      BY <2>4, <3>1, AppFocus, Stopped, Disabled, SudoersRemoved, Unmanaged, UnitRemoved, Cleared,
         Refreshed
    <3> QED BY <3>2, AppWidenNext
  <2>5. CASE ServiceAction(r)
    <3>1. \A q \in AppRequests : appReq[q].pc = "idle"
      BY <2>5 DEF ServiceAction, AppIdle
    <3>2. AppView(r)'
      BY <2>5, <3>1, AppFocus, Acts
    <3> QED BY <3>2, AppWidenNext
  <2> QED BY <1>4, <2>1, <2>2, <2>3, <2>4, <2>5 DEF AppStep
<1> QED BY <1>1, <1>2, <1>3, <1>4 DEF AppsNext

LEMMA AppsAgree == AppInv => AppsKept
<1> SUFFICES ASSUME AppInv PROVE AppsKept
  OBVIOUS
<1>1. AppsOwned
  BY DEF AppInv, AppOwned, AppsOwned, Excused, NothingOf
<1>2. BindingsDistinct
  BY DEF AppInv, AppRowsFit, BindingsDistinct
<1> QED BY <1>1, <1>2 DEF AppInv, AppsKept

\* When the panel's requests take turns, a runtime the panel shows has the unit, the sudo
\* rules, the row of the services page and the proxy of its row, unless a failure cut it
\* short or two sites have had its service; what is on the host without a row is of a removal
\* a step of which failed; and no two runtimes have bindings that conflict
\* (AppService.Create, Update, Delete, UpdateRuntimeSettings, ensurePortAvailable).
THEOREM AppsKeptInTurns == ASSUME ~AppOverlapping PROVE AppsSpec => []AppsKept
BY AppsAgree, AppsInitially, AppsKeep, PTL DEF AppsSpec

-----------------------------------------------------------------------------
(* The types need no turns: a request holds the site and the row it was     *)
(* accepted with, whatever others have done since.                          *)

AppInHand ==
  \A r \in AppRequests :
    appReq[r].pc # "idle" => appReq[r].site \in AppSites /\ appReq[r].row \in AppRow
AppAnyhow == Typed /\ AppNumbered /\ Pending /\ AppInHand

LEMMA AppTakes ==
  ASSUME Pending, AppInHand, NEW r \in AppRequests, NEW pc \in AppPcs,
         appReq[r].pc # "idle", AppGoTo(r, pc)
  PROVE  Pending' /\ AppInHand'
<1>1. appReq[r] \in AppRequestStates
  BY DEF Pending
<1>2. /\ [appReq[r] EXCEPT !.pc = pc] \in AppRequestStates
      /\ [appReq[r] EXCEPT !.pc = pc].site = appReq[r].site
      /\ [appReq[r] EXCEPT !.pc = pc].row = appReq[r].row
  BY <1>1 DEF AppRequestStates, AppPcs
<1>3. appReq' = [appReq EXCEPT ![r] = [appReq[r] EXCEPT !.pc = pc]]
  BY DEF AppGoTo, Pending
<1> QED BY <1>2, <1>3 DEF Pending, AppInHand

LEMMA AppLetsGo ==
  ASSUME Pending, AppInHand, NEW r \in AppRequests, AppFinish(r)
  PROVE  Pending' /\ AppInHand'
BY NoAppRequest DEF AppFinish, Pending, AppInHand

LEMMA AppHeld ==
  ASSUME Pending, AppInHand, NEW r \in AppRequests, appReq[r].pc # "idle"
  PROVE  /\ appReq[r].site \in AppSites /\ appReq[r].row \in AppRow
         /\ appReq[r].row.service \in AppServices /\ appReq[r].row.bind.port \in AppPorts
         /\ PortOf(appReq[r].row) \in AppPorts \cup {NoPort}
         /\ RuleOf(r) \in AppSites \X AppServices
BY AppRowParts DEF AppInHand, RuleOf

LEMMA AppGivesUp ==
  ASSUME Pending, AppInHand, AppNumbered, cutApps \subseteq AppSites,
         NEW r \in AppRequests, appReq[r].pc # "idle", AppBreaks(r)
  PROVE  /\ Pending' /\ AppInHand' /\ AppNumbered' /\ (cutApps \subseteq AppSites)'
         /\ UNCHANGED <<leftServices, contested>>
<1>1. AppNumbered'
  BY AppCounting DEF AppBreaks
<1>2. CASE AppGoTo(r, "stop") /\ UNCHANGED cutApps
  BY <1>1, <1>2, AppTakes DEF AppBreaks, AppPcs, Removing
<1>3. CASE AppFinish(r) /\ cutApps' = cutApps \cup {appReq[r].site}
  BY <1>1, <1>3, AppLetsGo, AppHeld DEF AppBreaks
<1> QED BY <1>2, <1>3 DEF AppBreaks

LEMMA AppLeaves ==
  ASSUME Pending, AppInHand, AppNumbered, cutApps \subseteq AppSites,
         leftServices \subseteq AppServices,
         NEW r \in AppRequests, NEW next \in AppPcs, appReq[r].pc # "idle", RemovalFails(r, next)
  PROVE  /\ Pending' /\ AppInHand' /\ AppNumbered' /\ (cutApps \subseteq AppSites)'
         /\ (leftServices \subseteq AppServices)' /\ UNCHANGED contested
<1>1. AppNumbered'
  BY AppCounting DEF RemovalFails
<1>2. CASE AppGoTo(r, next) /\ UNCHANGED cutApps
  BY <1>1, <1>2, AppTakes, AppHeld DEF RemovalFails
<1>3. CASE AppFinish(r) /\ cutApps' = cutApps \cup {appReq[r].site}
  BY <1>1, <1>3, AppLetsGo, AppHeld DEF RemovalFails
<1> QED BY <1>2, <1>3 DEF RemovalFails

LEMMA AppAccepted ==
  ASSUME AppAnyhow, NEW r \in AppRequests, NEW s \in AppSites, NEW row \in AppRow,
         NEW op, op \in {"create", "update", "settings", "reconcile", "remove", "delete"},
         NEW pc \in AppPcs, AppStart(r, op, pc, s, row)
  PROVE  AppAnyhow'
<1>1. [pc |-> pc, op |-> op, site |-> s, row |-> row] \in AppRequestStates
  BY DEF AppRequestStates, AppPcs
<1>2. Pending' /\ AppInHand'
  BY <1>1 DEF AppStart, AppAnyhow, Pending, AppInHand
<1>3. Typed' /\ AppNumbered'
  BY AppCounting DEF AppStart, AppAnyhow, Typed, appHost, appGhosts
<1> QED BY <1>2, <1>3 DEF AppAnyhow

LEMMA AppsAccept ==
  ASSUME AppAnyhow, NEW r \in AppRequests,
         \/ BeginApp(r) \/ BeginAppUpdate(r) \/ BeginAppSettings(r) \/ BeginAppReconcile(r)
         \/ BeginAppRemoval(r)
  PROVE  AppAnyhow'
<1>t. Typed
  BY DEF AppAnyhow
<1>p. {"record", "proxy", "stop"} \subseteq AppPcs
  BY DEF AppPcs, Installing, Removing
<1>1. CASE BeginApp(r)
  <2>0. PICK s \in AppSites \ Hosted : \E row \in Asked[s] : AppStart(r, "create", "record", s, row)
    BY <1>1 DEF BeginApp
  <2>1. PICK row \in Asked[s] : AppStart(r, "create", "record", s, row)
    BY <2>0
  <2>2. row \in AppRow
    BY AppsAssumption
  <2> QED BY <2>1, <2>2, <1>p, AppAccepted
<1>2. CASE BeginAppUpdate(r)
  <2>0. PICK s \in Hosted : \E form \in Asked[s] :
          AppStart(r, "update", "record", s, [form EXCEPT !.service = apps[s].service])
    BY <1>2 DEF BeginAppUpdate
  <2>1. PICK form \in Asked[s] :
          AppStart(r, "update", "record", s, [form EXCEPT !.service = apps[s].service])
    BY <2>0
  <2>2. form \in AppRow /\ s \in AppSites
    BY AppsAssumption DEF Hosted
  <2>3. [form EXCEPT !.service = apps[s].service] \in AppRow
    BY <1>t, <2>2, HostedParts DEF AppRow
  <2> QED BY <2>1, <2>2, <2>3, <1>p, AppAccepted
<1>3. CASE BeginAppSettings(r)
  <2>0. PICK s \in Hosted : \E new \in Settings[s] :
          AppStart(r, "settings", "record", s,
                   [apps[s] EXCEPT !.bind.port = new.port, !.argued = new.argued])
    BY <1>3 DEF BeginAppSettings
  <2>1. PICK new \in Settings[s] :
          AppStart(r, "settings", "record", s,
                   [apps[s] EXCEPT !.bind.port = new.port, !.argued = new.argued])
    BY <2>0
  <2>2. s \in AppSites /\ apps[s] \in AppRow /\ new \in [port : AppPorts, argued : BOOLEAN]
    BY <1>t, HostedParts, AppsAssumption
  <2>3. [apps[s] EXCEPT !.bind.port = new.port, !.argued = new.argued] \in AppRow
    BY <2>2 DEF AppRow, Binding
  <2> QED BY <2>1, <2>2, <2>3, <1>p, AppAccepted
<1>4. CASE BeginAppReconcile(r)
  BY <1>4, <1>t, <1>p, HostedParts, AppAccepted DEF BeginAppReconcile
<1>5. CASE BeginAppRemoval(r)
  BY <1>5, <1>t, <1>p, HostedParts, AppAccepted DEF BeginAppRemoval
<1> QED BY <1>1, <1>2, <1>3, <1>4, <1>5

LEMMA AppsInstall ==
  ASSUME AppAnyhow, NEW r \in AppRequests,
         \/ RecordApp(r) \/ ProxyApp(r) \/ InstallUnit(r) \/ WriteSudoers(r)
         \/ EnableUnit(r) \/ StartUnit(r) \/ ApplySettings(r)
  PROVE  AppAnyhow'
<1>t. Typed /\ AppNumbered /\ Pending /\ AppInHand
  BY DEF AppAnyhow
<1>p. {"record", "proxy", "unit", "sudoers", "enable", "start", "apply"} \subseteq AppPcs
  BY DEF AppPcs, Installing
<1>i. appReq[r].pc # "idle"
  BY DEF RecordApp, ProxyApp, InstallUnit, WriteSudoers, EnableUnit, StartUnit, ApplySettings
<1>h. /\ appReq[r].site \in AppSites /\ appReq[r].row \in AppRow
      /\ appReq[r].row.service \in AppServices /\ appReq[r].row.bind.port \in AppPorts
      /\ PortOf(appReq[r].row) \in AppPorts \cup {NoPort}
      /\ RuleOf(r) \in AppSites \X AppServices
  BY <1>t, <1>i, AppHeld
<1>b. AppBreaks(r) => /\ Pending' /\ AppInHand' /\ AppNumbered' /\ cutApps' \subseteq AppSites
                      /\ leftServices' \subseteq AppServices /\ contested' \subseteq AppServices
  BY <1>t, <1>i, AppGivesUp DEF Typed
<1>g. \A pc \in AppPcs : AppGoTo(r, pc) => Pending' /\ AppInHand'
  BY <1>t, <1>i, AppTakes
<1>f. AppFinish(r) => Pending' /\ AppInHand'
  BY <1>t, AppLetsGo
<1>c. AppFault \/ AppWorks => AppNumbered'
  BY <1>t, AppCounting
<1>1. CASE RecordApp(r)
  BY <1>1, <1>t, <1>h, <1>p, <1>b, <1>g, <1>c DEF RecordApp, Typed, AppAnyhow, appHost
<1>2. CASE ProxyApp(r)
  BY <1>2, <1>t, <1>h, <1>p, <1>b, <1>g, <1>c DEF ProxyApp, Typed, AppAnyhow, appGhosts
<1>3. CASE InstallUnit(r)
  <2>1. Written(appReq[r].row) \in [AppServices -> AppPorts \cup {NoPort}]
    BY <1>t, <1>h DEF Written, Typed
  <2> QED BY <1>3, <2>1, <1>t, <1>h, <1>p, <1>b, <1>g, <1>c
          DEF InstallUnit, Typed, AppAnyhow, appGhosts
<1>4. CASE WriteSudoers(r)
  BY <1>4, <1>t, <1>h, <1>p, <1>b, <1>g, <1>f, <1>c DEF WriteSudoers, Typed, AppAnyhow, appGhosts
<1>5. CASE EnableUnit(r)
  BY <1>5, <1>t, <1>h, <1>p, <1>b, <1>g, <1>c DEF EnableUnit, Typed, AppAnyhow, appGhosts
<1>v. \A v \in AppServices : /\ Started(v) \in [AppServices -> AppPorts \cup {NoPort}]
                             /\ Restarted(v) \in [AppServices -> AppPorts \cup {NoPort}]
  BY <1>t DEF Started, Restarted, Typed
<1>6. CASE StartUnit(r)
  BY <1>6, <1>v, <1>t, <1>h, <1>p, <1>b, <1>g, <1>f, <1>c DEF StartUnit, Typed, AppAnyhow, appGhosts
<1>7. CASE ApplySettings(r)
  BY <1>7, <1>v, <1>t, <1>h, <1>b, <1>f, <1>c DEF ApplySettings, Typed, AppAnyhow, appGhosts
<1> QED BY <1>1, <1>2, <1>3, <1>4, <1>5, <1>6, <1>7

LEMMA AppsRemove ==
  ASSUME AppAnyhow, NEW r \in AppRequests,
         \/ StopUnit(r) \/ DisableUnit(r) \/ RemoveSudoers(r) \/ Unmanage(r) \/ RemoveUnit(r)
         \/ ClearApp(r) \/ RefreshProxy(r)
  PROVE  AppAnyhow'
<1>t. Typed /\ AppNumbered /\ Pending /\ AppInHand
  BY DEF AppAnyhow
<1>p. {"stop", "disable", "unsudo", "unmanage", "ununit", "clear", "refresh"} \subseteq AppPcs
  BY DEF AppPcs, Removing
<1>i. appReq[r].pc # "idle"
  BY DEF StopUnit, DisableUnit, RemoveSudoers, Unmanage, RemoveUnit, ClearApp, RefreshProxy
<1>h. /\ appReq[r].site \in AppSites /\ appReq[r].row.service \in AppServices
      /\ RuleOf(r) \in AppSites \X AppServices
  BY <1>t, <1>i, AppHeld
<1>g. \A pc \in AppPcs : AppGoTo(r, pc) => Pending' /\ AppInHand'
  BY <1>t, <1>i, AppTakes
<1>f. AppFinish(r) => Pending' /\ AppInHand'
  BY <1>t, AppLetsGo
<1>c. AppFault \/ AppWorks => AppNumbered'
  BY <1>t, AppCounting
<1>b. \A pc \in AppPcs : RemovalFails(r, pc) =>
        /\ Pending' /\ AppInHand' /\ AppNumbered' /\ cutApps' \subseteq AppSites
        /\ leftServices' \subseteq AppServices /\ contested' \subseteq AppServices
  BY <1>t, <1>i, AppLeaves DEF Typed
<1>s. \A pc \in AppPcs : RemovalStep(r, pc) =>
        /\ Pending' /\ AppInHand' /\ AppNumbered' /\ cutApps' \subseteq AppSites
        /\ leftServices' \subseteq AppServices /\ contested' \subseteq AppServices
  BY <1>t, <1>g, <1>c DEF RemovalStep, Typed, appGhosts
<1>1. CASE StopUnit(r)
  BY <1>1, <1>t, <1>h, <1>p, <1>b, <1>s DEF StopUnit, Typed, AppAnyhow
<1>2. CASE DisableUnit(r)
  BY <1>2, <1>t, <1>h, <1>p, <1>b, <1>s DEF DisableUnit, Typed, AppAnyhow
<1>3. CASE RemoveSudoers(r)
  BY <1>3, <1>t, <1>h, <1>p, <1>b, <1>s DEF RemoveSudoers, Typed, AppAnyhow
<1>4. CASE Unmanage(r)
  BY <1>4, <1>t, <1>h, <1>p, <1>b, <1>s DEF Unmanage, Typed, AppAnyhow, appHost
<1>5. CASE RemoveUnit(r)
  BY <1>5, <1>t, <1>h, <1>p, <1>b, <1>s DEF RemoveUnit, Typed, AppAnyhow
<1>6. CASE ClearApp(r)
  BY <1>6, <1>t, <1>h, <1>p, <1>g, <1>f, <1>c DEF ClearApp, Typed, AppAnyhow
<1>7. CASE RefreshProxy(r)
  BY <1>7, <1>t, <1>h, <1>f, <1>c DEF RefreshProxy, Typed, AppAnyhow
<1> QED BY <1>1, <1>2, <1>3, <1>4, <1>5, <1>6, <1>7

LEMMA AppsTypedStep == AppAnyhow /\ [AppsNext]_appVars => AppAnyhow'
<1> SUFFICES ASSUME AppAnyhow, [AppsNext]_appVars PROVE AppAnyhow'
  OBVIOUS
<1>t. Typed /\ AppNumbered /\ Pending /\ AppInHand
  BY DEF AppAnyhow
<1>v. \A v \in AppServices : /\ Started(v) \in [AppServices -> AppPorts \cup {NoPort}]
                             /\ Restarted(v) \in [AppServices -> AppPorts \cup {NoPort}]
  BY <1>t DEF Started, Restarted, Typed
<1>1. CASE ProcessEnds
  BY <1>1, <1>t, <1>v, AppCounting
  DEF ProcessEnds, AppAnyhow, Typed, Pending, AppInHand, appGhosts
<1>2. CASE AppCrash
  <2>1. Pending' /\ AppInHand'
    BY <1>2, NoAppRequest DEF AppCrash, Pending, AppInHand
  <2>2. \A r \in AppRequests : appReq[r].pc # "idle" =>
          appReq[r].site \in AppSites /\ appReq[r].row.service \in AppServices
    BY <1>t, AppHeld
  <2>3. cutApps' \subseteq AppSites /\ leftServices' \subseteq AppServices
    BY <1>2, <1>t, <2>2 DEF AppCrash, Typed
  <2>4. running' \in [AppServices -> AppPorts \cup {NoPort}]
    BY <1>2, <1>t DEF AppCrash, Typed
  <2> QED BY <1>2, <1>t, <2>1, <2>3, <2>4, AppCounting DEF AppCrash, Typed, AppAnyhow
<1>3. CASE UNCHANGED appVars
  BY <1>3 DEF appVars, AppAnyhow, Typed, AppNumbered, Pending, AppInHand
<1>4. ASSUME NEW r \in AppRequests, AppStep(r) PROVE AppAnyhow'
  <2>1. CASE AppRefused(r)
    BY <1>3, <2>1 DEF AppRefused
  <2>2. CASE ServiceAction(r)
    <3>1. Pending' /\ AppInHand'
      BY <2>2, <1>t, AppLetsGo DEF ServiceAction
    <3>2. PICK s \in Hosted :
            /\ running' \in {running, Started(apps[s].service), Restarted(apps[s].service),
                             [running EXCEPT ![apps[s].service] = NoPort]}
            /\ boot' \in {boot, boot \cup {apps[s].service}, boot \ {apps[s].service}}
      BY <2>2 DEF ServiceAction
    <3>3. /\ running' \in [AppServices -> AppPorts \cup {NoPort}]
          /\ boot' \subseteq AppServices
      BY <1>t, <1>v, <3>2, HostedParts DEF Typed
    <3> QED BY <2>2, <1>t, <3>1, <3>3, AppCounting DEF ServiceAction, Typed, AppAnyhow, appGhosts
  <2> QED BY <1>4, <2>1, <2>2, AppsAccept, AppsInstall, AppsRemove DEF AppStep
<1> QED BY <1>1, <1>2, <1>3, <1>4 DEF AppsNext

\* The types of the table, the host and the requests, however the requests overlap
\* (AppService, and installService's files).
THEOREM AppsTypes == AppsSpec => []AppsTypeOK
<1>1. AppsInit => AppAnyhow
  BY NoAppRequest, AppsAssumption DEF AppsInit, AppAnyhow, Typed, AppNumbered, Pending, AppInHand
<1>2. AppAnyhow => AppsTypeOK
  BY DEF AppAnyhow, AppsTypeOK, Typed, AppNumbered, Pending
<1> QED BY <1>1, <1>2, AppsTypedStep, PTL DEF AppsSpec
=============================================================================

------------------------------- MODULE Alerts -------------------------------
(***************************************************************************)
(* The health checks of a platform and the alerts they open (CheckHealth    *)
(* and syncAlerts in src/internal/services/platform_ops_service.go): what a *)
(* check sees is read piece by piece, its row is inserted, and each kind of *)
(* alert is then opened or resolved, with a webhook for an alert that is    *)
(* new.  The panel and the command line both run checks.                    *)
(***************************************************************************)
EXTENDS Integers, FiniteSets

CONSTANTS
  Checkers,          \* who runs checks: a request of the panel, the command line
  AlOverlapping,     \* may two checks run at a time?
  MaxChecks,         \* bound on the checks
  MaxHealthChanges,  \* bound on the changes of what is checked
  MaxAlertFailures   \* bound on failing reads and writes, and on ends of a process

ASSUME AlertsAssumption ==
  /\ AlOverlapping \in BOOLEAN
  /\ MaxChecks \in Nat /\ MaxHealthChanges \in Nat /\ MaxAlertFailures \in Nat

\* A certificate whose row has no expiry is "unknown".
CertStates == {"none", "valid", "expiring", "expired", "unknown"}
Kinds == {"service_down", "ssl_expiring", "disk_high"}
KindAfter == [service_down |-> "ssl_expiring", ssl_expiring |-> "disk_high", disk_high |-> "idle"]
Rank == [ok |-> 0, warning |-> 1, critical |-> 2]
WorseStatus(current, next) == IF Rank[next] > Rank[current] THEN next ELSE current

VARIABLES
  unitUp, answers, cert, full,  \* the host: the unit, its health path, the certificate, the disk
  latest,     \* the row of the latest check
  alerts,     \* by kind, the rows: how many there are, are open, and were sent to the webhook
  check,      \* by checker, the check it runs
  begun, healthChanges, alertFailures,
  unwritten   \* ghost: did a check that has its row not write its alerts?

alertVars == <<unitUp, answers, cert, full, latest, alerts, check, begun, healthChanges,
               alertFailures, unwritten>>

Row == [at : 0..MaxChecks, status : DOMAIN Rank, service : {"running", "stopped", "unknown"},
        ssl : CertStates, disk : BOOLEAN]
NoRow == [at |-> 0, status |-> "ok", service |-> "unknown", ssl |-> "none", disk |-> FALSE]
NoCheck == [pc |-> "idle", row |-> NoRow, next |-> "idle"]
CheckSteps == {"idle", "http", "ssl", "disk", "store", "tell"} \cup Kinds

AlFault == alertFailures < MaxAlertFailures /\ alertFailures' = alertFailures + 1
AlWorks == UNCHANGED alertFailures
HostAsIs == UNCHANGED <<unitUp, answers, cert, full, healthChanges>>
RowsAsAre == UNCHANGED <<latest, alerts, unwritten>>
Goes(c, pc, row) == check' = [check EXCEPT ![c].pc = pc, ![c].row = row]
\* A row that saw one more thing, which makes the status worse or leaves it.
Noted(row, status) == [row EXCEPT !.status = WorseStatus(@, status)]

-----------------------------------------------------------------------------
\* The time of a check is that of its beginning; the status of the unit is read first.
CheckHealth(c) ==
  /\ check[c].pc = "idle" /\ begun < MaxChecks /\ begun' = begun + 1
  /\ AlOverlapping \/ \A d \in Checkers : check[d].pc = "idle"
  /\ LET new == [NoRow EXCEPT !.at = begun'] IN
     \/ AlWorks /\ Goes(c, "http", IF unitUp THEN [new EXCEPT !.service = "running"]
                                   ELSE Noted([new EXCEPT !.service = "stopped"], "critical"))
     \/ AlFault /\ Goes(c, "http", Noted(new, "warning"))
  /\ RowsAsAre /\ HostAsIs

\* The health path of the unit if it has one, else the domain, whose silence is only a warning.
ProbeHTTP(c) ==
  /\ check[c].pc = "http"
  /\ \/ answers /\ Goes(c, "ssl", check[c].row)
     \/ ~answers /\ \E status \in {"warning", "critical"} :
                      Goes(c, "ssl", Noted(check[c].row, status))
  /\ RowsAsAre /\ HostAsIs /\ AlWorks /\ UNCHANGED begun

\* sslExpiry: a certificate that cannot be read is taken for none.
SslExpiry(c) ==
  /\ check[c].pc = "ssl"
  /\ \/ /\ AlWorks
        /\ LET seen == [check[c].row EXCEPT !.ssl = cert] IN
           Goes(c, "disk", CASE cert = "expired" -> Noted(seen, "critical")
                             [] cert \in {"expiring", "unknown"} -> Noted(seen, "warning")
                             [] OTHER -> seen)
     \/ AlFault /\ Goes(c, "disk", check[c].row)
  /\ RowsAsAre /\ HostAsIs /\ UNCHANGED begun

DiskUsed(c) ==
  /\ check[c].pc = "disk"
  /\ \/ /\ AlWorks
        /\ Goes(c, "store", IF full THEN Noted([check[c].row EXCEPT !.disk = TRUE], "critical")
                            ELSE check[c].row)
     \/ AlFault /\ Goes(c, "store", Noted(check[c].row, "warning"))
  /\ RowsAsAre /\ HostAsIs /\ UNCHANGED begun

\* The row; an insert that fails ends the check.  The latest row is the one with the latest time.
StoreCheck(c) ==
  /\ check[c].pc = "store"
  /\ \/ /\ latest' = IF check[c].row.at > latest.at THEN check[c].row ELSE latest
        /\ unwritten' = FALSE /\ AlWorks /\ Goes(c, "service_down", check[c].row)
     \/ /\ AlFault /\ check' = [check EXCEPT ![c] = NoCheck]
        /\ UNCHANGED <<latest, unwritten>>
  /\ UNCHANGED <<alerts, begun>> /\ HostAsIs

\* A mutant: a certificate that has expired is not expiring any more.
ExpiringOnly(row, kind) == CASE kind = "service_down" -> row.service = "stopped"
                             [] kind = "ssl_expiring" -> row.ssl = "expiring"
                             [] kind = "disk_high"    -> row.disk

\* What opens an alert of a kind; anything else, what could not be read too, resolves it.
Active(row, kind) == CASE kind = "service_down" -> row.service = "stopped"
                       [] kind = "ssl_expiring" -> row.ssl \in {"expiring", "expired"}
                       [] kind = "disk_high"    -> row.disk

ToNextKind(c, kind) == check' = [check EXCEPT ![c] = IF KindAfter[kind] = "idle" THEN NoCheck
                                                ELSE [@ EXCEPT !.pc = KindAfter[kind]]]

\* OpenOrUpdate and Resolve: an error of either is dropped.
SyncAlert(c, kind) ==
  /\ check[c].pc = kind
  /\ LET active == Active(check[c].row, kind) IN
     \/ /\ active /\ alerts[kind].open = 0
        /\ alerts' = [alerts EXCEPT ![kind].open = 1, ![kind].rows = @ + 1]
        /\ check' = [check EXCEPT ![c].pc = "tell", ![c].next = kind]
        /\ AlWorks /\ UNCHANGED unwritten
     \/ /\ active /\ alerts[kind].open # 0 /\ UNCHANGED alerts
        /\ ToNextKind(c, kind) /\ AlWorks /\ UNCHANGED unwritten
     \/ /\ ~active /\ alerts' = [alerts EXCEPT ![kind].open = 0]
        /\ ToNextKind(c, kind) /\ AlWorks /\ UNCHANGED unwritten
     \/ AlFault /\ ToNextKind(c, kind) /\ UNCHANGED alerts /\ unwritten' = TRUE
  /\ UNCHANGED <<latest, begun>> /\ HostAsIs

\* sendAlertWebhook: once, whatever it answers.
SendAlertWebhook(c) ==
  /\ check[c].pc = "tell"
  /\ alerts' = [alerts EXCEPT ![check[c].next].told = @ + 1]
  /\ ToNextKind(c, check[c].next)
  /\ UNCHANGED <<latest, begun, unwritten>> /\ HostAsIs /\ AlWorks

-----------------------------------------------------------------------------
\* The process of a check ends, or its machine does.
CheckerDies(c) ==
  /\ check[c].pc # "idle" /\ AlFault
  /\ unwritten' = (unwritten \/ check[c].pc \in Kinds \cup {"tell"})
  /\ check' = [check EXCEPT ![c] = NoCheck]
  /\ UNCHANGED <<latest, alerts, begun>> /\ HostAsIs

HealthChanges ==
  /\ healthChanges < MaxHealthChanges /\ healthChanges' = healthChanges + 1
  /\ \/ unitUp' = ~unitUp /\ UNCHANGED <<answers, cert, full>>
     \/ answers' = ~answers /\ UNCHANGED <<unitUp, cert, full>>
     \/ cert' \in CertStates /\ UNCHANGED <<unitUp, answers, full>>
     \/ full' = ~full /\ UNCHANGED <<unitUp, answers, cert>>
  /\ RowsAsAre /\ AlWorks /\ UNCHANGED <<check, begun>>

AlertsInit ==
  /\ unitUp = TRUE /\ answers = TRUE /\ cert = "valid" /\ full = FALSE
  /\ latest = NoRow /\ alerts = [k \in Kinds |-> [rows |-> 0, open |-> 0, told |-> 0]]
  /\ check = [c \in Checkers |-> NoCheck]
  /\ begun = 0 /\ healthChanges = 0 /\ alertFailures = 0 /\ unwritten = FALSE
AlertsNext ==
  \/ \E c \in Checkers :
       \/ CheckHealth(c) \/ ProbeHTTP(c) \/ SslExpiry(c) \/ DiskUsed(c) \/ StoreCheck(c)
       \/ SendAlertWebhook(c) \/ CheckerDies(c)
       \/ \E kind \in Kinds : SyncAlert(c, kind)
  \/ HealthChanges
AlertsSpec == AlertsInit /\ [][AlertsNext]_alertVars

-----------------------------------------------------------------------------
AlertsTypeOK ==
  /\ unitUp \in BOOLEAN /\ answers \in BOOLEAN /\ cert \in CertStates /\ full \in BOOLEAN
  /\ latest \in Row
  /\ alerts \in [Kinds -> [rows : 0..MaxChecks, open : 0..MaxChecks, told : 0..MaxChecks]]
  /\ check \in [Checkers -> [pc : CheckSteps, row : Row, next : Kinds \cup {"idle"}]]
  /\ begun \in 0..MaxChecks /\ healthChanges \in 0..MaxHealthChanges
  /\ alertFailures \in 0..MaxAlertFailures /\ unwritten \in BOOLEAN

\* Between checks the history and the alerts of a platform agree, whatever changed meanwhile:
\* a platform whose latest check is ok has no open alert, an expired certificate, a full disk
\* or a stopped unit of that check has one, and no alert is sent twice; unless the writes of
\* that check failed, or its process ended among them.
AlertsAgree ==
  (\A c \in Checkers : check[c].pc = "idle") =>
    /\ ~unwritten =>
         /\ latest.status = "ok" => \A k \in Kinds : alerts[k].open = 0
         /\ latest.ssl = "expired" \/ latest.disk \/ latest.service = "stopped" =>
              latest.status = "critical" /\ \E k \in Kinds : alerts[k].open = 1
         /\ (latest.ssl = "expired") => alerts["ssl_expiring"].open = 1
    /\ \A k \in Kinds : alerts[k].told <= alerts[k].rows /\ alerts[k].open <= 1
=============================================================================

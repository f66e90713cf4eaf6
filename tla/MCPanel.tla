------------------------------- MODULE MCPanel -------------------------------
(***************************************************************************)
(* What DeployCP does for itself, for the runtimes of the host and for      *)
(* transfers: one model of it for TLC.  The components keep their rows,     *)
(* files and processes apart, so each behavior is of one of them, from its  *)
(* own initial states, and the others stay as they are.                     *)
(***************************************************************************)
EXTENDS SelfUpdate, Migrations, PanelDomain, Access, Runtimes, ScpTransfer

\* Directory 1 has a file, a directory with a file, and another file.
Entries == [d \in Directories |-> IF d = 1 THEN <<2, 3, 5>> ELSE <<4>>]

VARIABLE component
panelVars == <<component, upVars, migrationVars, pdVars, acVars, rtVars, scpVars>>

\* Where an initial state of a component is one of several, the others begin in one of them.
PanelInit ==
  /\ component \in {"update", "migrations", "domain", "access", "runtimes", "transfer"}
  /\ goApps \in {NoTable} \cup IF component = "migrations" THEN {LegacyApps} ELSE {}
  /\ websites \in {NoTable} \cup IF component = "migrations" THEN {LegacySites, {}} ELSE {}
  /\ platforms \in {LegacySites} \cup
       IF component = "migrations" THEN {NoTable, {}, NewSites} ELSE {}
  /\ linked \in IF component = "migrations" THEN [LegacyApps -> LegacySites \cup {0}]
                ELSE {[a \in LegacyApps |-> 0]}
  /\ cli \in IF component = "runtimes" THEN {{}} \cup {{v} : v \in Phps} ELSE {{}}
  /\ asked \in IF component = "transfer" THEN Requests ELSE {CHOOSE q \in Requests : TRUE}
  /\ SelfUpdateInit /\ MigrationsInit /\ PdInit /\ AccessInit /\ RuntimesInit /\ ScpInit

UpdateOf(A) ==
  /\ component = "update" /\ A
  /\ UNCHANGED <<component, migrationVars, pdVars, acVars, rtVars, scpVars>>
MigrationOf(A) ==
  /\ component = "migrations" /\ A
  /\ UNCHANGED <<component, upVars, pdVars, acVars, rtVars, scpVars>>
TransferOf(A) ==
  /\ component = "transfer" /\ A
  /\ UNCHANGED <<component, upVars, migrationVars, pdVars, acVars, rtVars>>
UpdatesStep    == UpdateOf(SelfUpdateNext)
MigrationsStep == MigrationOf(MigrationsNext)
TransferStep   == TransferOf(ScpNext)
DomainStep ==
  /\ component = "domain" /\ PdNext
  /\ UNCHANGED <<component, upVars, migrationVars, acVars, rtVars, scpVars>>
AccessStep ==
  /\ component = "access" /\ AccessNext
  /\ UNCHANGED <<component, upVars, migrationVars, pdVars, rtVars, scpVars>>
RuntimesStep ==
  /\ component = "runtimes" /\ RuntimesNext
  /\ UNCHANGED <<component, upVars, migrationVars, pdVars, acVars, scpVars>>

PanelNext ==
  \/ UpdatesStep \/ MigrationsStep \/ TransferStep \/ DomainStep \/ AccessStep \/ RuntimesStep

\* The fairness of SelfUpdateSpec, MigrationsSpec and ScpSpec.
PanelFairness ==
  /\ WF_panelVars(UpdateOf(Launch)) /\ WF_panelVars(UpdateOf(LaunchReturns))
  /\ WF_panelVars(UpdateOf(PanelRestarts)) /\ WF_panelVars(UpdateOf(Expire))
  /\ \A u \in Updaters : WF_panelVars(UpdateOf(UpdaterStep(u)))
  /\ WF_panelVars(MigrationOf(Migrate))
  /\ WF_panelVars(TransferOf(ScpSend)) /\ WF_panelVars(TransferOf(ScpReceive))
PanelSpec == PanelInit /\ [][PanelNext]_panelVars /\ PanelFairness

-----------------------------------------------------------------------------
\* Tables, files, host and requests of each component are of the types of the code.
PanelTypeOK ==
  CASE component = "update" -> SelfUpdateTypeOK
    [] component = "migrations" -> MigrationsTypeOK
    [] component = "domain" -> PdTypeOK
    [] component = "access" -> AccessTypeOK
    [] component = "runtimes" -> RuntimesTypeOK
    [] component = "transfer" -> ScpTypeOK

\* The panel comes up from old tables (database.go), and a transfer ends at both ends
\* (transfer.go).
StartsSettle  == component = "migrations" => MigrationsSettle
TransfersEnd  == component = "transfer" => ScpEnds
=============================================================================

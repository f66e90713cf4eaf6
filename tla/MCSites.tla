------------------------------- MODULE MCSites -------------------------------
(***************************************************************************)
(* What DeployCP does for the platforms, beside their virtual hosts and     *)
(* users: one model of it for TLC.  The components keep their rows, files   *)
(* and processes apart, so each behavior is of one of them, from its own    *)
(* initial states, and the others stay as they are.                         *)
(***************************************************************************)
EXTENDS Databases, Apps, AppTools, Deploys, Backups, Certificates, Alerts, FileManager, TLC

CONSTANTS t1, t2, v1, v2   \* sites and service names of the forms

\* The forms of one site take two bindings, with the port in the environment and the service
\* enabled or with neither; those of the other may name the same service.
Form(v, h, p, env, on) ==
  [service |-> v, bind |-> [host |-> h, port |-> p], env |-> env,
   argued |-> FALSE, enabled |-> on]
Bindings == {<<"any", 1>>, <<"loop", 2>>}
Forms == t1 :> {Form(v1, b[1], b[2], b[2], TRUE) : b \in Bindings}
               \cup {Form(v1, b[1], b[2], NoPort, FALSE) : b \in Bindings}
         @@ t2 :> {Form(v, "loop", 1, 1, TRUE) : v \in {v1, v2}}
\* Runtime settings that move a service to another port, and one of them to gunicorn.
RuntimeSettings == t1 :> {[port |-> 2, argued |-> FALSE], [port |-> 1, argued |-> TRUE]}
                   @@ t2 :> {[port |-> p, argued |-> FALSE] : p \in {1, 2}}

\* Two domains of one platform and one of another.
SitesOfDomains == [d \in CertDomains |-> IF d = 3 THEN 2 ELSE 1]
\* The directory 1 holds a file.  The free name after 2, and the directory archives go to.
LogFiles == {<<1, 2>>}
NumberedNames == [n \in Names |-> IF n = 2 THEN <<3>> ELSE <<>>]
UnpackedNames == [n \in {2, 4} |-> <<3>>]

-----------------------------------------------------------------------------
VARIABLE component
sitesVars == <<component, dbVars, appVars, toolVars, dpVars, bkVars, certVars, alertVars, fmVars>>

\* Where an initial state of a component is one of several, the others begin in one of them.
SitesInit ==
  /\ component \in {"databases", "apps", "tools", "deploys", "backups", "certificates",
                    "alerts", "files"}
  /\ access \in IF component = "databases" THEN DbAccess ELSE {"cli"}
  /\ kind \in IF component = "tools" THEN {"python", "node"} ELSE {"node"}
  /\ onHost \in IF component = "tools" THEN SUBSET ToolVersions ELSE {{}}
  /\ repo \in IF component = "deploys"
              THEN {NoDp, [follows |-> Branches, refs |-> [b \in Branches |-> 0]]} ELSE {NoDp}
  /\ worktree \in IF component = "deploys" THEN {NoDp, Unknown, 0} ELSE {NoDp}
  /\ issuing \in IF component = "certificates" THEN IssueModes ELSE {"certbot"}
  /\ asUser \in IF component = "files" THEN BOOLEAN ELSE {TRUE}
  /\ DbInit /\ AppsInit /\ ToolsInit /\ DeploysInit /\ BackupsInit /\ CertInit /\ AlertsInit
  /\ FmInit

DatabasesStep ==
  /\ component = "databases" /\ DbNext
  /\ UNCHANGED <<component, appVars, toolVars, dpVars, bkVars, certVars, alertVars, fmVars>>
AppsStep ==
  /\ component = "apps" /\ AppsNext
  /\ UNCHANGED <<component, dbVars, toolVars, dpVars, bkVars, certVars, alertVars, fmVars>>
ToolsStep ==
  /\ component = "tools" /\ ToolsNext
  /\ UNCHANGED <<component, dbVars, appVars, dpVars, bkVars, certVars, alertVars, fmVars>>
DeploysStep ==
  /\ component = "deploys" /\ DeploysNext
  /\ UNCHANGED <<component, dbVars, appVars, toolVars, bkVars, certVars, alertVars, fmVars>>
BackupsStep ==
  /\ component = "backups" /\ BackupsNext
  /\ UNCHANGED <<component, dbVars, appVars, toolVars, dpVars, certVars, alertVars, fmVars>>
CertificatesStep ==
  /\ component = "certificates" /\ CertNext
  /\ UNCHANGED <<component, dbVars, appVars, toolVars, dpVars, bkVars, alertVars, fmVars>>
AlertsStep ==
  /\ component = "alerts" /\ AlertsNext
  /\ UNCHANGED <<component, dbVars, appVars, toolVars, dpVars, bkVars, certVars, fmVars>>
FilesStep ==
  /\ component = "files" /\ FmNext
  /\ UNCHANGED <<component, dbVars, appVars, toolVars, dpVars, bkVars, certVars, alertVars>>

SitesNext ==
  \/ DatabasesStep \/ AppsStep \/ ToolsStep \/ DeploysStep \/ BackupsStep \/ CertificatesStep
  \/ AlertsStep \/ FilesStep
SitesSpec == SitesInit /\ [][SitesNext]_sitesVars

-----------------------------------------------------------------------------
\* Tables, host and requests of each component are of the types of the code.
SitesTypeOK ==
  CASE component = "databases" -> DatabasesTypeOK
    [] component = "apps" -> AppsTypeOK
    [] component = "tools" -> ToolsTypeOK
    [] component = "deploys" -> DeploysTypeOK
    [] component = "backups" -> BackupsTypeOK
    [] component = "certificates" -> CertTypeOK
    [] component = "alerts" -> AlertsTypeOK
    [] component = "files" -> FmTypeOK
=============================================================================

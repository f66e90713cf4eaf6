------------------------------ MODULE AppTools ------------------------------
(***************************************************************************)
(* The tools of a platform that runs Python or Node (preparePythonRuntime   *)
(* and prepareNodeRuntime in src/internal/services/app_service.go): a       *)
(* virtual environment, or the process manager pm2, made with the version   *)
(* the platform selects, kept from one installation of its unit to the      *)
(* next, and made again when a marker file beside it names another version. *)
(***************************************************************************)
EXTENDS Integers

CONSTANTS
  ToolVersions,    \* the versions that can be selected; 0 is the one of the system
  MaxToolChanges,  \* bound on the changes of the platform and of the host
  MaxToolFailures  \* bound on failing commands, removals and writes

ASSUME ToolsAssumption ==
  /\ ToolVersions \subseteq Nat \ {0} /\ MaxToolChanges \in Nat /\ MaxToolFailures \in Nat

Versions0 == ToolVersions \cup {0}
NoVersion == -1
Managers == {"systemd", "gunicorn", "uwsgi", "pm2"}
\* The directory: the version its interpreter (or pm2) was made with, whether pip works, the
\* managers in it, and what the marker says (0: an empty file).
NoTree == [by |-> NoVersion, pip |-> FALSE, managers |-> {}, marker |-> NoVersion]
Trees == [by : Versions0 \cup {NoVersion}, pip : BOOLEAN,
          managers : SUBSET {"gunicorn", "uwsgi", "pm2"}, marker : Versions0 \cup {NoVersion}]

VARIABLES
  kind,      \* the runtime of the platform: "python" or "node"
  onHost,    \* the versions installed
  selected, manager,
  tree,
  starts,    \* what the unit would start, as the last preparation that succeeded left it
  prep, toolChanges, toolFailures,
  halfGone,  \* ghost: did a removal stop half way?
  fellBack,  \* ghost: was the tree made when the version was not on the host?
  unfinished \* ghost: did a preparation fail since the tree was last removed?

toolVars == <<kind, onHost, selected, manager, tree, starts, prep, toolChanges, toolFailures,
              halfGone, fellBack, unfinished>>

Steps == {"idle", "drop", "create", "manager", "needs", "mark", "own"}
Nothing == [manager |-> "none", want |-> NoVersion]
NoPrep == [pc |-> "idle", want |-> NoVersion]

ToolsEnd == prep' = NoPrep /\ starts' = Nothing /\ unfinished' = TRUE
ToolFault == /\ toolFailures < MaxToolFailures /\ toolFailures' = toolFailures + 1
             /\ ToolsEnd
ToolGoes(pc) == /\ prep' = [prep EXCEPT !.pc = pc]
                /\ UNCHANGED <<toolFailures, starts, unfinished>>
Selection == UNCHANGED <<kind, onHost, selected, manager, toolChanges>>
\* ResolveBinary: the version's own interpreter, or the one of the system.
Resolved(v) == IF v \in onHost THEN v ELSE 0
\* pythonUsesManagedVenv, nodeUsesManagedRuntime; the tools of node are those of pm2.
UsesTools == IF kind = "python" THEN manager # "pm2" ELSE manager = "pm2"
Made == IF kind = "python" THEN tree.by # NoVersion ELSE "pm2" \in tree.managers

-----------------------------------------------------------------------------
\* The platform selects another manager, and a version that is on the host or none; the host
\* gains or loses one.
Select(v, m) ==
  /\ prep.pc = "idle" /\ toolChanges < MaxToolChanges /\ toolChanges' = toolChanges + 1
  /\ m \in Managers /\ v \in onHost \cup {0}
  /\ selected' = v /\ manager' = m /\ starts' = Nothing
  /\ UNCHANGED <<kind, onHost, tree, prep, toolFailures, halfGone, fellBack, unfinished>>

ChangeHost(v) ==
  /\ toolChanges < MaxToolChanges /\ toolChanges' = toolChanges + 1
  /\ onHost' = IF v \in onHost THEN onHost \ {v} ELSE onHost \cup {v}
  /\ UNCHANGED <<kind, selected, manager, tree, starts, prep, toolFailures, halfGone, fellBack,
                 unfinished>>

\* An installation of the unit prepares the tools.  A node platform installs the packages of
\* its own directory first, every time.
PrepareRuntime ==
  /\ prep.pc = "idle" /\ UsesTools
  /\ \/ /\ prep' = [pc |-> "drop", want |-> selected]
        /\ UNCHANGED <<toolFailures, starts, unfinished>>
     \/ ToolFault
  /\ UNCHANGED <<tree, halfGone, fellBack>> /\ Selection

\* A mutant: tools with no marker are taken for those of the version.
KeptUnmarked == Made /\ tree.marker \notin {prep.want, NoVersion}

\* The tools are made again when the marker names another version, or when there is none and a
\* version is selected.
VersionChanged ==
  Made /\ IF tree.marker = NoVersion THEN prep.want # 0 ELSE tree.marker # prep.want

RecreateWhenVersionChanged ==
  /\ prep.pc = "drop"
  /\ \/ ~VersionChanged /\ ToolGoes("create") /\ UNCHANGED <<tree, halfGone, fellBack>>
     \/ /\ VersionChanged /\ tree' = NoTree
        /\ prep' = [prep EXCEPT !.pc = "create"] /\ unfinished' = FALSE /\ fellBack' = FALSE
        /\ UNCHANGED <<toolFailures, starts, halfGone>>
     \/ /\ VersionChanged /\ ToolFault /\ halfGone' = TRUE
        /\ tree' \in {[NoTree EXCEPT !.marker = tree.marker], [tree EXCEPT !.marker = NoVersion]}
        /\ UNCHANGED fellBack
  /\ Selection

\* What a command run with the version selected makes is of that version, if it is there.
MadeBy(pipWorks, managers) ==
  /\ tree' = [tree EXCEPT !.by = Resolved(prep.want), !.pip = pipWorks, !.managers = managers]
  /\ fellBack' = (fellBack \/ Resolved(prep.want) # prep.want)
AsItWas == UNCHANGED <<tree, fellBack>>

\* python -m venv, when there is no interpreter: it may stop before pip is there.
CreateVenv ==
  /\ prep.pc = "create" /\ kind = "python"
  /\ \/ Made /\ ToolGoes("manager") /\ AsItWas
     \/ ~Made /\ ToolGoes("manager") /\ MadeBy(TRUE, tree.managers)
     \/ ~Made /\ ToolFault /\ (AsItWas \/ MadeBy(FALSE, tree.managers))
  /\ Selection /\ UNCHANGED halfGone

\* pip install gunicorn or uwsgi, npm install pm2, when it is not there.
InstallManager ==
  /\ \/ kind = "python" /\ prep.pc = "manager"
     \/ kind = "node" /\ prep.pc = "create"
  /\ \/ manager \in tree.managers \cup {"systemd"} /\ ToolGoes("needs") /\ AsItWas
     \/ /\ manager \notin tree.managers \cup {"systemd"}
        /\ \/ kind = "python" /\ tree.pip /\ ToolGoes("needs") /\ UNCHANGED fellBack
              /\ tree' = [tree EXCEPT !.managers = @ \cup {manager}]
           \/ kind = "python" /\ ~tree.pip /\ ToolsEnd /\ UNCHANGED toolFailures /\ AsItWas
           \/ kind = "node" /\ ToolGoes("needs") /\ MadeBy(FALSE, {manager})
           \/ ToolFault /\ AsItWas
  /\ Selection /\ UNCHANGED halfGone

\* What requirements.txt lists, if there is one, every time.
InstallNeeds ==
  /\ prep.pc = "needs"
  /\ \/ ToolGoes("mark")
     \/ kind = "python" /\ ~tree.pip /\ ToolsEnd /\ UNCHANGED toolFailures
     \/ kind = "python" /\ ToolFault
  /\ AsItWas /\ UNCHANGED halfGone /\ Selection

\* The marker is written last, and only when a version is selected.
WriteVersionMarker ==
  /\ prep.pc = "mark"
  /\ \/ /\ tree' = IF prep.want = 0 THEN tree ELSE [tree EXCEPT !.marker = prep.want]
        /\ ToolGoes("own")
     \/ prep.want # 0 /\ ToolFault /\ tree' \in {tree, [tree EXCEPT !.marker = 0]}
  /\ Selection /\ UNCHANGED <<halfGone, fellBack>>

ChownRuntime ==
  /\ prep.pc = "own"
  /\ \/ /\ starts' = [manager |-> manager, want |-> prep.want]
        /\ prep' = NoPrep /\ UNCHANGED <<toolFailures, unfinished>>
     \/ ToolFault
  /\ AsItWas /\ UNCHANGED halfGone /\ Selection

ToolsInit ==
  /\ kind \in {"python", "node"} /\ onHost \in SUBSET ToolVersions
  /\ selected = 0 /\ manager = "systemd" /\ tree = NoTree
  /\ starts = Nothing /\ prep = NoPrep /\ toolChanges = 0 /\ toolFailures = 0
  /\ halfGone = FALSE /\ fellBack = FALSE /\ unfinished = FALSE
ToolsNext ==
  \/ \E v \in Versions0, m \in Managers : Select(v, m)
  \/ \E v \in ToolVersions : ChangeHost(v)
  \/ PrepareRuntime \/ RecreateWhenVersionChanged \/ CreateVenv \/ InstallManager \/ InstallNeeds
  \/ WriteVersionMarker \/ ChownRuntime
ToolsSpec == ToolsInit /\ [][ToolsNext]_toolVars

-----------------------------------------------------------------------------
ToolsTypeOK ==
  /\ kind \in {"python", "node"} /\ onHost \subseteq ToolVersions
  /\ selected \in Versions0 /\ manager \in Managers /\ tree \in Trees
  /\ starts \in [manager : {"none"} \cup Managers, want : Versions0 \cup {NoVersion}]
  /\ prep \in [pc : Steps, want : Versions0 \cup {NoVersion}]
  /\ toolChanges \in 0..MaxToolChanges /\ toolFailures \in 0..MaxToolFailures
  /\ halfGone \in BOOLEAN /\ fellBack \in BOOLEAN /\ unfinished \in BOOLEAN

\* What a unit is given to start is there and was made with the version its platform selects,
\* whatever was selected and failed before: unless a removal stopped half way, the version was
\* not on the host, or no version is selected and the preparation before it failed.
ToolsFit ==
  prep = NoPrep /\ starts # Nothing =>
    /\ Made /\ starts.manager \in tree.managers \cup {"systemd"}
    /\ \/ tree.by = starts.want
       \/ halfGone \/ fellBack
       \/ starts.want = 0 /\ unfinished
=============================================================================

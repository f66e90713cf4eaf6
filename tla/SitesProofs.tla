---------------------------- MODULE SitesProofs ----------------------------
(***************************************************************************)
(* Proofs about what platforms run on: the tools of their runtimes          *)
(* (AppTools) and their deployments (Deploys), for any versions, branches,  *)
(* requests and failures; about the alerts (Alerts), for any checkers;      *)
(* about the backups (Backups), for any files and stores; about the         *)
(* certificates (Certificates), for any domains and failures; and about the *)
(* file manager (FileManager), for any names, trees and failures; last,     *)
(* about all of them beside each other, databases and applications too.     *)
(***************************************************************************)
EXTENDS MCSites, DatabasesProofs, AppsProofs, FiniteSetTheorems, WellFoundedInduction,
        SequenceTheorems, TLAPS

-----------------------------------------------------------------------------
(* The tools.  A preparation works towards the version it began with, and   *)
(* what the tree was made with is what its marker says.                     *)

Sound == tree.by = prep.want \/ halfGone \/ fellBack \/ (prep.want = 0 /\ unfinished)

Underway ==
  /\ prep.pc # "idle" => UsesTools /\ prep.want \in Versions0
  /\ prep.pc = "idle" => prep = NoPrep
  /\ kind = "node" => prep.pc # "manager"
  /\ prep.pc \in {"manager", "needs", "mark", "own"} => Made
  /\ prep.pc \in {"create", "manager", "needs", "mark", "own"} /\ Made => Sound
  /\ prep.pc \in {"needs", "mark", "own"} => manager \in tree.managers \cup {"systemd"}
  /\ prep.pc = "own" /\ tree.marker = NoVersion => prep.want = 0

Marked ==
  /\ Made /\ tree.marker # NoVersion =>
       tree.by = tree.marker \/ halfGone \/ fellBack \/ (tree.marker = 0 /\ unfinished)
  /\ Made /\ tree.marker = NoVersion /\ prep.pc \in {"idle", "drop"} =>
       tree.by = 0 \/ halfGone \/ fellBack \/ unfinished
  /\ ~Made /\ tree.marker # NoVersion => halfGone

ToolsInv == ToolsTypeOK /\ Underway /\ Marked /\ ToolsFit

Preps == [pc : Steps, want : Versions0 \cup {NoVersion}]
Startable == [manager : {"none"} \cup Managers, want : Versions0 \cup {NoVersion}]

\* The types without the two counters.
Formed ==
  /\ kind \in {"python", "node"} /\ onHost \subseteq ToolVersions
  /\ selected \in Versions0 /\ manager \in Managers /\ tree \in Trees
  /\ starts \in Startable /\ prep \in Preps
  /\ halfGone \in BOOLEAN /\ fellBack \in BOOLEAN /\ unfinished \in BOOLEAN
Numbers == toolChanges \in 0..MaxToolChanges /\ toolFailures \in 0..MaxToolFailures

LEMMA TypeParts == ToolsTypeOK <=> Formed /\ Numbers
BY DEF ToolsTypeOK, Formed, Numbers, Preps, Startable

\* The values that stand for nothing, and the parts of a tree and of a preparation.
LEMMA Nothings ==
  /\ NoTree \in Trees /\ NoTree.by = NoVersion /\ NoTree.managers = {} /\ NoTree.marker = NoVersion
  /\ Nothing \in Startable /\ NoPrep \in Preps /\ NoPrep.pc = "idle"
  /\ NoVersion \notin Versions0 /\ 0 \in Versions0 /\ ToolVersions \subseteq Versions0
BY ToolsAssumption DEF Trees, NoTree, Preps, Startable, Steps, NoPrep, Nothing, Versions0,
   NoVersion

LEMMA Parts ==
  ASSUME Formed
  PROVE  /\ tree.by \in Versions0 \cup {NoVersion}
         /\ tree.managers \subseteq {"gunicorn", "uwsgi", "pm2"}
         /\ tree.marker \in Versions0 \cup {NoVersion}
         /\ prep.pc \in Steps /\ prep.want \in Versions0 \cup {NoVersion}
BY DEF Formed, Trees, Preps

\* Steps that go on, and steps that end in an error.
PrepAt(pc) ==
  prep' \in Preps /\ prep'.pc = pc /\ prep'.want = prep.want /\ UNCHANGED <<starts, unfinished>>
PrepOver == prep' = NoPrep /\ starts' = Nothing /\ unfinished' = TRUE
TreeIs(by, managers, marker) ==
  tree' \in Trees /\ tree'.by = by /\ tree'.managers = managers /\ tree'.marker = marker

LEMMA GoesTo ==
  ASSUME Formed, NEW pc \in Steps, ToolGoes(pc)
  PROVE  PrepAt(pc)
BY DEF Formed, ToolGoes, PrepAt, Preps

LEMMA Over == ToolFault \/ ToolsEnd => PrepOver
BY DEF ToolFault, ToolsEnd, PrepOver

LEMMA Remade ==
  ASSUME Formed, NEW pip \in BOOLEAN, NEW managers \in SUBSET {"gunicorn", "uwsgi", "pm2"},
         MadeBy(pip, managers)
  PROVE  /\ TreeIs(Resolved(prep.want), managers, tree.marker)
         /\ fellBack' = (fellBack \/ Resolved(prep.want) # prep.want)
<1>1. Resolved(prep.want) \in Versions0
  BY Nothings DEF Resolved, Formed
<1> QED BY <1>1 DEF MadeBy, TreeIs, Formed, Trees

LEMMA Counts ==
  ASSUME Numbers, UNCHANGED toolChanges, ToolFault \/ toolFailures' = toolFailures
  PROVE  Numbers'
BY ToolsAssumption DEF Numbers, ToolFault

LEMMA Rests == prep' = NoPrep => Underway'
BY Nothings DEF Underway, NoPrep

LEMMA ToolsInitially == ToolsInit => ToolsInv
<1> SUFFICES ASSUME ToolsInit PROVE ToolsInv
  OBVIOUS
<1>1. Formed
  BY Nothings DEF ToolsInit, Formed, Managers
<1>2. Numbers
  BY ToolsAssumption DEF ToolsInit, Numbers
<1>3. ~Made /\ tree.marker = NoVersion
  BY Nothings DEF ToolsInit, Made
<1> QED BY <1>1, <1>2, <1>3, TypeParts, Nothings DEF ToolsInit, ToolsInv, Underway, Marked,
   ToolsFit

LEMMA ToolsKeep == ToolsInv /\ [ToolsNext]_toolVars => ToolsInv'
<1> SUFFICES ASSUME ToolsInv, [ToolsNext]_toolVars PROVE ToolsInv'
  OBVIOUS
<1>a. Formed /\ Numbers /\ Underway /\ Marked /\ ToolsFit
  BY TypeParts DEF ToolsInv
<1>b. SUFFICES Formed' /\ Numbers' /\ Underway' /\ Marked' /\ ToolsFit'
  BY TypeParts DEF ToolsInv, ToolsTypeOK, Formed, Numbers, Preps, Startable
<1> DEFINE Goal == Formed' /\ Numbers' /\ Underway' /\ Marked' /\ ToolsFit'
<1>1. ASSUME NEW v \in Versions0, NEW m \in Managers, Select(v, m) PROVE Goal
  <2>1. Numbers'
    BY <1>a, <1>1, ToolsAssumption DEF Select, Numbers
  <2>2. Formed'
    BY <1>a, <1>1, Nothings DEF Select, Formed
  <2> QED BY <1>a, <1>1, <2>1, <2>2, Nothings DEF Select, Underway, Marked, ToolsFit, Made,
     UsesTools, Sound
<1>2. ASSUME NEW v \in ToolVersions, ChangeHost(v) PROVE Goal
  <2>1. Numbers'
    BY <1>a, <1>2, ToolsAssumption DEF ChangeHost, Numbers
  <2>2. Formed'
    BY <1>a, <1>2 DEF ChangeHost, Formed
  <2> QED BY <1>a, <1>2, <2>1, <2>2 DEF ChangeHost, Underway, Marked, ToolsFit, Made, UsesTools,
     Sound
<1>3. CASE PrepareRuntime
  <2>1. /\ prep.pc = "idle" /\ UsesTools
        /\ UNCHANGED <<kind, onHost, selected, manager, tree, fellBack, halfGone>>
        /\ \/ /\ prep' \in Preps /\ prep'.pc = "drop" /\ prep'.want = selected
              /\ UNCHANGED <<starts, unfinished>>
           \/ PrepOver
    BY <1>a, <1>3, GoesTo, Over, Remade, Nothings, Parts DEF PrepareRuntime, Selection, Preps,
       Steps, Formed
  <2>2. Numbers'
    BY <1>a, <1>3, Counts DEF PrepareRuntime, Selection, ToolGoes, ToolFault, ToolsEnd
  <2>3. Formed'
    BY <1>a, <2>1, Nothings DEF Formed, PrepAt, PrepOver, TreeIs
  <2>4. Underway'
    BY <1>a, <2>1, Nothings, Parts DEF Formed, Underway, Marked, Made, UsesTools, Sound, PrepAt,
       PrepOver, TreeIs
  <2>5. Marked'
    BY <1>a, <2>1, Nothings, Parts DEF Formed, Underway, Marked, Made, UsesTools, Sound, PrepAt,
       PrepOver, TreeIs
  <2>6. ToolsFit'
    BY <1>a, <2>1, Nothings DEF ToolsFit, Underway, Made, Sound, PrepAt, PrepOver, TreeIs
  <2> QED BY <2>2, <2>3, <2>4, <2>5, <2>6
<1>4. CASE RecreateWhenVersionChanged
  <2>1. /\ prep.pc = "drop" /\ UNCHANGED <<kind, onHost, selected, manager>>
        /\ \/ ~VersionChanged /\ PrepAt("create") /\ UNCHANGED <<tree, fellBack, halfGone>>
           \/ /\ tree' = NoTree /\ fellBack' = FALSE /\ unfinished' = FALSE
              /\ UNCHANGED <<halfGone, starts>>
              /\ prep' \in Preps /\ prep'.pc = "create" /\ prep'.want = prep.want
           \/ PrepOver /\ halfGone' = TRUE /\ tree' \in Trees /\ UNCHANGED fellBack
    <3>1. /\ prep.pc = "drop" /\ UNCHANGED <<kind, onHost, selected, manager>>
          /\ \/ ~VersionChanged /\ ToolGoes("create") /\ UNCHANGED <<tree, halfGone, fellBack>>
             \/ /\ tree' = NoTree /\ prep' = [prep EXCEPT !.pc = "create"] /\ unfinished' = FALSE
                /\ fellBack' = FALSE /\ UNCHANGED <<starts, halfGone>>
             \/ /\ ToolFault /\ halfGone' = TRUE /\ UNCHANGED fellBack
                /\ tree' \in {[NoTree EXCEPT !.marker = tree.marker],
                             [tree EXCEPT !.marker = NoVersion]}
      BY <1>4 DEF RecreateWhenVersionChanged, Selection
    <3>2. ToolGoes("create") => PrepAt("create")
      BY <1>a, GoesTo DEF Steps
    <3>3. prep' = [prep EXCEPT !.pc = "create"] =>
            prep' \in Preps /\ prep'.pc = "create" /\ prep'.want = prep.want
      BY <1>a DEF Formed, Preps, Steps
    <3>4. /\ [NoTree EXCEPT !.marker = tree.marker] \in Trees
          /\ [tree EXCEPT !.marker = NoVersion] \in Trees
      BY <1>a, Nothings DEF Formed, Trees
    <3> QED BY <3>1, <3>2, <3>3, <3>4, Over
  <2>2. Numbers'
    BY <1>a, <1>4, Counts DEF RecreateWhenVersionChanged, Selection, ToolGoes, ToolFault, ToolsEnd
  <2>3. Formed'
    BY <1>a, <2>1, Nothings DEF Formed, PrepAt, PrepOver, TreeIs
  <2>4. Underway'
    BY <1>a, <2>1, Nothings, Parts DEF Formed, Underway, Marked, Made, UsesTools, Sound, PrepAt,
       PrepOver, TreeIs, VersionChanged
  <2>5. Marked'
    BY <1>a, <2>1, Nothings, Parts DEF Formed, Underway, Marked, Made, UsesTools, Sound, PrepAt,
       PrepOver, TreeIs
  <2>6. ToolsFit'
    BY <1>a, <2>1, Nothings DEF ToolsFit, Underway, Made, Sound, PrepAt, PrepOver, TreeIs
  <2> QED BY <2>2, <2>3, <2>4, <2>5, <2>6
<1>5. CASE CreateVenv
  <2>1. /\ prep.pc = "create" /\ kind = "python"
        /\ UNCHANGED <<kind, onHost, selected, manager, halfGone>>
        /\ \/ Made /\ PrepAt("manager") /\ UNCHANGED <<tree, fellBack>>
           \/ /\ ~Made /\ PrepAt("manager")
              /\ TreeIs(Resolved(prep.want), tree.managers, tree.marker)
              /\ fellBack' = (fellBack \/ Resolved(prep.want) # prep.want)
           \/ PrepOver /\ UNCHANGED <<tree, fellBack>>
           \/ /\ PrepOver /\ ~Made
              /\ TreeIs(Resolved(prep.want), tree.managers, tree.marker)
              /\ fellBack' = (fellBack \/ Resolved(prep.want) # prep.want)
    BY <1>a, <1>5, GoesTo, Over, Remade, Nothings, Parts DEF CreateVenv, AsItWas, Selection, Steps
  <2>2. Numbers'
    BY <1>a, <1>5, Counts DEF CreateVenv, Selection, ToolGoes, ToolFault, ToolsEnd
  <2>3. Formed'
    BY <1>a, <2>1, Nothings DEF Formed, PrepAt, PrepOver, TreeIs
  <2>4. Underway'
    <3>1. CASE PrepOver
      BY <3>1, Rests DEF PrepOver
    <3>2. CASE Made /\ PrepAt("manager") /\ UNCHANGED <<tree, fellBack>>
      BY <1>a, <2>1, <3>2, Nothings DEF Underway, Made, UsesTools, Sound, PrepAt
    <3>3. CASE /\ PrepAt("manager")
              /\ TreeIs(Resolved(prep.want), tree.managers, tree.marker)
               /\ fellBack' = (fellBack \/ Resolved(prep.want) # prep.want)
      <4>1. Resolved(prep.want) # NoVersion
        BY <1>a, Nothings DEF Resolved, Formed
      <4> QED BY <1>a, <2>1, <3>3, <4>1 DEF Formed, Underway, Made, UsesTools, Sound, PrepAt,
         TreeIs
    <3> QED BY <2>1, <3>1, <3>2, <3>3
  <2>5. Marked'
    BY <1>a, <2>1, Nothings, Parts DEF Formed, Underway, Marked, Made, UsesTools, Sound, PrepAt,
       PrepOver, TreeIs
  <2>6. ToolsFit'
    BY <1>a, <2>1, Nothings DEF ToolsFit, Underway, Made, Sound, PrepAt, PrepOver, TreeIs
  <2> QED BY <2>2, <2>3, <2>4, <2>5, <2>6
<1>6. CASE InstallManager
  <2>1. /\ (kind = "python" /\ prep.pc = "manager") \/ (kind = "node" /\ prep.pc = "create")
        /\ UNCHANGED <<kind, onHost, selected, manager>> /\ UNCHANGED halfGone
        /\ \/ /\ manager \in tree.managers \cup {"systemd"}
              /\ PrepAt("needs") /\ UNCHANGED <<tree, fellBack>>
           \/ /\ kind = "python" /\ PrepAt("needs") /\ UNCHANGED fellBack
              /\ TreeIs(tree.by, tree.managers \cup {manager}, tree.marker)
           \/ /\ kind = "node" /\ PrepAt("needs")
              /\ TreeIs(Resolved(prep.want), {manager}, tree.marker)
              /\ manager \notin tree.managers
              /\ fellBack' = (fellBack \/ Resolved(prep.want) # prep.want)
           \/ PrepOver /\ UNCHANGED <<tree, fellBack>>
    <3>1. ToolGoes("needs") => PrepAt("needs")
      BY <1>a, GoesTo DEF Steps
    <3>2. prep.pc # "idle" => UsesTools
      BY <1>a DEF Underway
    <3>3. ASSUME manager \notin tree.managers \cup {"systemd"}, UsesTools
          PROVE  /\ kind = "node" => manager = "pm2"
                 /\ manager \in {"gunicorn", "uwsgi", "pm2"}
      BY <1>a, <3>3 DEF Formed, UsesTools, Managers
    <3>4. ASSUME manager \in {"gunicorn", "uwsgi", "pm2"},
                 tree' = [tree EXCEPT !.managers = @ \cup {manager}]
          PROVE  TreeIs(tree.by, tree.managers \cup {manager}, tree.marker)
      BY <1>a, <3>4 DEF Formed, Trees, TreeIs
    <3>5. ASSUME manager \in {"gunicorn", "uwsgi", "pm2"}, MadeBy(FALSE, {manager})
          PROVE  /\ TreeIs(Resolved(prep.want), {manager}, tree.marker)
                 /\ fellBack' = (fellBack \/ Resolved(prep.want) # prep.want)
      BY <1>a, <3>5, Remade
    <3> QED BY <1>6, <3>1, <3>2, <3>3, <3>4, <3>5, Over DEF InstallManager, AsItWas, Selection
  <2>2. Numbers'
    BY <1>a, <1>6, Counts DEF InstallManager, Selection, ToolGoes, ToolFault, ToolsEnd
  <2>3. Formed'
    BY <1>a, <2>1, Nothings DEF Formed, PrepAt, PrepOver, TreeIs
  <2>4. Underway'
    <3>1. CASE PrepOver
      BY <3>1, Rests DEF PrepOver
    <3>2. CASE /\ manager \in tree.managers \cup {"systemd"}
               /\ PrepAt("needs") /\ UNCHANGED <<tree, fellBack>>
      BY <1>a, <2>1, <3>2, Nothings DEF Underway, Made, UsesTools, Sound, PrepAt
    <3>3. CASE /\ kind = "python" /\ PrepAt("needs") /\ UNCHANGED fellBack
               /\ TreeIs(tree.by, tree.managers \cup {manager}, tree.marker)
      BY <1>a, <2>1, <3>3 DEF Formed, Underway, Made, UsesTools, Sound, PrepAt, TreeIs
    <3>4. CASE /\ kind = "node" /\ PrepAt("needs")
               /\ TreeIs(Resolved(prep.want), {manager}, tree.marker)
               /\ fellBack' = (fellBack \/ Resolved(prep.want) # prep.want)
      BY <1>a, <2>1, <3>4 DEF Formed, Underway, Made, UsesTools, Sound, PrepAt, TreeIs
    <3> QED BY <2>1, <3>1, <3>2, <3>3, <3>4
  <2>5. Marked'
    BY <1>a, <2>1, Nothings, Parts DEF Formed, Underway, Marked, Made, UsesTools, Sound, PrepAt,
       PrepOver, TreeIs
  <2>6. ToolsFit'
    BY <1>a, <2>1, Nothings DEF ToolsFit, Underway, Made, Sound, PrepAt, PrepOver, TreeIs
  <2> QED BY <2>2, <2>3, <2>4, <2>5, <2>6
<1>7. CASE InstallNeeds
  <2>1. /\ prep.pc = "needs"
        /\ UNCHANGED <<kind, onHost, selected, manager, tree, fellBack, halfGone>>
        /\ \/ PrepAt("mark")
           \/ PrepOver
    BY <1>a, <1>7, GoesTo, Over, Remade, Nothings, Parts DEF InstallNeeds, AsItWas, Selection,
       Steps
  <2>2. Numbers'
    BY <1>a, <1>7, Counts DEF InstallNeeds, Selection, ToolGoes, ToolFault, ToolsEnd
  <2>3. Formed'
    BY <1>a, <2>1, Nothings DEF Formed, PrepAt, PrepOver, TreeIs
  <2>4. Underway'
    BY <1>a, <2>1, Nothings, Parts DEF Formed, Underway, Marked, Made, UsesTools, Sound, PrepAt,
       PrepOver, TreeIs
  <2>5. Marked'
    BY <1>a, <2>1, Nothings, Parts DEF Formed, Underway, Marked, Made, UsesTools, Sound, PrepAt,
       PrepOver, TreeIs
  <2>6. ToolsFit'
    BY <1>a, <2>1, Nothings DEF ToolsFit, Underway, Made, Sound, PrepAt, PrepOver, TreeIs
  <2> QED BY <2>2, <2>3, <2>4, <2>5, <2>6
<1>8. CASE WriteVersionMarker
  <2>1. /\ prep.pc = "mark"
        /\ UNCHANGED <<kind, onHost, selected, manager, fellBack, halfGone>>
        /\ \/ prep.want = 0 /\ PrepAt("own") /\ UNCHANGED tree
           \/ prep.want # 0 /\ PrepAt("own") /\ TreeIs(tree.by, tree.managers, prep.want)
           \/ PrepOver /\ UNCHANGED tree
           \/ PrepOver /\ TreeIs(tree.by, tree.managers, 0)
    BY <1>a, <1>8, GoesTo, Over, Remade, Nothings, Parts DEF WriteVersionMarker, Selection,
       Steps, Formed, Trees, TreeIs
  <2>2. Numbers'
    BY <1>a, <1>8, Counts DEF WriteVersionMarker, Selection, ToolGoes, ToolFault, ToolsEnd
  <2>3. Formed'
    BY <1>a, <2>1, Nothings DEF Formed, PrepAt, PrepOver, TreeIs
  <2>4. Underway'
    BY <1>a, <2>1, Nothings, Parts DEF Formed, Underway, Marked, Made, UsesTools, Sound, PrepAt,
       PrepOver, TreeIs
  <2>5. Marked'
    BY <1>a, <2>1, Nothings, Parts DEF Formed, Underway, Marked, Made, UsesTools, Sound, PrepAt,
       PrepOver, TreeIs
  <2>6. ToolsFit'
    BY <1>a, <2>1, Nothings DEF ToolsFit, Underway, Made, Sound, PrepAt, PrepOver, TreeIs
  <2> QED BY <2>2, <2>3, <2>4, <2>5, <2>6
<1>9. CASE ChownRuntime
  <2>1. /\ prep.pc = "own"
        /\ UNCHANGED <<kind, onHost, selected, manager, tree, fellBack, halfGone>>
        /\ \/ /\ starts' = [manager |-> manager, want |-> prep.want] /\ starts' \in Startable
              /\ prep' = NoPrep /\ UNCHANGED unfinished
           \/ PrepOver
    BY <1>a, <1>9, GoesTo, Over, Remade, Nothings, Parts DEF ChownRuntime, AsItWas, Selection,
       Formed, Startable
  <2>2. Numbers'
    BY <1>a, <1>9, Counts DEF ChownRuntime, Selection, ToolGoes, ToolFault, ToolsEnd
  <2>3. Formed'
    BY <1>a, <2>1, Nothings DEF Formed, PrepAt, PrepOver, TreeIs
  <2>4. Underway'
    BY <2>1, Rests DEF PrepOver
  <2>5. Marked'
    BY <1>a, <2>1, Nothings, Parts DEF Formed, Underway, Marked, Made, UsesTools, Sound, PrepAt,
       PrepOver, TreeIs
  <2>6. ToolsFit'
    BY <1>a, <2>1, Nothings DEF ToolsFit, Underway, Made, Sound, PrepAt, PrepOver, TreeIs
  <2> QED BY <2>2, <2>3, <2>4, <2>5, <2>6
<1>10. CASE UNCHANGED toolVars
  BY <1>a, <1>10 DEF toolVars, Formed, Numbers, Underway, Marked, ToolsFit, Made, UsesTools, Sound
<1> QED
  BY <1>1, <1>2, <1>3, <1>4, <1>5, <1>6, <1>7, <1>8, <1>9, <1>10 DEF ToolsNext

\* What the unit of a platform is given to start is there, and was made with the version the
\* platform selects, for any versions, changes and failures: unless a removal stopped half way,
\* the version was not on the host, or none is selected and the preparation before it failed
\* (preparePythonRuntime and prepareNodeRuntime, app_service.go).
THEOREM ToolsAlwaysFit == ToolsSpec => []ToolsFit
<1>1. ToolsInv => ToolsFit
  BY DEF ToolsInv
<1> QED BY ToolsInitially, ToolsKeep, <1>1, PTL DEF ToolsSpec

\* What users chose, what is installed, and the trees with their markers keep their types, for
\* any versions and failures (recreatePythonVenvWhenVersionChanged).
THEOREM ToolsTyped == ToolsSpec => []ToolsTypeOK
<1>1. ToolsInv => ToolsTypeOK
  BY DEF ToolsInv
<1> QED BY ToolsInitially, ToolsKeep, <1>1, PTL DEF ToolsSpec
-----------------------------------------------------------------------------
(* Deployments in turns.  How far one has come says what is checked out,    *)
(* built and running, and nobody else writes the row meanwhile.             *)

Heads == 0..MaxPushes

DpTyped ==
  /\ remote \in [Branches -> Heads]
  /\ deployCfg \in DeployConfig \cup {NoDp}
  /\ repo # NoDp =>
       /\ repo \in [follows : SUBSET Branches, refs : [Branches -> Heads \cup {NoDp}]]
       /\ worktree \in Heads
  /\ worktree \in Commits \cup {NoDp} /\ dirty \in BOOLEAN
  /\ built \in Commits /\ serving \in Commits \cup {NoDp}
  /\ dp \in [DpRequests -> DpRequestStates] /\ unrecorded \in BOOLEAN
DpNumbers == pushes \in 0..MaxPushes

OneAtWork(r) == \A q \in DpRequests \ {r} : dp[q].pc = "idle"
DpTurns == \A r \in DpRequests : dp[r].pc # "idle" => OneAtWork(r)

DpStage(r) ==
  /\ dp[r].pc # "idle" =>
       dp[r].branch \in Branches /\ deployCfg # NoDp /\ dp[r].restart = deployCfg.restart
  /\ dp[r].pc \in {"checkout", "reset", "build", "restart", "record"} => repo # NoDp
  /\ dp[r].pc = "reset" => repo.refs[dp[r].branch] # NoDp
  /\ dp[r].pc \in {"restart", "record"} => built = worktree
  /\ dp[r].pc = "record" /\ dp[r].restart => serving \in {built, NoDp}
DpStages == \A r \in DpRequests : DpStage(r)

DpInv == DpTyped /\ DpNumbers /\ DpTurns /\ DpStages /\ DeployedIsServed

LEMMA CommitFacts ==
  /\ Heads \subseteq Commits /\ Unknown \in Commits /\ Unknown \notin Heads /\ NoDp \notin Heads
  /\ NoDp \notin Commits /\ NoDp \notin Branches /\ NoDp \notin DeployConfig /\ 0 \in Heads
  /\ NoDpReq \in DpRequestStates /\ NoDpReq.pc = "idle"
  /\ \A f \in SUBSET Branches, g \in [Branches -> Heads \cup {NoDp}] :
       [follows |-> f, refs |-> g] # NoDp
<1>1. /\ Heads \subseteq Commits /\ Unknown \in Commits /\ Unknown \notin Heads /\ 0 \in Heads
      /\ NoDp \notin Commits /\ NoDp \notin Branches /\ NoDp \notin DeployConfig
      /\ NoDp \notin Repository
  BY DeploysAssumption DEF Heads, Commits, Unknown
<1>2. NoDpReq \in DpRequestStates /\ NoDpReq.pc = "idle"
  BY DEF NoDpReq, DpRequestStates
<1>3. \A f \in SUBSET Branches, g \in [Branches -> Heads \cup {NoDp}] :
        [follows |-> f, refs |-> g] \in Repository
  BY <1>1 DEF Repository
<1> QED BY <1>1, <1>2, <1>3

\* A request that goes on, and one that ends, when nobody else is under way.
LEMMA DpGoing ==
  ASSUME dp \in [DpRequests -> DpRequestStates], NEW r \in DpRequests, OneAtWork(r),
         NEW pc \in {"sync", "checkout", "reset", "build", "restart", "record"}, DpGoTo(r, pc)
  PROVE  /\ dp' \in [DpRequests -> DpRequestStates] /\ DpTurns'
         /\ dp'[r].pc = pc /\ dp'[r].branch = dp[r].branch /\ dp'[r].restart = dp[r].restart
         /\ \A q \in DpRequests \ {r} : dp'[q].pc = "idle"
         /\ ~\A q \in DpRequests : dp'[q].pc = "idle"
BY DEF DpGoTo, OneAtWork, DpTurns, DpRequestStates

LEMMA Ending ==
  ASSUME dp \in [DpRequests -> DpRequestStates], NEW r \in DpRequests, OneAtWork(r), DpFinish(r)
  PROVE  /\ dp' \in [DpRequests -> DpRequestStates] /\ DpTurns' /\ DpStages'
         /\ \A q \in DpRequests : dp'[q].pc = "idle"
<1>1. \A q \in DpRequests : dp'[q].pc = "idle"
  BY CommitFacts DEF DpFinish, OneAtWork
<1>2. dp' \in [DpRequests -> DpRequestStates]
  BY CommitFacts DEF DpFinish
<1> QED BY <1>1, <1>2 DEF DpTurns, DpStages, DpStage

\* The row of a deployment that ends says failed, or nothing was written.
LEMMA FailsRow ==
  ASSUME DpTyped, NEW r \in DpRequests, deployCfg # NoDp, NEW why, DpFails(r, why)
  PROVE  /\ DpFinish(r) /\ UNCHANGED <<remote, pushes>>
         /\ deployCfg' \in DeployConfig /\ unrecorded' \in BOOLEAN
         /\ unrecorded' \/ deployCfg'.status = "failed"
BY DEF DpTyped, DpFails, DpEnds, DeployConfig

LEMMA DeploysInitially == DeploysInit => DpInv
<1> SUFFICES ASSUME DeploysInit PROVE DpInv
  OBVIOUS
<1>1. DpTyped
  <2>1. remote \in [Branches -> Heads] /\ dp \in [DpRequests -> DpRequestStates]
    BY CommitFacts DEF DeploysInit
  <2>2. worktree \in Commits \cup {NoDp} /\ built \in Commits
    BY CommitFacts DEF DeploysInit
  <2>3. repo # NoDp =>
          /\ repo \in [follows : SUBSET Branches, refs : [Branches -> Heads \cup {NoDp}]]
          /\ worktree \in Heads
    BY <2>1, CommitFacts DEF DeploysInit
  <2> QED BY <2>1, <2>2, <2>3 DEF DeploysInit, DpTyped
<1>2. DpNumbers
  BY DeploysAssumption DEF DeploysInit, DpNumbers
<1>3. \A r \in DpRequests : dp[r].pc = "idle"
  BY CommitFacts DEF DeploysInit
<1> QED
  BY <1>1, <1>2, <1>3 DEF DeploysInit, DpInv, DpTurns, DpStages, DpStage, DeployedIsServed

LEMMA DeploysKeep == ~DpOverlapping /\ DpInv /\ [DeploysNext]_dpVars => DpInv'
<1> SUFFICES ASSUME ~DpOverlapping, DpInv, [DeploysNext]_dpVars PROVE DpInv'
  OBVIOUS
<1>a. DpTyped /\ DpNumbers /\ DpTurns /\ DpStages /\ DeployedIsServed
  BY DEF DpInv
<1>b. SUFFICES DpTyped' /\ DpNumbers' /\ DpTurns' /\ DpStages' /\ DeployedIsServed'
  BY DEF DpInv
<1> DEFINE Goal == DpTyped' /\ DpNumbers' /\ DpTurns' /\ DpStages' /\ DeployedIsServed'
<1>1. CASE Push
  <2>1. pushes + 1 \in Heads /\ DpNumbers'
    BY <1>a, <1>1, DeploysAssumption DEF Push, DpNumbers, Heads
  <2>2. remote' \in [Branches -> Heads]
    BY <1>a, <1>1, <2>1 DEF Push, DpTyped
  <2> QED BY <1>a, <1>1, <2>1, <2>2 DEF Push, Unsynced, DpTyped, DpTurns, OneAtWork, DpStages,
       DpStage, DeployedIsServed
<1>2. CASE ChangeFiles
  BY <1>a, <1>2 DEF ChangeFiles, Unwritten, DpTyped, DpNumbers, DpTurns, OneAtWork, DpStages,
     DpStage, DeployedIsServed
<1>3. CASE RuntimeAction
  BY <1>a, <1>3 DEF RuntimeAction, Unwritten, Unsynced, DpTyped, DpNumbers, DpTurns, OneAtWork,
     DpStages,
     DpStage, DeployedIsServed
<1>4. CASE DpCrash
  <2>1. PICK r \in DpRequests : dp[r].pc # "idle" /\ DpFinish(r) /\ unrecorded' = TRUE
    BY <1>4 DEF DpCrash
  <2>2. OneAtWork(r)
    BY <1>a, <2>1 DEF DpTurns
  <2>3. built' \in Commits
    BY <1>a, <1>4, CommitFacts DEF DpCrash, DpTyped
  <2>4. dp \in [DpRequests -> DpRequestStates]
    BY <1>a DEF DpTyped
  <2> QED BY <1>a, <1>4, <2>1, <2>2, <2>3, <2>4, Ending DEF DpCrash, Unsynced, DpTyped, DpNumbers,
       DeployedIsServed
<1>5. ASSUME NEW r \in DpRequests, DpStep(r) PROVE Goal
  <2>a. dp \in [DpRequests -> DpRequestStates] /\ OneAtWork(r) /\ DpStage(r)
    <3>1. dp[r].pc # "idle" \/ DpIdle(r)
      BY <1>5 DEF DpStep, SaveDeployConfig, DeployRefused, BeginDeploy, CloneRepo, FetchBranch,
         CheckoutBranch, ResetTree, RunDeployCommand, RestartRuntime, RecordSuccess
    <3> QED BY <1>a, <3>1 DEF DpTyped, DpTurns, OneAtWork, DpIdle, DpStages
  \* A deployment that fails, or ends unrecorded.
  <2>f. ASSUME DpFinish(r), DpTyped', UNCHANGED pushes,
               unrecorded' \/ deployCfg'.status = "failed"
        PROVE  Goal
    BY <1>a, <2>a, <2>f, Ending DEF DpNumbers, DeployedIsServed
  \* One that goes on.
  <2>g. ASSUME NEW pc \in {"sync", "checkout", "reset", "build", "restart", "record"},
               DpGoTo(r, pc), DpTyped', DpStage(r)', UNCHANGED pushes
        PROVE  Goal
    <3>1. \A q \in DpRequests \ {r} : DpStage(q)'
      BY <2>a, <2>g, DpGoing DEF DpStage
    <3> QED BY <1>a, <2>a, <2>g, <3>1, DpGoing DEF DpNumbers, DpStages, DeployedIsServed
  <2>1. CASE SaveDeployConfig(r)
    <3>1. deployCfg' \in DeployConfig /\ deployCfg'.status = ""
      <4>1. PICK b \in Branches, restart \in BOOLEAN :
              deployCfg' = [branch |-> b, restart |-> restart, status |-> ""]
        BY <2>1 DEF SaveDeployConfig, StatusAfterSave
      <4> QED BY <4>1 DEF DeployConfig
    <3>2. \A q \in DpRequests : dp[q].pc = "idle"
      BY <2>a, <2>1 DEF SaveDeployConfig, DpIdle, OneAtWork
    <3> QED BY <1>a, <2>1, <3>1, <3>2 DEF SaveDeployConfig, DpTyped, DpNumbers, DpTurns, OneAtWork,
         DpStages, DpStage, DeployedIsServed
  <2>2. CASE DeployRefused(r)
    BY <1>a, <2>2 DEF DeployRefused, dpVars, DpTyped, DpNumbers, DpTurns, OneAtWork, DpStages,
       DpStage, DeployedIsServed
  <2>3. CASE BeginDeploy(r)
    <3>1. PICK b \in Branches :
            dp' = [dp EXCEPT ![r] = [pc |-> "sync", branch |-> b, restart |-> deployCfg.restart]]
      BY <2>3 DEF BeginDeploy
    <3>2. deployCfg \in DeployConfig /\ deployCfg # NoDp /\ deployCfg.restart \in BOOLEAN
      BY <1>a, <2>3 DEF BeginDeploy, DpTyped, DeployConfig
    <3>3. /\ dp' \in [DpRequests -> DpRequestStates] /\ dp'[r].pc = "sync"
          /\ dp'[r].branch \in Branches /\ dp'[r].restart = deployCfg.restart
      BY <2>a, <3>1, <3>2 DEF DpRequestStates
    <3>4. \A q \in DpRequests \ {r} : dp'[q].pc = "idle"
      BY <2>a, <3>1 DEF OneAtWork
    <3> QED BY <1>a, <2>3, <3>2, <3>3, <3>4 DEF BeginDeploy, Unsynced, Unwritten, DpTyped,
       DpNumbers,
         DpTurns, OneAtWork, DpStages, DpStage,
     DeployedIsServed
  <2>4. CASE CloneRepo(r)
    <3>1. deployCfg # NoDp /\ dp[r].branch \in Branches /\ dp[r].pc = "sync"
      BY <2>a, <2>4 DEF CloneRepo, DpStage
    <3>2. CASE (DpFails(r, DpFault) \/ DpFails(r, DpWorks)) /\ Unsynced
      BY <1>a, <2>4, <2>f, <3>1, <3>2, FailsRow, Ending, <2>a DEF CloneRepo, Unsynced, DpTyped
    <3>3. CASE /\ repo' = [follows |-> {dp[r].branch},
                           refs |-> [c \in Branches |->
                                     IF c = dp[r].branch THEN remote[dp[r].branch] ELSE NoDp]]
               /\ worktree' = remote[dp[r].branch] /\ dirty' = FALSE
               /\ DpGoTo(r, "build") /\ Unwritten
      <4>1. /\ repo' \in [follows : SUBSET Branches, refs : [Branches -> Heads \cup {NoDp}]]
            /\ worktree' \in Heads /\ repo' # NoDp
        BY <1>a, <3>1, <3>3, CommitFacts DEF DpTyped
      <4> QED BY <1>a, <2>a, <2>4, <2>g, <3>1, <3>3, <4>1, CommitFacts, DpGoing DEF CloneRepo,
         Unwritten,
           DpTyped, DpStage
    <3> QED BY <2>4, <3>2, <3>3 DEF CloneRepo
  <2>5. CASE FetchBranch(r)
    <3>1. deployCfg # NoDp /\ dp[r].branch \in Branches /\ dp[r].pc = "sync" /\ repo # NoDp
      BY <2>a, <2>5 DEF FetchBranch, DpStage
    <3>2. CASE DpFails(r, DpFault) /\ UNCHANGED repo
      BY <1>a, <2>a, <2>5, <2>f, <3>1, <3>2, FailsRow, Ending DEF FetchBranch, DpTyped
    <3>3. CASE /\ repo' = IF dp[r].branch \in repo.follows
                          THEN [repo EXCEPT !.refs[dp[r].branch] = remote[dp[r].branch]] ELSE repo
               /\ DpGoTo(r, "checkout") /\ Unwritten
      <4>1. /\ repo' \in [follows : SUBSET Branches, refs : [Branches -> Heads \cup {NoDp}]]
            /\ repo' # NoDp
        BY <1>a, <3>1, <3>3, CommitFacts DEF DpTyped
      <4> QED BY <1>a, <2>a, <2>5, <2>g, <3>1, <3>3, <4>1, DpGoing DEF FetchBranch, Unwritten,
         DpTyped,
           DpStage
    <3> QED BY <2>5, <3>2, <3>3 DEF FetchBranch
  <2>6. CASE CheckoutBranch(r)
    <3>1. /\ deployCfg # NoDp /\ dp[r].branch \in Branches /\ dp[r].pc = "checkout" /\ repo # NoDp
          /\ repo.refs[dp[r].branch] \in Heads \cup {NoDp}
      BY <1>a, <2>a, <2>6 DEF CheckoutBranch, Fetched, DpStage, DpTyped
    <3>2. ASSUME DpFinish(r), UNCHANGED <<remote, pushes, worktree>>,
                 \/ deployCfg' = [deployCfg EXCEPT !.status = "failed"] /\ UNCHANGED unrecorded
                 \/ UNCHANGED deployCfg /\ unrecorded' = TRUE
          PROVE  Goal
      <4>1. deployCfg' \in DeployConfig /\ (unrecorded' \/ deployCfg'.status = "failed")
        BY <1>a, <3>1, <3>2 DEF DpTyped, DeployConfig
      <4> QED BY <1>a, <2>a, <2>6, <2>f, <3>2, <4>1, Ending DEF CheckoutBranch, Fetched, DpTyped
    <3>3. CASE /\ repo.refs[dp[r].branch] # NoDp /\ worktree' = repo.refs[dp[r].branch]
               /\ DpGoTo(r, "reset") /\ Unwritten
      BY <1>a, <2>a, <2>6, <2>g, <3>1, <3>3, CommitFacts, DpGoing
         DEF CheckoutBranch, Fetched, Unwritten, DpTyped, DpStage
    <3> QED BY <2>6, <3>2, <3>3 DEF CheckoutBranch, Fetched, DpFails, DpEnds
  <2>7. CASE ResetTree(r)
    <3>1. /\ deployCfg # NoDp /\ dp[r].branch \in Branches /\ dp[r].pc = "reset" /\ repo # NoDp
          /\ repo.refs[dp[r].branch] \in Heads
      BY <1>a, <2>a, <2>7 DEF ResetTree, DpStage, DpTyped
    <3>2. CASE DpFails(r, DpFault) /\ UNCHANGED <<worktree, dirty>>
      BY <1>a, <2>a, <2>7, <2>f, <3>1, <3>2, FailsRow, Ending DEF ResetTree, DpTyped
    <3>3. CASE /\ worktree' = repo.refs[dp[r].branch] /\ dirty' = FALSE
               /\ DpGoTo(r, "build") /\ Unwritten
      BY <1>a, <2>a, <2>7, <2>g, <3>1, <3>3, CommitFacts, DpGoing DEF ResetTree, Unwritten, DpTyped,
         DpStage
    <3> QED BY <2>7, <3>2, <3>3 DEF ResetTree
  <2>8. CASE RunDeployCommand(r)
    <3>1. deployCfg # NoDp /\ dp[r].branch \in Branches /\ dp[r].pc = "build" /\ repo # NoDp
      BY <2>a, <2>8 DEF RunDeployCommand, DpStage
    <3>2. CASE DpFails(r, DpFault) /\ built' \in {built, Unknown} /\ dirty' \in BOOLEAN
      BY <1>a, <2>a, <2>8, <2>f, <3>1, <3>2, FailsRow, Ending, CommitFacts DEF RunDeployCommand,
         DpTyped
    <3>3. CASE /\ built' = worktree /\ dirty' \in BOOLEAN
               /\ DpGoTo(r, IF dp[r].restart THEN "restart" ELSE "record") /\ Unwritten
      <4>1. DpTyped'
        BY <1>a, <2>a, <2>8, <3>1, <3>3, DpGoing, CommitFacts DEF RunDeployCommand, Unwritten,
           DpTyped
      <4>2. DpStage(r)'
        BY <1>a, <2>a, <2>8, <3>1, <3>3, DpGoing DEF RunDeployCommand, Unwritten, DpStage
      <4> QED BY <2>g, <3>3, <4>1, <4>2 DEF Unwritten
    <3> QED BY <2>8, <3>2, <3>3 DEF RunDeployCommand
  <2>9. CASE RestartRuntime(r)
    <3>1. deployCfg # NoDp /\ dp[r].branch \in Branches /\ dp[r].pc = "restart" /\ repo # NoDp
      BY <2>a, <2>9 DEF RestartRuntime, DpStage
    <3>2. CASE DpFails(r, DpFault) /\ serving' \in {serving, NoDp}
      BY <1>a, <2>a, <2>9, <2>f, <3>1, <3>2, FailsRow, Ending DEF RestartRuntime, Unsynced,
         DpTyped
    <3>3. CASE serving' = built /\ DpGoTo(r, "record") /\ Unwritten
      <4>1. DpTyped'
        BY <1>a, <2>a, <2>9, <3>1, <3>3, DpGoing DEF RestartRuntime, Unsynced, Unwritten, DpTyped
      <4>2. DpStage(r)'
        BY <1>a, <2>a, <2>9, <3>1, <3>3, DpGoing DEF RestartRuntime, Unsynced, Unwritten, DpStage
      <4> QED BY <2>g, <3>3, <4>1, <4>2 DEF Unwritten
    <3> QED BY <2>9, <3>2, <3>3 DEF RestartRuntime
  <2>10. CASE RecordSuccess(r)
    <3>1. /\ deployCfg \in DeployConfig /\ deployCfg # NoDp /\ dp[r].pc = "record"
          /\ built = worktree /\ worktree \in Heads
          /\ deployCfg.restart => serving \in {built, NoDp}
      BY <1>a, <2>a, <2>10 DEF RecordSuccess, DpStage, DpTyped
    <3>2. /\ DpFinish(r) /\ UNCHANGED <<remote, pushes, repo, worktree, dirty, built, serving>>
          /\ deployCfg' \in DeployConfig /\ deployCfg'.restart = deployCfg.restart
          /\ unrecorded' \in BOOLEAN
      BY <1>a, <2>10, <3>1 DEF RecordSuccess, DpEnds, Unsynced, DeployConfig, DpTyped
    <3>3. DpTyped'
      BY <1>a, <2>a, <3>1, <3>2, Ending DEF DpTyped
    <3>4. DeployedIsServed'
      BY <3>1, <3>2, CommitFacts DEF DeployedIsServed
    <3> QED BY <1>a, <2>a, <3>2, <3>3, <3>4, Ending DEF DpNumbers
  <2> QED
    BY <1>5, <2>1, <2>2, <2>3, <2>4, <2>5, <2>6, <2>7, <2>8, <2>9, <2>10 DEF DpStep
<1>6. CASE UNCHANGED dpVars
  BY <1>a, <1>6 DEF dpVars, DpTyped, DpNumbers, DpTurns, OneAtWork, DpStages, DpStage,
     DeployedIsServed
<1> QED BY <1>1, <1>2, <1>3, <1>4, <1>5, <1>6 DEF DeploysNext

\* When deployments take turns, a platform whose last one is shown as a success has the build
\* of the commit that is checked out, and nothing older runs where the configuration says to
\* restart, for any branches, commits, failures and deaths (Deploy, platform_ops_service.go).
THEOREM DeployedIsServedInTurns ==
  ASSUME ~DpOverlapping
  PROVE  DeploysSpec => []DeployedIsServed
<1>1. DpInv /\ [DeploysNext]_dpVars => DpInv'
  BY DeploysKeep
<1>2. DpInv => DeployedIsServed
  BY DEF DpInv
<1> QED BY DeploysInitially, <1>1, <1>2, PTL DEF DeploysSpec

\* What has failed is counted up to its bound.
LEMMA DpCounted ==
  /\ DeploysInit => dpFailures \in 0..MaxDpFailures
  /\ dpFailures \in 0..MaxDpFailures /\ [DeploysNext]_dpVars => (dpFailures \in 0..MaxDpFailures)'
<1>1. ASSUME dpFailures \in 0..MaxDpFailures, DpFault PROVE (dpFailures \in 0..MaxDpFailures)'
  BY <1>1, DeploysAssumption DEF DpFault
<1>2. ASSUME DeploysNext PROVE DpFault \/ UNCHANGED dpFailures
  BY <1>2 DEF DeploysNext, DpStep, Push, ChangeFiles, RuntimeAction, DpCrash, SaveDeployConfig,
              DeployRefused,
              BeginDeploy, CloneRepo, FetchBranch, CheckoutBranch, ResetTree, RunDeployCommand,
              RestartRuntime, RecordSuccess, DpFails, DpEnds, DpWorks, dpVars
<1> QED BY <1>1, <1>2, DeploysAssumption DEF DeploysInit, dpVars

\* Whether deployments take turns or not, what has been fetched stays, and there is a repository
\* once one is past its first step.
DpUnderway(r) ==
  /\ dp[r].pc # "idle" => dp[r].branch \in Branches /\ deployCfg # NoDp
  /\ dp[r].pc \in {"checkout", "reset", "build", "restart", "record"} => repo # NoDp
  /\ dp[r].pc = "reset" => repo.refs[dp[r].branch] # NoDp
DpAnyhow == DpTyped /\ DpNumbers /\ \A r \in DpRequests : DpUnderway(r)

\* Who does not move is where it was, if repository and row are still there.
LEMMA OthersUnderway ==
  ASSUME DpAnyhow, NEW r \in DpRequests, dp'[r].pc = "idle" \/ DpUnderway(r)',
         \A q \in DpRequests \ {r} : dp'[q] = dp[q],
         deployCfg # NoDp => deployCfg' # NoDp, repo # NoDp => repo' # NoDp,
         repo # NoDp => \A b \in Branches : repo.refs[b] # NoDp => repo'.refs[b] # NoDp
  PROVE  \A q \in DpRequests : DpUnderway(q)'
<1>1. DpUnderway(r)'
  BY DEF DpUnderway
<1>2. \A q \in DpRequests \ {r} : DpUnderway(q)'
  BY DEF DpAnyhow, DpUnderway
<1> QED BY <1>1, <1>2

LEMMA DpGoesOn ==
  ASSUME DpTyped, NEW r \in DpRequests,
         NEW pc \in {"sync", "checkout", "reset", "build", "restart", "record"}, DpGoTo(r, pc)
  PROVE  /\ dp' \in [DpRequests -> DpRequestStates]
         /\ dp'[r].pc = pc /\ dp'[r].branch = dp[r].branch
         /\ \A q \in DpRequests \ {r} : dp'[q] = dp[q]
BY DEF DpGoTo, DpTyped, DpRequestStates

LEMMA DpFinishes ==
  ASSUME DpTyped, NEW r \in DpRequests, DpFinish(r)
  PROVE  /\ dp' \in [DpRequests -> DpRequestStates] /\ dp'[r].pc = "idle"
         /\ \A q \in DpRequests \ {r} : dp'[q] = dp[q]
BY CommitFacts DEF DpFinish, DpTyped

LEMMA DpEndsAnyhow ==
  ASSUME DpTyped, NEW r \in DpRequests, deployCfg # NoDp, NEW why,
         NEW status \in {"success", "failed"}, DpEnds(r, status, why)
  PROVE  /\ DpFinish(r) /\ UNCHANGED <<remote, pushes>>
         /\ deployCfg' \in DeployConfig /\ deployCfg' # NoDp /\ unrecorded' \in BOOLEAN
<1>1. deployCfg' \in DeployConfig /\ unrecorded' \in BOOLEAN
  BY DEF DpTyped, DpEnds, DeployConfig
<1> QED BY <1>1, CommitFacts DEF DpEnds

LEMMA DeploysMoveAnyhow ==
  ASSUME DpAnyhow, NEW r \in DpRequests, DpStep(r)
  PROVE  DpAnyhow'
<1>a. DpTyped /\ DpNumbers /\ DpUnderway(r) /\ dp \in [DpRequests -> DpRequestStates]
  BY DEF DpAnyhow, DpTyped
<1>u. CASE UNCHANGED dpVars
  BY <1>a, <1>u DEF dpVars, DpAnyhow, DpUnderway, DpTyped, DpNumbers
<1>b. /\ deployCfg # NoDp => deployCfg \in DeployConfig
      /\ repo # NoDp => repo \in [follows : SUBSET Branches, refs : [Branches -> Heads \cup {NoDp}]]
                       /\ worktree \in Heads
  BY <1>a DEF DpTyped
\* One that ends, well or not.
<1>f. ASSUME deployCfg # NoDp, DpFinish(r), UNCHANGED <<pushes, repo>>, DpTyped',
             deployCfg' # NoDp
      PROVE  DpAnyhow'
  <2>1. \A q \in DpRequests : DpUnderway(q)'
    BY <1>a, <1>f, DpFinishes, OthersUnderway
  <2> QED BY <1>a, <1>f, <2>1 DEF DpAnyhow, DpNumbers
\* One that goes on.
<1>g. ASSUME NEW pc \in {"sync", "checkout", "reset", "build", "restart", "record"},
             DpGoTo(r, pc), DpTyped', DpUnderway(r)', UNCHANGED <<pushes, deployCfg>>,
             repo # NoDp => repo' # NoDp,
             repo # NoDp => \A b \in Branches : repo.refs[b] # NoDp => repo'.refs[b] # NoDp
      PROVE  DpAnyhow'
  <2>1. \A q \in DpRequests : DpUnderway(q)'
    BY <1>a, <1>g, DpGoesOn, OthersUnderway
  <2> QED BY <1>a, <1>g, <2>1 DEF DpAnyhow, DpNumbers
<1>1. CASE SaveDeployConfig(r)
  <2>1. deployCfg' \in DeployConfig /\ deployCfg' # NoDp
    <3>1. PICK b \in Branches, restart \in BOOLEAN :
            deployCfg' = [branch |-> b, restart |-> restart, status |-> ""]
      BY <1>1 DEF SaveDeployConfig, StatusAfterSave
    <3>2. deployCfg' \in DeployConfig
      BY <3>1 DEF DeployConfig
    <3> QED BY <3>2, CommitFacts
  <2> QED BY <1>a, <1>1, <2>1 DEF SaveDeployConfig, DpAnyhow, DpTyped, DpNumbers, DpUnderway
<1>2. CASE BeginDeploy(r)
  <2>1. PICK b \in Branches :
          dp' = [dp EXCEPT ![r] = [pc |-> "sync", branch |-> b, restart |-> deployCfg.restart]]
    BY <1>2 DEF BeginDeploy
  <2>2. deployCfg \in DeployConfig /\ deployCfg.restart \in BOOLEAN
    BY <1>b, <1>2 DEF BeginDeploy, DeployConfig
  <2>3. /\ dp' \in [DpRequests -> DpRequestStates] /\ dp'[r].pc = "sync"
        /\ dp'[r].branch \in Branches /\ \A q \in DpRequests \ {r} : dp'[q] = dp[q]
    BY <1>a, <2>1, <2>2 DEF DpRequestStates
  <2>4. DpTyped' /\ DpNumbers'
    BY <1>a, <1>2, <2>3 DEF BeginDeploy, Unsynced, Unwritten, DpTyped, DpNumbers
  <2>5. DpUnderway(r)' /\ UNCHANGED <<deployCfg, repo>>
    BY <1>2, <2>3 DEF BeginDeploy, Unsynced, Unwritten, DpUnderway
  <2>6. \A q \in DpRequests : DpUnderway(q)'
    BY <2>3, <2>5, OthersUnderway
  <2> QED BY <2>4, <2>6 DEF DpAnyhow
<1>3. CASE CloneRepo(r)
  <2>1. deployCfg # NoDp /\ dp[r].branch \in Branches /\ repo = NoDp
    BY <1>a, <1>3 DEF CloneRepo, DpUnderway
  <2>2. CASE (DpFails(r, DpFault) \/ DpFails(r, DpWorks)) /\ Unsynced
    BY <1>a, <1>3, <1>f, <2>1, <2>2, DpEndsAnyhow, DpFinishes
       DEF CloneRepo, Unsynced, DpTyped, DpFails
  <2>3. CASE /\ repo' = [follows |-> {dp[r].branch},
                         refs |-> [c \in Branches |->
                                   IF c = dp[r].branch THEN remote[dp[r].branch] ELSE NoDp]]
             /\ worktree' = remote[dp[r].branch] /\ dirty' = FALSE
             /\ DpGoTo(r, "build") /\ Unwritten
    <3>1. /\ repo' \in [follows : SUBSET Branches, refs : [Branches -> Heads \cup {NoDp}]]
          /\ worktree' \in Heads /\ repo' # NoDp
      BY <1>a, <2>1, <2>3, CommitFacts DEF DpTyped
    <3> QED BY <1>a, <1>3, <1>g, <2>1, <2>3, <3>1, CommitFacts, DpGoesOn DEF CloneRepo, Unwritten,
         DpTyped, DpUnderway
  <2> QED BY <1>3, <2>2, <2>3 DEF CloneRepo
<1>4. CASE FetchBranch(r)
  <2>1. deployCfg # NoDp /\ dp[r].branch \in Branches /\ repo # NoDp
    BY <1>a, <1>4 DEF FetchBranch, DpUnderway
  <2>2. CASE DpFails(r, DpFault) /\ UNCHANGED repo
    BY <1>a, <1>4, <1>f, <2>1, <2>2, DpEndsAnyhow, DpFinishes DEF FetchBranch, DpTyped, DpFails
  <2>3. CASE /\ repo' = IF dp[r].branch \in repo.follows
                        THEN [repo EXCEPT !.refs[dp[r].branch] = remote[dp[r].branch]] ELSE repo
             /\ DpGoTo(r, "checkout") /\ Unwritten
    <3>1. /\ repo' \in [follows : SUBSET Branches, refs : [Branches -> Heads \cup {NoDp}]]
          /\ repo' # NoDp
          /\ \A b \in Branches : repo.refs[b] # NoDp => repo'.refs[b] # NoDp
      BY <1>a, <1>b, <2>1, <2>3, CommitFacts DEF DpTyped
    <3>2. DpTyped'
      BY <1>a, <1>4, <2>1, <2>3, <3>1, DpGoesOn DEF FetchBranch, Unwritten, DpTyped
    <3>3. DpUnderway(r)'
      BY <1>a, <2>1, <2>3, <3>1, DpGoesOn DEF Unwritten, DpUnderway
    <3> QED BY <1>g, <2>3, <3>1, <3>2, <3>3 DEF Unwritten
  <2> QED BY <1>4, <2>2, <2>3 DEF FetchBranch
<1>5. CASE CheckoutBranch(r)
  <2>1. /\ deployCfg # NoDp /\ dp[r].branch \in Branches /\ repo # NoDp
        /\ repo.refs[dp[r].branch] \in Heads \cup {NoDp}
    BY <1>a, <1>b, <1>5 DEF CheckoutBranch, Fetched, DpUnderway
  <2>2. ASSUME NEW why, DpFails(r, why), UNCHANGED worktree PROVE DpAnyhow'
    BY <1>a, <1>5, <1>f, <2>1, <2>2, DpEndsAnyhow, DpFinishes
       DEF CheckoutBranch, Fetched, DpTyped, DpFails
  <2>3. CASE /\ repo.refs[dp[r].branch] # NoDp /\ worktree' = repo.refs[dp[r].branch]
             /\ DpGoTo(r, "reset") /\ Unwritten
    BY <1>a, <1>5, <1>g, <2>1, <2>3, CommitFacts, DpGoesOn
       DEF CheckoutBranch, Fetched, Unwritten, DpTyped, DpUnderway
  <2> QED BY <1>5, <2>2, <2>3 DEF CheckoutBranch, Fetched
<1>6. CASE ResetTree(r)
  <2>1. /\ deployCfg # NoDp /\ dp[r].branch \in Branches /\ repo # NoDp
        /\ repo.refs[dp[r].branch] \in Heads
    BY <1>a, <1>b, <1>6 DEF ResetTree, DpUnderway
  <2>2. CASE DpFails(r, DpFault) /\ UNCHANGED <<worktree, dirty>>
    BY <1>a, <1>6, <1>f, <2>1, <2>2, DpEndsAnyhow, DpFinishes DEF ResetTree, DpTyped, DpFails
  <2>3. CASE /\ worktree' = repo.refs[dp[r].branch] /\ dirty' = FALSE
             /\ DpGoTo(r, "build") /\ Unwritten
    BY <1>a, <1>6, <1>g, <2>1, <2>3, CommitFacts, DpGoesOn DEF ResetTree, Unwritten, DpTyped,
       DpUnderway
  <2> QED BY <1>6, <2>2, <2>3 DEF ResetTree
<1>7. CASE RunDeployCommand(r)
  <2>1. deployCfg # NoDp /\ dp[r].branch \in Branches /\ repo # NoDp
    BY <1>a, <1>7 DEF RunDeployCommand, DpUnderway
  <2>2. CASE DpFails(r, DpFault) /\ built' \in {built, Unknown} /\ dirty' \in BOOLEAN
    BY <1>a, <1>7, <1>f, <2>1, <2>2, DpEndsAnyhow, DpFinishes, CommitFacts
       DEF RunDeployCommand, DpTyped, DpFails
  <2>3. CASE /\ built' = worktree /\ dirty' \in BOOLEAN
             /\ DpGoTo(r, IF dp[r].restart THEN "restart" ELSE "record") /\ Unwritten
    <3>1. DpTyped'
      BY <1>a, <1>7, <2>1, <2>3, DpGoesOn, CommitFacts DEF RunDeployCommand, Unwritten, DpTyped
    <3>2. DpUnderway(r)'
      BY <1>a, <1>7, <2>1, <2>3, DpGoesOn DEF RunDeployCommand, Unwritten, DpUnderway
    <3> QED BY <1>7, <1>g, <2>3, <3>1, <3>2 DEF RunDeployCommand, Unwritten
  <2> QED BY <1>7, <2>2, <2>3 DEF RunDeployCommand
<1>8. CASE RestartRuntime(r)
  <2>1. deployCfg # NoDp /\ dp[r].branch \in Branches /\ repo # NoDp
    BY <1>a, <1>8 DEF RestartRuntime, DpUnderway
  <2>2. CASE DpFails(r, DpFault) /\ serving' \in {serving, NoDp}
    BY <1>a, <1>8, <1>f, <2>1, <2>2, DpEndsAnyhow, DpFinishes DEF RestartRuntime, Unsynced,
       DpTyped, DpFails
  <2>3. CASE serving' = built /\ DpGoTo(r, "record") /\ Unwritten
    <3>1. DpTyped'
      BY <1>a, <1>8, <2>1, <2>3, DpGoesOn DEF RestartRuntime, Unsynced, Unwritten, DpTyped
    <3>2. DpUnderway(r)'
      BY <1>a, <1>8, <2>1, <2>3, DpGoesOn DEF RestartRuntime, Unsynced, Unwritten, DpUnderway
    <3> QED BY <1>8, <1>g, <2>3, <3>1, <3>2 DEF RestartRuntime, Unsynced, Unwritten
  <2> QED BY <1>8, <2>2, <2>3 DEF RestartRuntime
<1>9. CASE RecordSuccess(r)
  <2>1. deployCfg # NoDp
    BY <1>a, <1>9 DEF RecordSuccess, DpUnderway
  <2>2. DpTyped' /\ DpFinish(r) /\ UNCHANGED <<pushes, repo>> /\ deployCfg' # NoDp
    BY <1>a, <1>9, <2>1, DpEndsAnyhow, DpFinishes DEF RecordSuccess, Unsynced, DpTyped
  <2> QED BY <1>f, <2>1, <2>2
<1> QED
  BY <1>u, <1>1, <1>2, <1>3, <1>4, <1>5, <1>6, <1>7, <1>8, <1>9 DEF DpStep, DeployRefused

LEMMA DeploysStayTyped == DpAnyhow /\ [DeploysNext]_dpVars => DpAnyhow'
<1> SUFFICES ASSUME DpAnyhow, [DeploysNext]_dpVars PROVE DpAnyhow'
  OBVIOUS
<1>a. DpTyped /\ DpNumbers
  BY DEF DpAnyhow
<1>1. CASE Push
  <2>1. pushes + 1 \in Heads /\ DpNumbers'
    BY <1>a, <1>1, DeploysAssumption DEF Push, DpNumbers, Heads
  <2>2. DpTyped'
    BY <1>a, <1>1, <2>1 DEF Push, Unsynced, DpTyped
  <2> QED BY <1>1, <2>1, <2>2 DEF Push, Unsynced, DpAnyhow, DpUnderway
<1>2. CASE ChangeFiles
  BY <1>2 DEF ChangeFiles, Unwritten, DpAnyhow, DpTyped, DpNumbers, DpUnderway
<1>3. CASE RuntimeAction
  BY <1>3 DEF RuntimeAction, Unwritten, Unsynced, DpAnyhow, DpTyped, DpNumbers, DpUnderway
<1>4. CASE DpCrash
  <2>1. PICK r \in DpRequests : DpFinish(r) /\ unrecorded' = TRUE
    BY <1>4 DEF DpCrash
  <2>2. DpTyped' /\ DpNumbers'
    BY <1>a, <1>4, <2>1, CommitFacts, DpFinishes DEF DpCrash, Unsynced, DpTyped, DpNumbers
  <2>3. \A q \in DpRequests : DpUnderway(q)'
    BY <1>a, <1>4, <2>1, DpFinishes, OthersUnderway DEF DpCrash, Unsynced
  <2> QED BY <2>2, <2>3 DEF DpAnyhow
<1>5. CASE UNCHANGED dpVars
  BY <1>5 DEF dpVars, DpAnyhow, DpTyped, DpNumbers, DpUnderway
<1> QED BY <1>1, <1>2, <1>3, <1>4, <1>5, DeploysMoveAnyhow DEF DeploysNext

\* The repository, the tree, the build and the row of a platform keep their types, whether
\* deployments take turns or not, for any branches, pushes and failures (Deploy, gitSync).
THEOREM DeploysTyped == DeploysSpec => []DeploysTypeOK
<1>1. DeploysInit => DpAnyhow
  BY DeploysInitially DEF DpInv, DpAnyhow, DpStages, DpStage, DpUnderway
<1>2. DpAnyhow /\ dpFailures \in 0..MaxDpFailures => DeploysTypeOK
  <2> SUFFICES ASSUME DpAnyhow, dpFailures \in 0..MaxDpFailures PROVE DeploysTypeOK
    OBVIOUS
  <2>1. Heads \cup {NoDp} \subseteq Commits \cup {NoDp}
    BY CommitFacts
  <2>2. repo \in Repository \cup {NoDp} /\ remote \in [Branches -> Commits]
    BY <2>1, CommitFacts DEF DpAnyhow, DpTyped, Repository
  <2> QED BY <2>2 DEF DpAnyhow, DpTyped, DpNumbers, DeploysTypeOK
<1> QED BY <1>1, DeploysStayTyped, DpCounted, <1>2, PTL DEF DeploysSpec

-----------------------------------------------------------------------------
(* The alerts.  A check deals with the kinds of alert in their order, and   *)
(* those it has dealt with are what its row says.                           *)

Looking == {"http", "ssl", "disk", "store"}
Earlier == [service_down |-> {}, ssl_expiring |-> {"service_down"},
            disk_high |-> {"service_down", "ssl_expiring"}]
Dealt(w) == CASE w.pc \in Looking -> {}
              [] w.pc \in Kinds   -> Earlier[w.pc]
              [] w.pc = "tell"    -> Earlier[w.next] \cup {w.next}
              [] OTHER            -> Kinds

\* The status of a row says what it saw.
Telling(row) ==
  /\ row.service = "stopped" \/ row.ssl = "expired" \/ row.disk => row.status = "critical"
  /\ row.ssl = "expiring" => row.status # "ok"

Agreed(k) == alerts[k].open = IF Active(latest, k) THEN 1 ELSE 0
Counted(k) == /\ alerts[k].open <= 1 /\ alerts[k].told <= alerts[k].rows
              /\ alerts[k].rows <= begun

AlTurns == \A c, d \in Checkers : check[c].pc # "idle" /\ check[d].pc # "idle" => c = d

Checked(c) ==
  /\ Telling(check[c].row)
  /\ check[c].pc = "tell" =>
       check[c].next \in Kinds /\ alerts[check[c].next].told < alerts[check[c].next].rows
  /\ check[c].pc # "idle" => check[c].row.at = begun
  /\ check[c].pc \in Looking => latest.at < begun
  /\ check[c].pc \in Kinds \cup {"tell"} => latest = check[c].row
  /\ \A k \in Kinds \ Dealt(check[c]) : alerts[k].rows < begun
  /\ check[c].pc \in Kinds \cup {"tell"} /\ ~unwritten => \A k \in Dealt(check[c]) : Agreed(k)

AlInv ==
  /\ AlertsTypeOK /\ AlTurns /\ Telling(latest) /\ latest.at <= begun
  /\ \A k \in Kinds : Counted(k)
  /\ \A c \in Checkers : Checked(c)
  /\ ~unwritten /\ (\A c \in Checkers : check[c].pc \in Looking \cup {"idle"}) =>
       \A k \in Kinds : Agreed(k)

CheckStates == [pc : CheckSteps, row : Row, next : Kinds \cup {"idle"}]
AlertRows == [rows : 0..MaxChecks, open : 0..MaxChecks, told : 0..MaxChecks]

LEMMA CheckFacts ==
  /\ CheckSteps = Looking \cup Kinds \cup {"idle", "tell"}
  /\ "idle" \notin Looking \cup Kinds /\ "tell" \notin Looking \cup Kinds
  /\ \A k \in Kinds : k \notin Looking
  /\ KindAfter.service_down = "ssl_expiring" /\ KindAfter.ssl_expiring = "disk_high"
  /\ KindAfter.disk_high = "idle"
  /\ DOMAIN Rank = {"ok", "warning", "critical"}
BY DEF CheckSteps, Looking, Kinds, KindAfter, Rank

LEMMA NothingSeen ==
  /\ NoRow \in Row /\ NoCheck \in CheckStates /\ Telling(NoRow) /\ NoRow.at = 0
  /\ NoCheck.pc = "idle" /\ NoCheck.row = NoRow
  /\ \A k \in Kinds : ~Active(NoRow, k)
BY AlertsAssumption, CheckFacts
   DEF NoRow, NoCheck, Row, CheckStates, Telling, CertStates, Active, Kinds, CheckSteps

\* What is seen can only make the status worse.
LEMMA Worse ==
  ASSUME NEW a \in DOMAIN Rank, NEW b \in DOMAIN Rank
  PROVE  /\ WorseStatus(a, b) \in DOMAIN Rank
         /\ a = "critical" \/ b = "critical" => WorseStatus(a, b) = "critical"
         /\ a # "ok" \/ b # "ok" => WorseStatus(a, b) # "ok"
BY DEF WorseStatus, Rank

LEMMA NotedFacts ==
  ASSUME NEW row \in Row, NEW status \in DOMAIN Rank
  PROVE  /\ Noted(row, status) \in Row
         /\ Noted(row, status).at = row.at /\ Noted(row, status).service = row.service
         /\ Noted(row, status).ssl = row.ssl /\ Noted(row, status).disk = row.disk
         /\ status = "critical" \/ row.status = "critical" =>
              Noted(row, status).status = "critical"
         /\ status # "ok" \/ row.status # "ok" => Noted(row, status).status # "ok"
<1>1. row.status \in DOMAIN Rank
  BY DEF Row
<1>2. WorseStatus(row.status, status) \in DOMAIN Rank
  BY <1>1, Worse
<1>3. Noted(row, status) = [row EXCEPT !.status = WorseStatus(row.status, status)]
  BY DEF Noted
<1> QED BY <1>1, <1>2, <1>3, Worse DEF Row

\* The dealing of a kind is followed by that of the next.
LEMMA DealtFacts ==
  ASSUME NEW k \in Kinds, NEW w \in CheckStates
  PROVE  /\ Dealt(NoCheck) = Kinds
         /\ w.pc \in Looking => Dealt(w) = {}
         /\ w.pc = "idle" => Dealt(w) = Kinds
         /\ w.pc = k => Dealt(w) = Earlier[k] /\ k \notin Dealt(w)
         /\ w.pc = "tell" /\ w.next = k => Dealt(w) = Earlier[k] \cup {k}
         /\ KindAfter[k] = "idle" => Earlier[k] \cup {k} = Kinds
         /\ KindAfter[k] # "idle" => KindAfter[k] \in Kinds
         /\ KindAfter[k] # "idle" /\ w.pc = KindAfter[k] => Dealt(w) = Earlier[k] \cup {k}
         /\ Earlier[k] \subseteq Kinds
BY CheckFacts DEF Dealt, Earlier, Kinds, KindAfter, NoCheck, Looking

\* A step of the check that is at work.
LEMMA CheckGoes ==
  ASSUME AlInv, AlertsTypeOK', NEW c \in Checkers, check[c].pc # "idle",
         \A d \in Checkers \ {c} : check'[d] = check[d], UNCHANGED begun,
         Telling(latest)', latest'.at <= begun, \A k \in Kinds : Counted(k)', Checked(c)',
         ~unwritten' /\ check'[c].pc \in Looking \cup {"idle"} => \A k \in Kinds : Agreed(k)'
  PROVE  AlInv'
<1>1. \A d \in Checkers \ {c} : check[d].pc = "idle" /\ check[d] \in CheckStates
                              /\ Dealt(check[d]) = Kinds /\ Checked(d)
  BY CheckFacts DEF AlInv, AlTurns, AlertsTypeOK, CheckStates, Dealt
<1>2. AlTurns'
  BY <1>1 DEF AlTurns
<1>3. \A d \in Checkers \ {c} : Checked(d)'
  <2> SUFFICES ASSUME NEW d \in Checkers \ {c} PROVE Checked(d)'
    OBVIOUS
  <2>1. check'[d] = check[d] /\ check[d].pc = "idle" /\ Dealt(check[d])' = Kinds
    BY <1>1 DEF Dealt
  <2>2. Telling(check[d].row)'
    BY <1>1, <2>1 DEF Checked, Telling
  <2> QED BY <2>1, <2>2, CheckFacts DEF Checked
<1> QED BY <1>2, <1>3 DEF AlInv

\* A step that looks at one more thing, or ends before the row is there.
LEMMA Looks ==
  ASSUME AlInv, AlertsTypeOK', NEW c \in Checkers, check[c].pc \in Looking,
         check'[c].pc \in Looking, check'[c].row.at = check[c].row.at, Telling(check[c].row)',
         \A d \in Checkers \ {c} : check'[d] = check[d],
         UNCHANGED <<latest, alerts, unwritten, begun>>
  PROVE  AlInv'
<1>1. \A d \in Checkers \ {c} : check[d].pc = "idle"
  BY CheckFacts DEF AlInv, AlTurns
<1>2. Checked(c) /\ check[c] \in CheckStates /\ check'[c] \in CheckStates
  BY DEF AlInv, AlertsTypeOK, CheckStates
<1>3. Dealt(check[c]) = {} /\ Dealt(check[c])' = {}
  <2>1. \A w \in CheckStates : w.pc \in Looking => Dealt(w) = {}
    BY DealtFacts DEF Kinds
  <2>2. Dealt(check'[c]) = {}
    BY <1>2, <2>1
  <2> QED BY <1>2, <2>1, <2>2 DEF Dealt
<1>4. Checked(c)'
  BY <1>2, <1>3, CheckFacts DEF Checked
<1>5. ~unwritten => \A k \in Kinds : Agreed(k)
  BY <1>1 DEF AlInv
<1> QED BY <1>4, <1>5, CheckFacts, CheckGoes DEF AlInv, Agreed, Counted, Telling

LEMMA AlertsInitially == AlertsInit => AlInv
<1> SUFFICES ASSUME AlertsInit PROVE AlInv
  OBVIOUS
<1>1. AlertsTypeOK
  <2>1. alerts \in [Kinds -> AlertRows]
    BY AlertsAssumption DEF AlertsInit, AlertRows
  <2>2. check \in [Checkers -> CheckStates] /\ latest \in Row
    BY NothingSeen DEF AlertsInit
  <2>3. /\ unitUp \in BOOLEAN /\ answers \in BOOLEAN /\ cert \in CertStates /\ full \in BOOLEAN
        /\ unwritten \in BOOLEAN
    BY DEF AlertsInit, CertStates
  <2>4. /\ begun \in 0..MaxChecks /\ healthChanges \in 0..MaxHealthChanges
        /\ alertFailures \in 0..MaxAlertFailures
    BY AlertsAssumption DEF AlertsInit
  <2> QED BY <2>1, <2>2, <2>3, <2>4 DEF AlertsTypeOK, CheckStates, AlertRows
<1>2. \A k \in Kinds : Agreed(k) /\ Counted(k)
  BY NothingSeen DEF AlertsInit, Agreed, Counted
<1>3. \A c \in Checkers : check[c] = NoCheck /\ Checked(c)
  BY NothingSeen, CheckFacts DEF AlertsInit, Checked, Dealt
<1> QED BY <1>1, <1>2, <1>3, NothingSeen DEF AlertsInit, AlInv, AlTurns

LEMMA AlertsKeep ==
  ASSUME AlInv, ~AlOverlapping, [AlertsNext]_alertVars
  PROVE  AlInv'
<1>a. /\ AlertsTypeOK /\ check \in [Checkers -> CheckStates] /\ latest \in Row
      /\ alerts \in [Kinds -> AlertRows] /\ begun \in Nat /\ begun \in 0..MaxChecks
  BY AlertsAssumption DEF AlInv, AlertsTypeOK, CheckStates, AlertRows
<1>b. CASE UNCHANGED <<latest, alerts, check, begun, unwritten>> /\ AlertsTypeOK'
  <2>1. \A c \in Checkers : Checked(c) => Checked(c)'
    <3> SUFFICES ASSUME NEW c \in Checkers, Checked(c) PROVE Checked(c)'
      OBVIOUS
    <3>1. Dealt(check[c])' = Dealt(check[c])
      BY <1>b DEF Dealt
    <3>2. \A k : Agreed(k)' <=> Agreed(k)
      BY <1>b DEF Agreed
    <3>3. Telling(check[c].row)' <=> Telling(check[c].row)
      BY <1>b DEF Telling
    <3> QED BY <1>b, <3>1, <3>2, <3>3 DEF Checked
  <2>2. \A k \in Kinds : (Counted(k) => Counted(k)') /\ (Agreed(k) => Agreed(k)')
    BY <1>b DEF Counted, Agreed, Active
  <2>3. AlTurns' /\ Telling(latest)' /\ latest'.at <= begun'
    BY <1>b DEF AlInv, AlTurns, Telling
  <2> QED BY <1>b, <2>1, <2>2, <2>3 DEF AlInv
<1>c. CASE UNCHANGED alertVars
  <2>1. AlertsTypeOK'
    BY <1>a, <1>c DEF alertVars, AlertsTypeOK
  <2> QED BY <1>b, <1>c, <2>1 DEF alertVars
<1> SUFFICES ASSUME AlertsNext PROVE AlInv'
  BY <1>c
<1>f. ASSUME AlFault \/ AlWorks PROVE alertFailures' \in 0..MaxAlertFailures
  BY <1>a, <1>f, AlertsAssumption DEF AlFault, AlWorks, AlertsTypeOK
<1>1. CASE HealthChanges
  <2>1. AlertsTypeOK'
    <3>1. /\ unitUp' \in BOOLEAN /\ answers' \in BOOLEAN /\ cert' \in CertStates
          /\ full' \in BOOLEAN
      BY <1>1, <1>a DEF HealthChanges, AlertsTypeOK
    <3>2. healthChanges' \in 0..MaxHealthChanges
      BY <1>1, <1>a, AlertsAssumption DEF HealthChanges, AlertsTypeOK
    <3> QED BY <1>1, <1>a, <1>f, <3>1, <3>2 DEF HealthChanges, RowsAsAre, AlertsTypeOK
  <2> QED BY <1>1, <1>b, <2>1 DEF HealthChanges, RowsAsAre
\* Type and rest of a step that looks.
<1>2. ASSUME NEW c \in Checkers, NEW pc \in Looking, NEW STATE row, row \in Row, Goes(c, pc, row),
             check[c].pc \in Looking, row.at = check[c].row.at, Telling(row),
             RowsAsAre, HostAsIs, AlFault \/ AlWorks, UNCHANGED begun
      PROVE  AlInv'
  <2>1. check' = [check EXCEPT ![c].pc = pc, ![c].row = row]
    BY <1>2 DEF Goes
  <2>2. /\ check' \in [Checkers -> CheckStates] /\ check'[c].pc = pc /\ check'[c].row = row
        /\ \A d \in Checkers \ {c} : check'[d] = check[d]
    BY <1>2, <1>a, <2>1, CheckFacts DEF CheckStates
  <2>3. AlertsTypeOK'
    BY <1>2, <1>a, <1>f, <2>2 DEF AlertsTypeOK, CheckStates, HostAsIs, RowsAsAre
  <2>4. Telling(check[c].row)'
    BY <1>2, <2>2 DEF Telling
  <2> QED BY <1>2, <2>2, <2>3, <2>4, Looks DEF RowsAsAre
<1>3. ASSUME NEW c \in Checkers, CheckHealth(c) PROVE AlInv'
  <2> DEFINE new == [NoRow EXCEPT !.at = begun']
             stopped == [new EXCEPT !.service = "stopped"]
  <2>1. /\ check[c].pc = "idle" /\ begun' = begun + 1 /\ begun' \in 0..MaxChecks
        /\ \A d \in Checkers : check[d].pc = "idle"
        /\ RowsAsAre /\ HostAsIs /\ (AlFault \/ AlWorks)
    BY <1>3, <1>a, AlertsAssumption DEF CheckHealth
  <2>2. PICK row : /\ Goes(c, "http", row)
                   /\ row \in {[new EXCEPT !.service = "running"], Noted(stopped, "critical"),
                               Noted(new, "warning")}
    BY <1>3 DEF CheckHealth
  <2>3. /\ new \in Row /\ stopped \in Row /\ new.at = begun' /\ stopped.at = begun'
        /\ [new EXCEPT !.service = "running"] \in Row
        /\ [new EXCEPT !.service = "running"].at = begun'
        /\ Telling(new) /\ Telling([new EXCEPT !.service = "running"])
        /\ new.ssl = "none" /\ stopped.ssl = "none" /\ ~new.disk /\ ~stopped.disk
        /\ new.service = "unknown"
    BY <2>1, NothingSeen DEF NoRow, Row, Telling, CertStates
  <2>4. row \in Row /\ row.at = begun' /\ Telling(row)
    <3>1. CASE row = [new EXCEPT !.service = "running"]
      BY <2>3, <3>1
    <3>2. CASE row = Noted(stopped, "critical")
      BY <2>3, <3>2, NotedFacts, CheckFacts DEF Telling
    <3>3. CASE row = Noted(new, "warning")
      <4>1. /\ row.service = "unknown" /\ row.ssl = "none" /\ row.disk = new.disk
            /\ row \in Row /\ row.at = begun'
        <5> HIDE DEF new, stopped
        <5> QED BY <2>3, <3>3, NotedFacts, CheckFacts
      <4> QED BY <2>3, <4>1 DEF Telling
    <3> QED BY <2>2, <3>1, <3>2, <3>3
  <2>5. check' = [check EXCEPT ![c].pc = "http", ![c].row = row]
    BY <2>2 DEF Goes
  <2>6. /\ check' \in [Checkers -> CheckStates] /\ check'[c].pc = "http" /\ check'[c].row = row
        /\ \A d \in Checkers \ {c} : check'[d] = check[d]
    BY <1>a, <2>4, <2>5, CheckFacts DEF CheckStates, Looking
  <2>7. AlertsTypeOK'
    BY <1>a, <1>f, <2>1, <2>6 DEF AlertsTypeOK, CheckStates, HostAsIs, RowsAsAre
  <2>8. AlTurns'
    BY <2>1, <2>6 DEF AlTurns
  <2>9. \A d \in Checkers \ {c} : Checked(d)'
    BY <1>a, <2>1, <2>6, CheckFacts DEF AlInv, Checked, Dealt, RowsAsAre, Telling
  <2>10. Checked(c)'
    <3>1. Dealt(check[c])' = {}
      <4>1. check'[c] \in CheckStates /\ check'[c].pc \in Looking
        BY <2>6 DEF Looking
      <4>2. Dealt(check'[c]) = {}
        BY <4>1, DealtFacts DEF Kinds
      <4> QED BY <4>2 DEF Dealt
    <3>2. latest.at < begun' /\ \A k \in Kinds : alerts[k].rows < begun'
      BY <1>a, <2>1 DEF AlInv, Counted, Row, AlertRows
    <3>3. Telling(check[c].row)'
      BY <2>4, <2>6 DEF Telling
    <3> QED BY <2>1, <2>4, <2>6, <3>1, <3>2, <3>3, CheckFacts DEF Checked, RowsAsAre, Looking
  <2>11. ~unwritten' => \A k \in Kinds : Agreed(k)'
    BY <2>1 DEF AlInv, Agreed, RowsAsAre
  <2>12. Telling(latest)' /\ latest'.at <= begun' /\ \A k \in Kinds : Counted(k)'
    BY <1>a, <2>1 DEF AlInv, Telling, Counted, RowsAsAre, Row, AlertRows
  <2> QED BY <2>7, <2>8, <2>9, <2>10, <2>11, <2>12 DEF AlInv
<1>4. ASSUME NEW c \in Checkers, ProbeHTTP(c) \/ SslExpiry(c) \/ DiskUsed(c) PROVE AlInv'
  <2>1. /\ check[c].pc \in Looking /\ RowsAsAre /\ HostAsIs /\ (AlFault \/ AlWorks)
        /\ UNCHANGED begun /\ check[c].row \in Row /\ Telling(check[c].row)
        /\ cert \in CertStates
    BY <1>4, <1>a DEF ProbeHTTP, SslExpiry, DiskUsed, Looking, CheckStates, AlInv, Checked,
       AlertsTypeOK
  <2> DEFINE row == check[c].row
             seen == [row EXCEPT !.ssl = cert]
             filled == [row EXCEPT !.disk = TRUE]
  <2>2. /\ seen \in Row /\ filled \in Row /\ seen.at = row.at /\ filled.at = row.at
        /\ seen.service = row.service /\ seen.status = row.status /\ seen.disk = row.disk
        /\ seen.ssl = cert /\ filled.ssl = row.ssl
    BY <2>1 DEF Row
  <2>3. ASSUME NEW status \in DOMAIN Rank
        PROVE  Noted(row, status) \in Row /\ Noted(row, status).at = row.at
               /\ Telling(Noted(row, status))
    BY <2>1, NotedFacts DEF Telling
  <2>4. /\ Noted(filled, "critical") \in Row /\ Noted(filled, "critical").at = row.at
        /\ Telling(Noted(filled, "critical"))
    BY <2>2, NotedFacts, CheckFacts DEF Telling
  <2>5. /\ Noted(seen, "critical") \in Row /\ Noted(seen, "critical").at = row.at
        /\ Telling(Noted(seen, "critical"))
    BY <2>2, NotedFacts, CheckFacts DEF Telling
  <2>6. /\ Noted(seen, "warning") \in Row /\ Noted(seen, "warning").at = row.at
        /\ cert \in {"expiring", "unknown"} => Telling(Noted(seen, "warning"))
    <3>1. /\ Noted(seen, "warning") \in Row /\ Noted(seen, "warning").at = row.at
          /\ Noted(seen, "warning").service = row.service /\ Noted(seen, "warning").ssl = cert
          /\ Noted(seen, "warning").disk = row.disk /\ Noted(seen, "warning").status # "ok"
          /\ row.status = "critical" => Noted(seen, "warning").status = "critical"
      <4> HIDE DEF row, seen
      <4> QED BY <2>2, NotedFacts, CheckFacts
    <3>2. row.service = "stopped" \/ row.disk => row.status = "critical"
      BY <2>1 DEF Telling
    <3> HIDE DEF row, seen
    <3> QED BY <3>1, <3>2 DEF Telling
  <2>7. cert \notin {"expired", "expiring", "unknown"} => Telling(seen)
    BY <2>1, <2>2 DEF Telling
  <2> HIDE DEF row, seen, filled
  <2>8. CASE ProbeHTTP(c)
    <3>1. \E r \in {row, Noted(row, "warning"), Noted(row, "critical")} : Goes(c, "ssl", r)
      BY <2>8 DEF ProbeHTTP, row
    <3> QED BY <1>2, <2>1, <2>3, <3>1, CheckFacts DEF Looking, row
  <2>9. CASE SslExpiry(c)
    <3>1. \/ Goes(c, "disk", row)
          \/ cert = "expired" /\ Goes(c, "disk", Noted(seen, "critical"))
          \/ cert \in {"expiring", "unknown"} /\ Goes(c, "disk", Noted(seen, "warning"))
          \/ cert \notin {"expired", "expiring", "unknown"} /\ Goes(c, "disk", seen)
      BY <2>9 DEF SslExpiry, row, seen
    <3> QED BY <1>2, <2>1, <2>2, <2>5, <2>6, <2>7, <3>1 DEF Looking, row
  <2>10. CASE DiskUsed(c)
    <3>1. \E r \in {row, Noted(row, "warning"), Noted(filled, "critical")} : Goes(c, "store", r)
      BY <2>10 DEF DiskUsed, row, filled
    <3> QED BY <1>2, <2>1, <2>3, <2>4, <3>1, CheckFacts DEF Looking, row
  <2> QED BY <1>4, <2>8, <2>9, <2>10
\* The check ends, with its alerts written or not.
<1>6. ASSUME NEW c \in Checkers, check[c].pc # "idle", check' = [check EXCEPT ![c] = NoCheck],
             UNCHANGED <<latest, alerts, begun>>, HostAsIs, AlFault \/ AlWorks,
             unwritten' = unwritten \/ unwritten' = TRUE,
             ~unwritten' => check[c].pc \in Looking
      PROVE  AlInv'
  <2>1. /\ check' \in [Checkers -> CheckStates] /\ check'[c] = NoCheck
        /\ \A d \in Checkers \ {c} : check'[d] = check[d] /\ check[d].pc = "idle"
    BY <1>6, <1>a, NothingSeen DEF AlInv, AlTurns
  <2>2. AlertsTypeOK'
    BY <1>a, <1>f, <1>6, <2>1 DEF AlertsTypeOK, CheckStates, HostAsIs
  <2>3. Checked(c)'
    <3>1. Dealt(check[c])' = Kinds
      BY <2>1, NothingSeen, CheckFacts DEF Dealt
    <3>2. Telling(check[c].row)'
      BY <2>1, NothingSeen DEF Telling
    <3> QED BY <2>1, <3>1, <3>2, NothingSeen, CheckFacts DEF Checked
  <2>4. ~unwritten' => \A k \in Kinds : Agreed(k)'
    <3>1. ~unwritten' => \A k \in Kinds : Agreed(k)
      BY <1>6, <2>1 DEF AlInv
    <3> QED BY <1>6, <3>1 DEF Agreed
  <2>5. Telling(latest)' /\ latest'.at <= begun' /\ \A k \in Kinds : Counted(k)'
    BY <1>6 DEF AlInv, Telling, Counted
  <2> QED BY <1>6, <2>1, <2>2, <2>3, <2>4, <2>5, CheckGoes
<1>5. ASSUME NEW c \in Checkers, StoreCheck(c) PROVE AlInv'
  <2>1. /\ check[c].pc = "store" /\ UNCHANGED <<alerts, begun>> /\ HostAsIs
        /\ (AlFault \/ AlWorks) /\ Checked(c) /\ check[c] \in CheckStates
        /\ \A d \in Checkers \ {c} : check[d].pc = "idle"
    BY <1>5, <1>a, CheckFacts DEF StoreCheck, AlInv, AlTurns
  <2>2. latest.at < check[c].row.at /\ check[c].row.at = begun /\ check[c].row \in Row
        /\ Telling(check[c].row)
    BY <2>1 DEF Checked, Looking, CheckStates
  <2>3. CASE /\ latest' = IF check[c].row.at > latest.at THEN check[c].row ELSE latest
             /\ unwritten' = FALSE /\ Goes(c, "service_down", check[c].row)
    <3>1. latest' = check[c].row
      BY <1>a, <2>2, <2>3 DEF Row
    <3>2. /\ check' \in [Checkers -> CheckStates] /\ check'[c].pc = "service_down"
          /\ check'[c].row = check[c].row /\ \A d \in Checkers \ {c} : check'[d] = check[d]
      BY <1>a, <2>2, <2>3, CheckFacts DEF Goes, CheckStates, Kinds
    <3>3. AlertsTypeOK'
      BY <1>a, <1>f, <2>1, <2>2, <2>3, <3>1, <3>2 DEF AlertsTypeOK, CheckStates, HostAsIs
    <3>4. Dealt(check[c])' = {} /\ Dealt(check[c]) = {}
      BY <2>1, <3>2 DEF Dealt, Looking, Kinds, Earlier
    <3>5. Checked(c)'
      BY <2>1, <2>2, <3>1, <3>2, <3>4, CheckFacts DEF Checked, Telling, Kinds
    <3>6. \A k \in Kinds : Counted(k)'
      BY <2>1 DEF AlInv, Counted
    <3>7. Telling(latest)' /\ latest'.at <= begun'
      BY <1>a, <2>1, <2>2, <3>1 DEF Telling, Row
    <3>8. check'[c].pc \notin Looking \cup {"idle"} /\ check[c].pc # "idle"
      BY <2>1, <3>2 DEF Looking
    <3> QED BY <2>1, <3>2, <3>3, <3>5, <3>6, <3>7, <3>8, CheckGoes
  <2>4. CASE AlFault /\ check' = [check EXCEPT ![c] = NoCheck] /\ UNCHANGED <<latest, unwritten>>
    BY <1>5, <1>6, <2>1, <2>4 DEF Looking
  <2> QED BY <1>5, <2>3, <2>4 DEF StoreCheck
<1>7. ASSUME NEW c \in Checkers, CheckerDies(c) PROVE AlInv'
  <2>1. /\ check[c].pc # "idle" /\ check' = [check EXCEPT ![c] = NoCheck] /\ AlFault
        /\ UNCHANGED <<latest, alerts, begun>> /\ HostAsIs
        /\ unwritten' = (unwritten \/ check[c].pc \in Kinds \cup {"tell"})
    BY <1>7 DEF CheckerDies
  <2>2. check[c].pc \in CheckSteps
    BY <1>a DEF CheckStates
  <2>3. unwritten \in BOOLEAN
    BY <1>a DEF AlertsTypeOK
  <2>4. unwritten' = unwritten \/ unwritten' = TRUE
    BY <2>1, <2>3
  <2>5. ~unwritten' => check[c].pc \in Looking
    BY <2>1, <2>2, CheckFacts
  <2> QED BY <1>6, <2>1, <2>4, <2>5
\* A kind has been dealt with: what follows is the next, or nothing.
<1>8. ASSUME NEW c \in Checkers, NEW k \in Kinds, ToNextKind(c, k), check[c].pc \in {k, "tell"},
             check[c].pc = "tell" => check[c].next = k,
             UNCHANGED <<latest, begun>>, HostAsIs, AlFault \/ AlWorks,
             alerts' \in [Kinds -> AlertRows], \A j \in Kinds : Counted(j)',
             \A j \in Kinds \ {k} : alerts'[j] = alerts[j],
             (unwritten' = unwritten /\ Agreed(k)') \/ unwritten' = TRUE
      PROVE  AlInv'
  <2>1. Checked(c) /\ check[c] \in CheckStates /\ check[c].pc # "idle"
        /\ check[c].pc \notin Looking /\ check[c].pc \in Kinds \cup {"tell"}
    BY <1>8, <1>a, CheckFacts DEF AlInv
  <2>2. latest = check[c].row /\ check[c].row.at = begun /\ Telling(check[c].row)
    BY <2>1 DEF Checked
  <2>3. \A j \in Earlier[k] : j \in Kinds /\ j \in Dealt(check[c])
    BY <1>8, <2>1, DealtFacts
  <2>4. ~unwritten' => \A j \in Earlier[k] \cup {k} : Agreed(j)'
    <3>1. ~unwritten' => ~unwritten /\ Agreed(k)'
      BY <1>8
    <3>2. ~unwritten => \A j \in Earlier[k] : Agreed(j)
      BY <2>1, <2>3 DEF Checked
    <3> QED BY <1>8, <2>3, <3>1, <3>2 DEF Agreed
  <2>5. Telling(latest)' /\ latest'.at <= begun'
    BY <1>8 DEF AlInv, Telling
  <2>6. unwritten' \in BOOLEAN
    BY <1>8, <1>a DEF AlertsTypeOK
  <2>7. CASE KindAfter[k] = "idle"
    <3>1. check' = [check EXCEPT ![c] = NoCheck]
      BY <1>8, <2>7 DEF ToNextKind
    <3>2. /\ check' \in [Checkers -> CheckStates] /\ check'[c] = NoCheck
          /\ \A d \in Checkers \ {c} : check'[d] = check[d]
      BY <1>a, <3>1, NothingSeen
    <3>3. AlertsTypeOK'
      BY <1>a, <1>f, <1>8, <2>6, <3>2 DEF AlertsTypeOK, CheckStates, HostAsIs, AlertRows
    <3>4. Checked(c)'
      <4>1. Dealt(check[c])' = Kinds
        BY <3>2, NothingSeen, CheckFacts DEF Dealt
      <4>2. Telling(check[c].row)'
        BY <3>2, NothingSeen DEF Telling
      <4> QED BY <3>2, <4>1, <4>2, NothingSeen, CheckFacts DEF Checked
    <3>5. ~unwritten' => \A j \in Kinds : Agreed(j)'
      BY <2>4, <2>7, DealtFacts, NothingSeen
    <3> QED BY <1>8, <2>1, <2>5, <3>2, <3>3, <3>4, <3>5, CheckGoes
  <2>8. CASE KindAfter[k] # "idle"
    <3>1. check' = [check EXCEPT ![c] = [check[c] EXCEPT !.pc = KindAfter[k]]]
      BY <1>8, <2>8 DEF ToNextKind
    <3>2. KindAfter[k] \in Kinds
      BY <2>1, <2>8, DealtFacts
    <3>3. /\ check' \in [Checkers -> CheckStates] /\ check'[c].pc = KindAfter[k]
          /\ check'[c].row = check[c].row /\ \A d \in Checkers \ {c} : check'[d] = check[d]
      BY <1>a, <2>1, <3>1, <3>2, CheckFacts DEF CheckStates
    <3>4. AlertsTypeOK'
      BY <1>a, <1>f, <1>8, <2>6, <3>3 DEF AlertsTypeOK, CheckStates, HostAsIs, AlertRows
    <3>5. Dealt(check[c])' = Earlier[k] \cup {k}
      <4>1. Dealt(check'[c]) = Earlier[k] \cup {k}
        BY <2>8, <3>3, DealtFacts
      <4> QED BY <4>1 DEF Dealt
    <3>6. \A j \in Kinds \ (Earlier[k] \cup {k}) : alerts'[j].rows < begun'
      <4>1. \A j \in Kinds \ (Earlier[k] \cup {k}) : j \notin Dealt(check[c])
        BY <1>8, <2>1, DealtFacts
      <4> QED BY <1>8, <2>1, <4>1 DEF Checked
    <3>7. Telling(check[c].row)'
      BY <2>2, <3>3 DEF Telling
    <3>8. Checked(c)'
      BY <1>8, <2>2, <2>4, <3>2, <3>3, <3>5, <3>6, <3>7, CheckFacts DEF Checked
    <3>9. check'[c].pc \notin Looking \cup {"idle"}
      BY <3>2, <3>3, CheckFacts
    <3> QED BY <1>8, <2>1, <2>5, <3>3, <3>4, <3>8, <3>9, CheckGoes
  <2> QED BY <2>7, <2>8
<1>9. ASSUME NEW c \in Checkers, SendAlertWebhook(c) PROVE AlInv'
  <2> DEFINE told == check[c].next
  <2>a. told \in Kinds
    BY <1>9 DEF SendAlertWebhook, AlInv, Checked
  <2>b. PICK k \in Kinds : k = told
    BY <2>a
  <2>1. /\ check[c].pc = "tell" /\ check[c].next = k /\ Checked(c) /\ check[c] \in CheckStates
        /\ alerts' = [alerts EXCEPT ![k].told = @ + 1] /\ ToNextKind(c, k)
        /\ UNCHANGED <<latest, begun, unwritten>> /\ HostAsIs /\ AlWorks
    BY <1>9, <1>a, <2>b DEF SendAlertWebhook, AlInv
  <2>2. k \in Kinds /\ alerts[k].told < alerts[k].rows /\ Counted(k)
        /\ Dealt(check[c]) = Earlier[k] \cup {k} /\ alerts[k] \in AlertRows
    BY <1>a, <2>1, DealtFacts DEF Checked, AlInv
  <2>3. /\ alerts'[k].told = alerts[k].told + 1 /\ alerts'[k].rows = alerts[k].rows
        /\ alerts'[k].open = alerts[k].open /\ \A j \in Kinds \ {k} : alerts'[j] = alerts[j]
    BY <1>a, <2>1, <2>2 DEF AlertRows
  <2>4. alerts' \in [Kinds -> AlertRows]
    BY <1>a, <2>1, <2>2, AlertsAssumption DEF AlertRows
  <2>5. \A j \in Kinds : Counted(j)'
    BY <2>1, <2>2, <2>3, <1>a DEF AlInv, Counted, AlertRows
  <2>6. unwritten \in BOOLEAN
    BY <1>a DEF AlertsTypeOK
  <2>7. ~unwritten => Agreed(k)'
    BY <2>1, <2>2, <2>3 DEF Checked, Agreed
  <2> HIDE DEF told
  <2> QED BY <1>8, <2>1, <2>3, <2>4, <2>5, <2>6, <2>7
<1>10. ASSUME NEW c \in Checkers, NEW k \in Kinds, SyncAlert(c, k) PROVE AlInv'
  <2>1. /\ check[c].pc = k /\ Checked(c) /\ check[c] \in CheckStates
        /\ UNCHANGED <<latest, begun>> /\ HostAsIs /\ (AlFault \/ AlWorks)
        /\ latest = check[c].row /\ Counted(k) /\ alerts[k] \in AlertRows
        /\ Dealt(check[c]) = Earlier[k] /\ k \notin Earlier[k] /\ alerts[k].rows < begun
    <3>1. /\ check[c].pc = k /\ Checked(c) /\ check[c] \in CheckStates
          /\ UNCHANGED <<latest, begun>> /\ HostAsIs /\ (AlFault \/ AlWorks)
          /\ Counted(k) /\ alerts[k] \in AlertRows
      BY <1>10, <1>a DEF SyncAlert, AlInv
    <3> QED BY <3>1, DealtFacts DEF Checked
  <2>2. \A j \in Kinds : Counted(j)
    BY DEF AlInv
  <2>3. CASE /\ Active(check[c].row, k) /\ alerts[k].open = 0 /\ unwritten' = unwritten
             /\ alerts' = [alerts EXCEPT ![k].open = 1, ![k].rows = @ + 1]
             /\ check' = [check EXCEPT ![c].pc = "tell", ![c].next = k]
    <3>1. /\ alerts'[k].rows = alerts[k].rows + 1 /\ alerts'[k].open = 1
          /\ alerts'[k].told = alerts[k].told /\ \A j \in Kinds \ {k} : alerts'[j] = alerts[j]
      BY <1>a, <2>1, <2>3 DEF AlertRows
    <3>2. alerts' \in [Kinds -> AlertRows]
      <4>1. 1 \in 0..MaxChecks /\ alerts[k].rows + 1 \in 0..MaxChecks
        BY <1>a, <2>1, AlertsAssumption DEF AlertRows
      <4> QED BY <1>a, <2>3, <4>1 DEF AlertRows
    <3>3. /\ check' \in [Checkers -> CheckStates] /\ check'[c].pc = "tell"
          /\ check'[c].next = k /\ check'[c].row = check[c].row
          /\ \A d \in Checkers \ {c} : check'[d] = check[d]
      BY <1>a, <2>1, <2>3, CheckFacts DEF CheckStates
    <3>4. AlertsTypeOK'
      BY <1>a, <1>f, <2>1, <2>3, <3>2, <3>3 DEF AlertsTypeOK, CheckStates, HostAsIs, AlertRows
    <3>5. \A j \in Kinds : Counted(j)'
      BY <2>1, <2>2, <3>1, <1>a DEF Counted, AlertRows
    <3>6. Agreed(k)'
      BY <2>1, <2>3, <3>1 DEF Agreed
    <3>7. Dealt(check[c])' = Earlier[k] \cup {k}
      <4>1. Dealt(check'[c]) = Earlier[k] \cup {k}
        BY <3>3, DealtFacts
      <4> QED BY <4>1 DEF Dealt
    <3>8. Checked(c)'
      <4>1. Telling(check[c].row)' /\ check'[c].row.at = begun' /\ latest' = check'[c].row
        BY <2>1, <3>3, CheckFacts DEF Checked, Telling
      <4>2. alerts'[k].told < alerts'[k].rows
        BY <2>1, <3>1, <1>a DEF Counted, AlertRows
      <4>3. \A j \in Kinds \ (Earlier[k] \cup {k}) : alerts'[j].rows < begun'
        BY <2>1, <3>1 DEF Checked
      <4>4. ~unwritten' => \A j \in Earlier[k] \cup {k} : Agreed(j)'
        <5>1. ~unwritten => \A j \in Earlier[k] : Agreed(j) /\ j \in Kinds
          BY <2>1, DealtFacts DEF Checked
        <5>2. ~unwritten' => \A j \in Earlier[k] : Agreed(j)'
          <6>1. ~unwritten' => ~unwritten
            BY <2>3
          <6>2. \A j \in Earlier[k] : j \in Kinds => alerts'[j] = alerts[j]
            BY <2>1, <3>1
          <6> QED BY <2>1, <5>1, <6>1, <6>2 DEF Agreed
        <5> QED BY <3>6, <5>2
      <4> QED BY <3>3, <3>7, <4>1, <4>2, <4>3, <4>4, CheckFacts DEF Checked
    <3>9. check[c].pc # "idle" /\ check'[c].pc \notin Looking \cup {"idle"}
      BY <2>1, <3>3, CheckFacts
    <3>10. Telling(latest)' /\ latest'.at <= begun'
      BY <2>1 DEF AlInv, Telling
    <3> QED BY <2>1, <3>3, <3>4, <3>5, <3>8, <3>9, <3>10, CheckGoes
  <2>4. CASE /\ Active(check[c].row, k) /\ alerts[k].open # 0 /\ UNCHANGED <<alerts, unwritten>>
             /\ ToNextKind(c, k)
    <3>1. Agreed(k)'
      BY <2>1, <2>4 DEF Agreed, Counted, AlertRows
    <3>2. \A j \in Kinds : Counted(j)'
      BY <2>1, <2>2, <2>4 DEF Counted
    <3> QED BY <1>a, <1>8, <2>1, <2>4, <3>1, <3>2, CheckFacts
  <2>5. CASE /\ ~Active(check[c].row, k) /\ alerts' = [alerts EXCEPT ![k].open = 0]
             /\ ToNextKind(c, k) /\ unwritten' = unwritten
    <3>1. /\ alerts'[k].rows = alerts[k].rows /\ alerts'[k].open = 0
          /\ alerts'[k].told = alerts[k].told /\ \A j \in Kinds \ {k} : alerts'[j] = alerts[j]
      BY <1>a, <2>1, <2>5 DEF AlertRows
    <3>2. alerts' \in [Kinds -> AlertRows]
      BY <1>a, <2>5, AlertsAssumption DEF AlertRows
    <3>3. Agreed(k)'
      BY <2>1, <2>5, <3>1 DEF Agreed
    <3>4. \A j \in Kinds : Counted(j)'
      BY <2>1, <2>2, <3>1 DEF Counted
    <3> QED BY <1>8, <2>1, <2>5, <3>1, <3>2, <3>3, <3>4, CheckFacts
  <2>6. CASE ToNextKind(c, k) /\ UNCHANGED alerts /\ unwritten' = TRUE
    <3>1. \A j \in Kinds : Counted(j)'
      BY <2>1, <2>2, <2>6 DEF Counted
    <3> QED BY <1>a, <1>8, <2>1, <2>6, <3>1, CheckFacts
  <2> QED BY <1>10, <2>3, <2>4, <2>5, <2>6 DEF SyncAlert
<1> QED BY <1>1, <1>3, <1>4, <1>5, <1>7, <1>9, <1>10 DEF AlertsNext

\* Between two checks the latest row and the open alerts of a platform agree, and no alert is
\* sent twice, for any checkers and any changes of the host (CheckHealth, syncAlerts): while
\* one check runs at a time, unless one that has its row could not write its alerts.
THEOREM AlertsAgreeInTurns ==
  ASSUME ~AlOverlapping
  PROVE  AlertsSpec => []AlertsAgree
<1>1. AlInv => AlertsAgree
  <2> SUFFICES ASSUME AlInv, \A c \in Checkers : check[c].pc = "idle" PROVE AlertsAgree
    BY DEF AlertsAgree
  <2>1. \A k \in Kinds : Counted(k) /\ alerts[k] \in AlertRows
    BY DEF AlInv, AlertsTypeOK, AlertRows
  <2>2. ~unwritten => \A k \in Kinds : Agreed(k)
    BY DEF AlInv
  <2>3. Telling(latest) /\ latest \in Row
    BY DEF AlInv, AlertsTypeOK
  <2>4. latest.status = "ok" => \A k \in Kinds : ~Active(latest, k)
    BY <2>3 DEF Telling, Active, Kinds
  <2>5. /\ latest.ssl = "expired" => Active(latest, "ssl_expiring")
        /\ latest.disk => Active(latest, "disk_high")
        /\ latest.service = "stopped" => Active(latest, "service_down")
    BY DEF Active
  <2> QED BY <2>1, <2>2, <2>3, <2>4, <2>5 DEF AlertsAgree, Agreed, Counted, Telling, Kinds
<1> QED BY <1>1, AlertsInitially, AlertsKeep, PTL DEF AlertsSpec

\* Checks that overlap: each has a time of its own, and every check that has still to deal with
\* a kind, or to tell of it, has its share of the count of that kind.
Working(c) == check[c].pc # "idle"
ToDeal(k) == {c \in Checkers : Working(c) /\ k \notin Dealt(check[c])}
ToTell(k) == {c \in Checkers : check[c].pc = "tell" /\ check[c].next = k}
TimesOf(S) == {check[c].row.at : c \in S}
Share(k) ==
  /\ alerts[k].rows + Cardinality(TimesOf(ToDeal(k))) <= begun
  /\ alerts[k].told + Cardinality(TimesOf(ToTell(k))) <= alerts[k].rows
Timed ==
  /\ \A c \in Checkers : Working(c) => check[c].row.at \in 1..begun
  /\ \A c, d \in Checkers : Working(c) /\ Working(d) /\ c # d => check[c].row.at # check[d].row.at
AlAnyhow ==
  /\ AlertsTypeOK /\ Timed
  /\ \A c \in Checkers : check[c].pc = "tell" => check[c].next \in Kinds
  /\ \A k \in Kinds : Share(k)

LEMMA FewerTimes ==
  ASSUME NEW S, IsFiniteSet(S), NEW T
  PROVE  /\ Cardinality(S) \in Nat
         /\ T \subseteq S => Cardinality(T) \in Nat /\ Cardinality(T) <= Cardinality(S)
         /\ \A x \in S : T \subseteq S \ {x} =>
              Cardinality(T) \in Nat /\ Cardinality(T) + 1 <= Cardinality(S)
         /\ \A x : T \subseteq S \cup {x} =>
              Cardinality(T) \in Nat /\ Cardinality(T) <= Cardinality(S) + 1
<1>1. Cardinality(S) \in Nat
  BY FS_CardinalityType
<1>2. \A V : T \in SUBSET V /\ IsFiniteSet(V) =>
        Cardinality(T) \in Nat /\ Cardinality(T) <= Cardinality(V)
  BY FS_Subset, FS_CardinalityType
<1>3. ASSUME NEW x \in S, T \subseteq S \ {x}
      PROVE  Cardinality(T) \in Nat /\ Cardinality(T) + 1 <= Cardinality(S)
  <2>1. IsFiniteSet(S \ {x}) /\ Cardinality(S \ {x}) = Cardinality(S) - 1
    BY FS_RemoveElement
  <2>2. Cardinality(T) \in Nat /\ Cardinality(T) <= Cardinality(S \ {x})
    BY <1>2, <1>3, <2>1
  <2> QED BY <1>1, <2>1, <2>2
<1>4. ASSUME NEW x, T \subseteq S \cup {x}
      PROVE  Cardinality(T) \in Nat /\ Cardinality(T) <= Cardinality(S) + 1
  <2>1. /\ IsFiniteSet(S \cup {x})
        /\ Cardinality(S \cup {x}) = IF x \in S THEN Cardinality(S) ELSE Cardinality(S) + 1
    BY FS_AddElement
  <2>2. Cardinality(T) \in Nat /\ Cardinality(T) <= Cardinality(S \cup {x})
    BY <1>2, <1>4, <2>1
  <2> QED BY <1>1, <2>1, <2>2
<1> QED BY <1>1, <1>2, <1>3, <1>4

LEMMA TimesFinite ==
  ASSUME AlAnyhow, NEW k \in Kinds
  PROVE  /\ IsFiniteSet(TimesOf(ToDeal(k))) /\ IsFiniteSet(TimesOf(ToTell(k)))
         /\ begun \in Nat /\ alerts[k].rows \in Nat /\ alerts[k].told \in Nat
<1>1. begun \in Nat /\ begun \in 0..MaxChecks /\ alerts[k] \in AlertRows
  BY AlertsAssumption DEF AlAnyhow, AlertsTypeOK, AlertRows
<1>2. IsFiniteSet(1..begun)
  BY <1>1, FS_Interval
<1>3. TimesOf(ToDeal(k)) \in SUBSET (1..begun) /\ TimesOf(ToTell(k)) \in SUBSET (1..begun)
  BY DEF AlAnyhow, Timed, TimesOf, ToDeal, ToTell, Working
<1> QED BY <1>1, <1>2, <1>3, FS_Subset DEF AlertRows

\* What a step of one check does to the times: they stay, or its own goes or comes.
LEMMA TimesMove ==
  ASSUME AlAnyhow, NEW c \in Checkers, Working(c), NEW k \in Kinds,
         \A d \in Checkers \ {c} : check'[d] = check[d],
         check'[c].row.at = check[c].row.at \/ check'[c].pc = "idle"
  PROVE  /\ c \in ToDeal(k) \/ c \notin ToDeal(k)' =>
              TimesOf(ToDeal(k))' \subseteq TimesOf(ToDeal(k))
         /\ c \in ToDeal(k) /\ c \notin ToDeal(k)' =>
              TimesOf(ToDeal(k))' \subseteq TimesOf(ToDeal(k)) \ {check[c].row.at}
         /\ c \in ToTell(k) \/ c \notin ToTell(k)' =>
              TimesOf(ToTell(k))' \subseteq TimesOf(ToTell(k))
         /\ c \in ToTell(k) /\ c \notin ToTell(k)' =>
              TimesOf(ToTell(k))' \subseteq TimesOf(ToTell(k)) \ {check[c].row.at}
         /\ TimesOf(ToTell(k))' \subseteq TimesOf(ToTell(k)) \cup {check[c].row.at}
         /\ c \in ToDeal(k) => check[c].row.at \in TimesOf(ToDeal(k))
         /\ c \in ToTell(k) => check[c].row.at \in TimesOf(ToTell(k))
<1>1. \A d \in Checkers \ {c} : /\ d \in ToDeal(k)' <=> d \in ToDeal(k)
                                /\ d \in ToTell(k)' <=> d \in ToTell(k)
                                /\ check'[d].row.at = check[d].row.at
                                /\ Working(d) => check[d].row.at # check[c].row.at
                                /\ d \in ToDeal(k) \/ d \in ToTell(k) => Working(d)
  <2> SUFFICES ASSUME NEW d \in Checkers \ {c}
               PROVE  /\ d \in ToDeal(k)' <=> d \in ToDeal(k)
                      /\ d \in ToTell(k)' <=> d \in ToTell(k)
                      /\ check'[d].row.at = check[d].row.at
                      /\ Working(d) => check[d].row.at # check[c].row.at
                      /\ d \in ToDeal(k) \/ d \in ToTell(k) => Working(d)
    OBVIOUS
  <2>1. Dealt(check[d])' = Dealt(check[d])
    BY DEF Dealt
  <2> QED BY <2>1 DEF AlAnyhow, Timed, ToDeal, ToTell, Working
<1>2. ToDeal(k) \subseteq Checkers /\ ToTell(k) \subseteq Checkers
      /\ ToDeal(k)' \subseteq Checkers /\ ToTell(k)' \subseteq Checkers
  BY DEF ToDeal, ToTell
<1>3. c \in ToDeal(k)' \/ c \in ToTell(k)' => check'[c].row.at = check[c].row.at
  BY DEF ToDeal, ToTell, Working
<1>4. TimesOf(ToDeal(k))' = {check'[d].row.at : d \in ToDeal(k)'}
      /\ TimesOf(ToTell(k))' = {check'[d].row.at : d \in ToTell(k)'}
  BY DEF TimesOf
<1>5. c \in ToDeal(k) \/ c \notin ToDeal(k)' => TimesOf(ToDeal(k))' \subseteq TimesOf(ToDeal(k))
  BY <1>1, <1>2, <1>3, <1>4 DEF TimesOf
<1>6. c \in ToDeal(k) /\ c \notin ToDeal(k)' =>
        TimesOf(ToDeal(k))' \subseteq TimesOf(ToDeal(k)) \ {check[c].row.at}
  BY <1>1, <1>2, <1>3, <1>4 DEF TimesOf
<1>7. c \in ToTell(k) \/ c \notin ToTell(k)' => TimesOf(ToTell(k))' \subseteq TimesOf(ToTell(k))
  BY <1>1, <1>2, <1>3, <1>4 DEF TimesOf
<1>8. c \in ToTell(k) /\ c \notin ToTell(k)' =>
        TimesOf(ToTell(k))' \subseteq TimesOf(ToTell(k)) \ {check[c].row.at}
  BY <1>1, <1>2, <1>3, <1>4 DEF TimesOf
<1>9. TimesOf(ToTell(k))' \subseteq TimesOf(ToTell(k)) \cup {check[c].row.at}
  BY <1>1, <1>2, <1>3, <1>4 DEF TimesOf
<1> QED BY <1>5, <1>6, <1>7, <1>8, <1>9 DEF TimesOf

\* The shares of a kind nobody opened or told of.
LEMMA ShareStays ==
  ASSUME AlAnyhow, NEW k \in Kinds, UNCHANGED begun,
         alerts'[k].rows = alerts[k].rows, alerts'[k].told = alerts[k].told,
         TimesOf(ToDeal(k))' \subseteq TimesOf(ToDeal(k)),
         TimesOf(ToTell(k))' \subseteq TimesOf(ToTell(k))
  PROVE  Share(k)'
<1>1. /\ Cardinality(TimesOf(ToDeal(k))') \in Nat /\ Cardinality(TimesOf(ToTell(k))') \in Nat
      /\ Cardinality(TimesOf(ToDeal(k))) \in Nat /\ Cardinality(TimesOf(ToTell(k))) \in Nat
      /\ Cardinality(TimesOf(ToDeal(k))') <= Cardinality(TimesOf(ToDeal(k)))
      /\ Cardinality(TimesOf(ToTell(k))') <= Cardinality(TimesOf(ToTell(k)))
  BY TimesFinite, FewerTimes
<1> QED BY <1>1, TimesFinite DEF AlAnyhow, Share

\* A step of one check that opens and tells nothing: it has dealt with no less than before.
LEMMA CountsStay ==
  ASSUME AlAnyhow, AlertsTypeOK', NEW c \in Checkers, Working(c), UNCHANGED begun,
         \A k \in Kinds : alerts'[k].rows = alerts[k].rows /\ alerts'[k].told = alerts[k].told,
         \A d \in Checkers \ {c} : check'[d] = check[d],
         \/ check'[c].pc = "idle"
         \/ /\ check'[c].row.at = check[c].row.at /\ check'[c].pc \notin {"idle", "tell"}
            /\ Dealt(check[c]) \subseteq Dealt(check'[c])
  PROVE  AlAnyhow'
<1>0. Dealt(check[c])' = Dealt(check'[c])
  BY DEF Dealt
<1>1. Timed'
  BY DEF AlAnyhow, Timed, Working
<1>2. \A d \in Checkers : check'[d].pc = "tell" => check'[d].next \in Kinds
  BY DEF AlAnyhow
<1>3. ASSUME NEW k \in Kinds PROVE Share(k)'
  <2>1. (c \in ToDeal(k) \/ c \notin ToDeal(k)') /\ c \notin ToTell(k)'
    BY <1>0 DEF ToDeal, ToTell, Working
  <2>2. /\ TimesOf(ToDeal(k))' \subseteq TimesOf(ToDeal(k))
        /\ TimesOf(ToTell(k))' \subseteq TimesOf(ToTell(k))
    BY <2>1, TimesMove
  <2> QED BY <2>2, ShareStays
<1> QED BY <1>1, <1>2, <1>3 DEF AlAnyhow

\* Nothing moves that a type or a share speaks of, but the host or what counts it.
LEMMA AlHostMoves ==
  ASSUME AlAnyhow, AlertsTypeOK', UNCHANGED <<alerts, begun, check>>
  PROVE  AlAnyhow'
<1>1. \A k : ToDeal(k)' = ToDeal(k) /\ ToTell(k)' = ToTell(k)
  BY DEF ToDeal, ToTell, Working, Dealt
<1>2. \A k : TimesOf(ToDeal(k))' = TimesOf(ToDeal(k)) /\ TimesOf(ToTell(k))' = TimesOf(ToTell(k))
  BY <1>1 DEF TimesOf
<1> QED BY <1>2 DEF AlAnyhow, Timed, Share, Working

\* Every step keeps types and shares, also of checks that run beside each other.
LEMMA AlertsMoveAnyhow ==
  ASSUME AlAnyhow, NEW c \in Checkers,
         \/ CheckHealth(c) \/ ProbeHTTP(c) \/ SslExpiry(c) \/ DiskUsed(c) \/ StoreCheck(c)
         \/ SendAlertWebhook(c) \/ CheckerDies(c)
         \/ \E j \in Kinds : SyncAlert(c, j)
  PROVE  AlAnyhow'
<1>a. /\ AlertsTypeOK /\ check \in [Checkers -> CheckStates] /\ latest \in Row
      /\ alerts \in [Kinds -> AlertRows] /\ begun \in Nat /\ begun \in 0..MaxChecks
      /\ check[c] \in CheckStates /\ check[c].row \in Row /\ unwritten \in BOOLEAN
  BY AlertsAssumption DEF AlAnyhow, AlertsTypeOK, CheckStates, AlertRows
<1>f. ASSUME AlFault \/ AlWorks PROVE alertFailures' \in 0..MaxAlertFailures
  BY <1>a, <1>f, AlertsAssumption DEF AlFault, AlWorks, AlertsTypeOK
\* A step whose alerts and checks are of their types.
<1>t. ASSUME check' \in [Checkers -> CheckStates], alerts' \in [Kinds -> AlertRows],
             latest' \in Row, begun' \in 0..MaxChecks, HostAsIs, AlFault \/ AlWorks,
             unwritten' \in BOOLEAN
      PROVE  AlertsTypeOK'
  BY <1>a, <1>f, <1>t DEF AlertsTypeOK, CheckStates, AlertRows, HostAsIs
\* Before there is a row.
<1>1. ASSUME NEW pc \in Looking, NEW row \in Row, Goes(c, pc, row), check[c].pc \in Looking,
             row.at = check[c].row.at, RowsAsAre, HostAsIs, AlFault \/ AlWorks, UNCHANGED begun
      PROVE  AlAnyhow'
  <2>1. check' = [check EXCEPT ![c].pc = pc, ![c].row = row]
    BY <1>1 DEF Goes
  <2>2. /\ check' \in [Checkers -> CheckStates] /\ check'[c].pc = pc /\ check'[c].row = row
        /\ \A d \in Checkers \ {c} : check'[d] = check[d]
    BY <1>1, <1>a, <2>1, CheckFacts DEF CheckStates
  <2>3. AlertsTypeOK'
    BY <1>a, <1>t, <1>1, <2>2 DEF RowsAsAre
  <2>4. Dealt(check[c]) = {} /\ Working(c) /\ check'[c].pc \notin {"idle", "tell"}
    BY <1>1, <2>2, CheckFacts DEF Dealt, Working, Looking
  <2> QED BY <1>1, <2>2, <2>3, <2>4, CountsStay DEF RowsAsAre
<1>2. ASSUME CheckHealth(c) PROVE AlAnyhow'
  <2> DEFINE new == [NoRow EXCEPT !.at = begun']
             stopped == [new EXCEPT !.service = "stopped"]
  <2>1. /\ check[c].pc = "idle" /\ begun' = begun + 1 /\ begun' \in 0..MaxChecks
        /\ RowsAsAre /\ HostAsIs /\ (AlFault \/ AlWorks)
    BY <1>2, <1>a, AlertsAssumption DEF CheckHealth
  <2>2. PICK row : /\ Goes(c, "http", row)
                   /\ row \in {[new EXCEPT !.service = "running"], Noted(stopped, "critical"),
                               Noted(new, "warning")}
    BY <1>2 DEF CheckHealth
  <2>3. /\ new \in Row /\ stopped \in Row /\ new.at = begun' /\ stopped.at = begun'
        /\ [new EXCEPT !.service = "running"] \in Row
        /\ [new EXCEPT !.service = "running"].at = begun'
    BY <2>1, NothingSeen DEF NoRow, Row
  <2>4. row \in Row /\ row.at = begun'
    <3>1. ASSUME NEW r \in Row, NEW status \in {"critical", "warning"}
          PROVE  Noted(r, status) \in Row /\ Noted(r, status).at = r.at
      BY NotedFacts, CheckFacts
    <3> HIDE DEF new, stopped
    <3>2. CASE row = [new EXCEPT !.service = "running"]
      BY <2>3, <3>2
    <3>3. CASE row = Noted(stopped, "critical")
      BY <2>3, <3>1, <3>3
    <3>4. CASE row = Noted(new, "warning")
      BY <2>3, <3>1, <3>4
    <3> QED BY <2>2, <3>2, <3>3, <3>4
  <2>5. check' = [check EXCEPT ![c].pc = "http", ![c].row = row]
    BY <2>2 DEF Goes
  <2>6. /\ check' \in [Checkers -> CheckStates] /\ check'[c].pc = "http" /\ check'[c].row = row
        /\ \A d \in Checkers \ {c} : check'[d] = check[d]
    BY <1>a, <2>4, <2>5, CheckFacts DEF CheckStates, Looking
  <2>7. AlertsTypeOK'
    BY <1>a, <1>t, <2>1, <2>6 DEF RowsAsAre
  <2>8. Timed' /\ \A d \in Checkers : check'[d].pc = "tell" => check'[d].next \in Kinds
    <3>1. \A d \in Checkers \ {c} : Working(d)' => check'[d].row.at \in 1..begun
      BY <2>6 DEF AlAnyhow, Timed, Working
    <3>2. check'[c].row.at = begun + 1 /\ begun + 1 \in 1..begun'
      BY <1>a, <2>1, <2>4, <2>6
    <3>3. \A i \in 1..begun : i # begun + 1 /\ i \in 1..begun'
      BY <1>a, <2>1
    <3> QED BY <2>6, <3>1, <3>2, <3>3 DEF AlAnyhow, Timed, Working
  <2>9. ASSUME NEW k \in Kinds PROVE Share(k)'
    <3>1. \A d \in Checkers \ {c} : (d \in ToDeal(k)' <=> d \in ToDeal(k))
      BY <2>6 DEF ToDeal, Working, Dealt
    <3>2. ToTell(k)' = ToTell(k) /\ c \notin ToTell(k)
      BY <2>1, <2>6 DEF ToTell
    <3>3. TimesOf(ToDeal(k))' \subseteq TimesOf(ToDeal(k)) \cup {begun'}
      BY <2>4, <2>6, <3>1 DEF TimesOf, ToDeal
    <3>4. TimesOf(ToTell(k))' = TimesOf(ToTell(k))
      <4>1. \A d \in ToTell(k) : check'[d] = check[d]
        BY <2>6, <3>2 DEF ToTell
      <4> QED BY <3>2, <4>1 DEF TimesOf
    <3>5. /\ Cardinality(TimesOf(ToDeal(k))) \in Nat /\ Cardinality(TimesOf(ToDeal(k))') \in Nat
          /\ Cardinality(TimesOf(ToDeal(k))') <= Cardinality(TimesOf(ToDeal(k))) + 1
      BY <3>3, TimesFinite, FewerTimes
    <3>6. Share(k) /\ alerts' = alerts
      BY <2>1 DEF AlAnyhow, RowsAsAre
    <3> QED BY <2>1, <3>4, <3>5, <3>6, TimesFinite DEF Share
  <2> QED BY <2>7, <2>8, <2>9 DEF AlAnyhow
<1>3. CASE ProbeHTTP(c) \/ SslExpiry(c) \/ DiskUsed(c)
  <2> DEFINE row == check[c].row
             seen == [row EXCEPT !.ssl = cert]
             filled == [row EXCEPT !.disk = TRUE]
  <2>1. /\ check[c].pc \in {"http", "ssl", "disk"} /\ check[c].pc \in Looking
        /\ RowsAsAre /\ HostAsIs /\ UNCHANGED begun /\ (AlFault \/ AlWorks)
    BY <1>3 DEF ProbeHTTP, SslExpiry, DiskUsed, Looking
  <2>2. cert \in CertStates
    BY <1>a DEF AlertsTypeOK
  <2>3. /\ row \in Row /\ seen \in Row /\ filled \in Row /\ seen.at = row.at /\ filled.at = row.at
    BY <1>a, <2>2 DEF Row
  <2>4. ASSUME NEW from \in {row, seen, filled}
        PROVE  /\ from \in Row /\ from.at = row.at
               /\ \A status \in DOMAIN Rank : Noted(from, status) \in Row
                                              /\ Noted(from, status).at = row.at
    <3> HIDE DEF row, seen, filled
    <3> QED BY <2>3, <2>4, NotedFacts
  <2>5. PICK pc \in {"ssl", "disk", "store"} : \E r :
          /\ Goes(c, pc, r)
          /\ r \in {row, seen, filled} \/ \E from \in {row, seen, filled},
                                              status \in DOMAIN Rank : r = Noted(from, status)
    <3>1. CASE ProbeHTTP(c)
      <4>1. \/ Goes(c, "ssl", row)
            \/ \E status \in {"warning", "critical"} : Goes(c, "ssl", Noted(row, status))
        BY <3>1 DEF ProbeHTTP
      <4> QED BY <4>1, CheckFacts
    <3>2. CASE SslExpiry(c)
      <4>1. \/ Goes(c, "disk", row) \/ Goes(c, "disk", seen)
            \/ Goes(c, "disk", Noted(seen, "critical")) \/ Goes(c, "disk", Noted(seen, "warning"))
        BY <3>2 DEF SslExpiry
      <4> QED BY <4>1, CheckFacts
    <3>3. CASE DiskUsed(c)
      <4>1. \/ Goes(c, "store", row) \/ Goes(c, "store", Noted(row, "warning"))
            \/ Goes(c, "store", Noted(filled, "critical"))
        BY <3>3 DEF DiskUsed
      <4> QED BY <4>1, CheckFacts
    <3> QED BY <1>3, <3>1, <3>2, <3>3
  <2>6. PICK r :
          /\ Goes(c, pc, r)
          /\ r \in {row, seen, filled} \/ \E from \in {row, seen, filled},
                                              status \in DOMAIN Rank : r = Noted(from, status)
    BY <2>5
  <2>7. r \in Row /\ r.at = row.at /\ pc \in Looking
    <3> HIDE DEF row, seen, filled
    <3> QED BY <2>4, <2>6 DEF Looking
  <2> QED BY <1>1, <2>1, <2>6, <2>7
\* A check that ends, for whatever reason.
<1>4. ASSUME Working(c), check' = [check EXCEPT ![c] = NoCheck], UNCHANGED <<alerts, begun>>,
             latest' \in Row, HostAsIs, AlFault \/ AlWorks, unwritten' \in BOOLEAN
      PROVE  AlAnyhow'
  <2>1. /\ check' \in [Checkers -> CheckStates] /\ check'[c].pc = "idle"
        /\ \A d \in Checkers \ {c} : check'[d] = check[d]
    BY <1>4, <1>a, NothingSeen
  <2>2. AlertsTypeOK'
    BY <1>a, <1>t, <1>4, <2>1
  <2> QED BY <1>4, <2>1, <2>2, CountsStay
<1>5. CASE StoreCheck(c)
  <2>1. /\ Working(c) /\ check[c].pc = "store" /\ UNCHANGED <<alerts, begun>> /\ HostAsIs
        /\ (AlFault \/ AlWorks)
    BY <1>5 DEF StoreCheck, Working
  <2>2. latest' \in Row /\ unwritten' \in BOOLEAN
    BY <1>a, <1>5 DEF StoreCheck
  <2>3. CASE Goes(c, "service_down", check[c].row)
    <3>1. /\ check' \in [Checkers -> CheckStates] /\ check'[c].pc = "service_down"
          /\ check'[c].row = check[c].row /\ \A d \in Checkers \ {c} : check'[d] = check[d]
      BY <1>a, <2>3, CheckFacts DEF Goes, CheckStates, Kinds
    <3>2. AlertsTypeOK'
      BY <1>a, <1>t, <2>1, <2>2, <3>1
    <3>3. check[c].pc \in Looking /\ Dealt(check[c]) = {}
      <4>1. check[c].pc \in Looking /\ "disk_high" \in Kinds
        BY <2>1 DEF Looking, Kinds
      <4> QED BY <1>a, <4>1, DealtFacts
    <3> QED BY <2>1, <3>1, <3>2, <3>3, CountsStay
  <2>4. CASE check' = [check EXCEPT ![c] = NoCheck]
    BY <1>4, <2>1, <2>2, <2>4
  <2> QED BY <1>5, <2>3, <2>4 DEF StoreCheck
<1>6. CASE CheckerDies(c)
  BY <1>4, <1>6, <1>a DEF CheckerDies, Working
\* One that goes on to the next kind, or ends: it deals with one more.
<1>7. ASSUME NEW k \in Kinds, ToNextKind(c, k), Working(c),
             check[c].pc = k \/ (check[c].pc = "tell" /\ check[c].next = k)
      PROVE  /\ check' \in [Checkers -> CheckStates] /\ check'[c].pc # "tell"
             /\ \A d \in Checkers \ {c} : check'[d] = check[d]
             /\ \/ check'[c].pc = "idle"
                \/ /\ check'[c].row.at = check[c].row.at /\ check'[c].pc \notin {"idle", "tell"}
                   /\ Dealt(check[c]) \subseteq Dealt(check'[c])
  <2>1. CASE KindAfter[k] = "idle"
    <3>1. check' = [check EXCEPT ![c] = NoCheck]
      BY <1>7, <2>1 DEF ToNextKind
    <3> QED BY <1>a, <3>1, NothingSeen
  <2>2. CASE KindAfter[k] # "idle"
    <3>1. check' = [check EXCEPT ![c] = [check[c] EXCEPT !.pc = KindAfter[k]]]
      BY <1>7, <2>2 DEF ToNextKind
    <3>2. KindAfter[k] \in Kinds
      BY <1>a, <2>2, DealtFacts
    <3>3. /\ check' \in [Checkers -> CheckStates] /\ check'[c].pc = KindAfter[k]
          /\ check'[c].row = check[c].row /\ \A d \in Checkers \ {c} : check'[d] = check[d]
      BY <1>a, <3>1, <3>2, CheckFacts DEF CheckStates
    <3>4. Dealt(check[c]) \subseteq Dealt(check'[c])
      BY <1>7, <1>a, <2>2, <3>3, DealtFacts
    <3> QED BY <3>2, <3>3, <3>4, CheckFacts
  <2> QED BY <2>1, <2>2
<1>8. ASSUME NEW k \in Kinds, SyncAlert(c, k) PROVE AlAnyhow'
  <2>1. /\ Working(c) /\ check[c].pc = k /\ UNCHANGED <<latest, begun>> /\ HostAsIs
        /\ (AlFault \/ AlWorks) /\ unwritten' \in BOOLEAN /\ alerts[k] \in AlertRows
        /\ Dealt(check[c]) = Earlier[k] /\ k \notin Dealt(check[c])
    <3>1. /\ check[c].pc = k /\ UNCHANGED <<latest, begun>> /\ HostAsIs
          /\ (AlFault \/ AlWorks) /\ unwritten' \in BOOLEAN /\ alerts[k] \in AlertRows
      BY <1>a, <1>8 DEF SyncAlert
    <3> QED BY <1>a, <3>1, DealtFacts, CheckFacts DEF Working
  <2>2. CASE ToNextKind(c, k) /\ UNCHANGED alerts
    <3>1. /\ check' \in [Checkers -> CheckStates]
          /\ \A d \in Checkers \ {c} : check'[d] = check[d]
          /\ \/ check'[c].pc = "idle"
             \/ /\ check'[c].row.at = check[c].row.at /\ check'[c].pc \notin {"idle", "tell"}
                /\ Dealt(check[c]) \subseteq Dealt(check'[c])
      BY <1>7, <2>1, <2>2
    <3>2. AlertsTypeOK'
      BY <1>a, <1>t, <2>1, <2>2, <3>1
    <3> QED BY <2>1, <2>2, <3>1, <3>2, CountsStay
  <2>3. CASE ToNextKind(c, k) /\ alerts' = [alerts EXCEPT ![k].open = 0]
    <3>1. /\ check' \in [Checkers -> CheckStates] /\ check'[c].pc # "tell"
          /\ \A d \in Checkers \ {c} : check'[d] = check[d]
          /\ \/ check'[c].pc = "idle"
             \/ /\ check'[c].row.at = check[c].row.at /\ check'[c].pc \notin {"idle", "tell"}
                /\ Dealt(check[c]) \subseteq Dealt(check'[c])
      BY <1>7, <2>1, <2>3
    <3>2. /\ alerts' \in [Kinds -> AlertRows]
          /\ \A j \in Kinds : alerts'[j].rows = alerts[j].rows /\ alerts'[j].told = alerts[j].told
      BY <1>a, <2>3, AlertsAssumption DEF AlertRows
    <3>3. AlertsTypeOK'
      BY <1>a, <1>t, <2>1, <3>1, <3>2
    <3> QED BY <2>1, <3>1, <3>2, <3>3, CountsStay
  <2>4. CASE /\ alerts' = [alerts EXCEPT ![k].open = 1, ![k].rows = @ + 1]
             /\ check' = [check EXCEPT ![c].pc = "tell", ![c].next = k]
    <3>1. /\ check' \in [Checkers -> CheckStates] /\ check'[c].pc = "tell"
          /\ check'[c].next = k /\ check'[c].row = check[c].row
          /\ \A d \in Checkers \ {c} : check'[d] = check[d]
      BY <1>a, <2>1, <2>4, CheckFacts DEF CheckStates
    <3>2. /\ alerts'[k].rows = alerts[k].rows + 1 /\ alerts'[k].told = alerts[k].told
          /\ alerts'[k].open = 1 /\ \A j \in Kinds \ {k} : alerts'[j] = alerts[j]
      BY <1>a, <2>1, <2>4 DEF AlertRows
    <3>3. Dealt(check'[c]) = Earlier[k] \cup {k} /\ Dealt(check[c])' = Dealt(check'[c])
      <4>1. Dealt(check'[c]) = Earlier[k] \cup {k}
        BY <3>1, DealtFacts
      <4> QED BY <4>1 DEF Dealt
    <3>4. ASSUME NEW j \in Kinds PROVE Share(j)'
      <4>1. c \in ToDeal(j) \/ c \notin ToDeal(j)'
        BY <2>1, <3>3 DEF ToDeal
      <4>2. TimesOf(ToDeal(j))' \subseteq TimesOf(ToDeal(j))
        BY <2>1, <3>1, <4>1, TimesMove
      <4>3. CASE j = k
        <5>1. c \in ToDeal(k) /\ c \notin ToDeal(k)'
          BY <2>1, <3>3 DEF ToDeal
        <5>2. /\ check[c].row.at \in TimesOf(ToDeal(k))
              /\ TimesOf(ToDeal(k))' \subseteq TimesOf(ToDeal(k)) \ {check[c].row.at}
              /\ TimesOf(ToTell(k))' \subseteq TimesOf(ToTell(k)) \cup {check[c].row.at}
          BY <2>1, <3>1, <5>1, TimesMove
        <5>3. /\ Cardinality(TimesOf(ToDeal(k))) \in Nat /\ Cardinality(TimesOf(ToTell(k))) \in Nat
              /\ Cardinality(TimesOf(ToDeal(k))') \in Nat
              /\ Cardinality(TimesOf(ToTell(k))') \in Nat
              /\ Cardinality(TimesOf(ToDeal(k))') + 1 <= Cardinality(TimesOf(ToDeal(k)))
              /\ Cardinality(TimesOf(ToTell(k))') <= Cardinality(TimesOf(ToTell(k))) + 1
          BY <5>2, TimesFinite, FewerTimes
        <5> QED BY <2>1, <3>2, <4>3, <5>3, TimesFinite DEF AlAnyhow, Share
      <4>4. CASE j # k
        <5>1. c \notin ToTell(j)'
          BY <3>1, <4>4 DEF ToTell
        <5>2. TimesOf(ToTell(j))' \subseteq TimesOf(ToTell(j))
          BY <2>1, <3>1, <5>1, TimesMove
        <5>3. alerts'[j] = alerts[j]
          BY <3>2, <4>4
        <5> QED BY <2>1, <4>2, <5>2, <5>3, ShareStays
      <4> QED BY <4>3, <4>4
    <3>5. alerts' \in [Kinds -> AlertRows]
      <4>1. Share(k)'
        BY <3>4
      <4>2. IsFiniteSet(TimesOf(ToDeal(k))') /\ Cardinality(TimesOf(ToDeal(k))') \in Nat
        <5>1. TimesOf(ToDeal(k))' \subseteq TimesOf(ToDeal(k))
          BY <2>1, <3>1, <3>3, TimesMove DEF ToDeal
        <5> QED BY <5>1, TimesFinite, FS_Subset, FS_CardinalityType
      <4>3. alerts[k].rows + 1 \in 0..MaxChecks /\ 1 \in 0..MaxChecks
        BY <1>a, <2>1, <3>2, <4>1, <4>2, AlertsAssumption DEF Share, AlertRows
      <4> QED BY <1>a, <2>4, <4>3 DEF AlertRows
    <3>6. AlertsTypeOK'
      BY <1>a, <1>t, <2>1, <3>1, <3>5
    <3>7. Timed' /\ \A d \in Checkers : check'[d].pc = "tell" => check'[d].next \in Kinds
      BY <2>1, <3>1 DEF AlAnyhow, Timed, Working
    <3> QED BY <3>4, <3>6, <3>7 DEF AlAnyhow
  <2> QED BY <1>8, <2>2, <2>3, <2>4 DEF SyncAlert
<1>9. CASE SendAlertWebhook(c)
  <2>1. PICK k \in Kinds : k = check[c].next
    BY <1>9 DEF SendAlertWebhook, AlAnyhow
  <2>2. /\ check[c].pc = "tell" /\ check[c].next = k /\ Working(c)
        /\ alerts' = [alerts EXCEPT ![k].told = @ + 1] /\ ToNextKind(c, k)
        /\ UNCHANGED <<latest, begun, unwritten>> /\ HostAsIs /\ AlWorks
    BY <1>9, <2>1 DEF SendAlertWebhook, Working
  <2>3. /\ check' \in [Checkers -> CheckStates] /\ check'[c].pc # "tell"
        /\ \A d \in Checkers \ {c} : check'[d] = check[d]
        /\ \/ check'[c].pc = "idle"
           \/ /\ check'[c].row.at = check[c].row.at /\ check'[c].pc \notin {"idle", "tell"}
              /\ Dealt(check[c]) \subseteq Dealt(check'[c])
    BY <1>7, <2>2
  <2>4. /\ alerts[k] \in AlertRows /\ alerts'[k].told = alerts[k].told + 1
        /\ alerts'[k].rows = alerts[k].rows /\ \A j \in Kinds \ {k} : alerts'[j] = alerts[j]
    BY <1>a, <2>2 DEF AlertRows
  <2>5. ASSUME NEW j \in Kinds
        PROVE  /\ c \in ToDeal(j) \/ c \notin ToDeal(j)'
               /\ c \notin ToTell(j)' /\ (c \in ToTell(j) <=> j = k)
    <3>1. Dealt(check[c])' = Dealt(check'[c])
      BY DEF Dealt
    <3> QED BY <2>2, <2>3, <3>1 DEF ToDeal, ToTell, Working
  <2>6. ASSUME NEW j \in Kinds PROVE Share(j)'
    <3>1. /\ TimesOf(ToDeal(j))' \subseteq TimesOf(ToDeal(j))
          /\ TimesOf(ToTell(j))' \subseteq TimesOf(ToTell(j))
      BY <2>2, <2>3, <2>5, TimesMove
    <3>2. CASE j # k
      BY <2>2, <2>4, <3>1, <3>2, ShareStays
    <3>3. CASE j = k
      <4>1. /\ check[c].row.at \in TimesOf(ToTell(k))
            /\ TimesOf(ToTell(k))' \subseteq TimesOf(ToTell(k)) \ {check[c].row.at}
        BY <2>2, <2>3, <2>5, TimesMove
      <4>2. /\ Cardinality(TimesOf(ToDeal(k))) \in Nat /\ Cardinality(TimesOf(ToTell(k))) \in Nat
            /\ Cardinality(TimesOf(ToDeal(k))') \in Nat /\ Cardinality(TimesOf(ToTell(k))') \in Nat
            /\ Cardinality(TimesOf(ToDeal(k))') <= Cardinality(TimesOf(ToDeal(k)))
            /\ Cardinality(TimesOf(ToTell(k))') + 1 <= Cardinality(TimesOf(ToTell(k)))
        BY <3>1, <3>3, <4>1, TimesFinite, FewerTimes
      <4> QED BY <2>2, <2>4, <3>3, <4>2, TimesFinite DEF AlAnyhow, Share
    <3> QED BY <3>2, <3>3
  <2>7. alerts' \in [Kinds -> AlertRows]
    <3>1. Share(k)' /\ alerts[k].rows \in 0..MaxChecks /\ alerts[k].told \in Nat
      BY <2>4, <2>6 DEF AlertRows
    <3>2. Cardinality(TimesOf(ToTell(k))') \in Nat
      <4>1. TimesOf(ToTell(k))' \subseteq TimesOf(ToTell(k))
        BY <2>2, <2>3, <2>5, TimesMove
      <4> QED BY <4>1, TimesFinite, FewerTimes
    <3>3. alerts[k].told + 1 \in 0..MaxChecks
      BY <2>4, <3>1, <3>2, AlertsAssumption DEF Share
    <3> QED BY <1>a, <2>2, <2>4, <3>3 DEF AlertRows
  <2>8. AlertsTypeOK'
    BY <1>a, <1>t, <2>2, <2>3, <2>7
  <2>9. Timed' /\ \A d \in Checkers : check'[d].pc = "tell" => check'[d].next \in Kinds
    BY <2>2, <2>3 DEF AlAnyhow, Timed, Working
  <2> QED BY <2>6, <2>8, <2>9 DEF AlAnyhow
<1> QED BY <1>2, <1>3, <1>5, <1>6, <1>8, <1>9

LEMMA AlertsStayTyped == AlAnyhow /\ [AlertsNext]_alertVars => AlAnyhow'
<1> SUFFICES ASSUME AlAnyhow, [AlertsNext]_alertVars PROVE AlAnyhow'
  OBVIOUS
<1>1. CASE HealthChanges
  <2>1. AlertsTypeOK'
    <3>1. /\ unitUp' \in BOOLEAN /\ answers' \in BOOLEAN /\ cert' \in CertStates
          /\ full' \in BOOLEAN
      BY <1>1 DEF HealthChanges, AlAnyhow, AlertsTypeOK
    <3>2. healthChanges' \in 0..MaxHealthChanges
      BY <1>1, AlertsAssumption DEF HealthChanges, AlAnyhow, AlertsTypeOK
    <3> QED BY <1>1, <3>1, <3>2 DEF HealthChanges, RowsAsAre, AlWorks, AlAnyhow, AlertsTypeOK
  <2> QED BY <1>1, <2>1, AlHostMoves DEF HealthChanges, RowsAsAre
<1>2. CASE UNCHANGED alertVars
  <2>1. AlertsTypeOK'
    BY <1>2 DEF alertVars, AlAnyhow, AlertsTypeOK
  <2> QED BY <1>2, <2>1, AlHostMoves DEF alertVars
<1>3. CASE AlertsNext
  BY <1>1, <1>3, AlertsMoveAnyhow DEF AlertsNext
<1> QED BY <1>2, <1>3

LEMMA AlertsBeginAnyhow == AlertsInit => AlAnyhow
<1> SUFFICES ASSUME AlertsInit PROVE AlAnyhow
  OBVIOUS
<1>1. AlertsTypeOK
  BY AlertsInitially DEF AlInv
<1>2. \A c \in Checkers : check[c].pc = "idle"
  BY NothingSeen DEF AlertsInit
<1>3. \A k \in Kinds : ToDeal(k) = {} /\ ToTell(k) = {}
  BY <1>2 DEF ToDeal, ToTell, Working
<1>4. \A k \in Kinds : TimesOf(ToDeal(k)) = {} /\ TimesOf(ToTell(k)) = {}
  BY <1>3 DEF TimesOf
<1>5. Cardinality({}) = 0
  BY FS_EmptySet
<1>6. \A k \in Kinds : Share(k)
  BY <1>4, <1>5 DEF AlertsInit, Share
<1> QED BY <1>1, <1>2, <1>6 DEF AlAnyhow, Timed, Working

\* The rows of checks and alerts keep their types, whether checks take turns or not, for any
\* checkers: there are no more alerts of a kind than checks (CheckHealth, syncAlerts).
THEOREM AlertsTyped == AlertsSpec => []AlertsTypeOK
<1>1. AlAnyhow => AlertsTypeOK
  BY DEF AlAnyhow
<1> QED BY <1>1, AlertsBeginAnyhow, AlertsStayTyped, PTL DEF AlertsSpec

\* No alert is sent to the webhook twice, however many checks run beside each other, are broken
\* off or fail (syncAlerts, sendAlertWebhook).
THEOREM AlertsToldOnce == AlertsSpec => [](\A k \in Kinds : alerts[k].told <= alerts[k].rows)
<1>1. AlAnyhow => \A k \in Kinds : alerts[k].told <= alerts[k].rows
  <2> SUFFICES ASSUME AlAnyhow, NEW k \in Kinds PROVE alerts[k].told <= alerts[k].rows
    OBVIOUS
  <2>1. Share(k) /\ Cardinality(TimesOf(ToTell(k))) \in Nat
    BY TimesFinite, FewerTimes DEF AlAnyhow
  <2> QED BY <2>1, TimesFinite DEF Share
<1> QED BY <1>1, AlertsBeginAnyhow, AlertsStayTyped, PTL DEF AlertsSpec

-----------------------------------------------------------------------------
(* The backups.  No two archives have a name in common, and a restore has   *)
(* brought back what comes before the place it has come to.                 *)

Saving    == {"dump", "pack", "complete"}
Replacing == {"extract", "replay", "repair"}

NamedApart ==
  /\ \A i \in Recorded : backups[i].file <= second
  /\ \A i, j \in Recorded : backups[i].file = backups[j].file => i = j

AsSaved == saved[bk.row] # NoBk
Packing ==
  /\ bk.pc = "idle" <=> bk.op = "none"
  /\ bk.pc # "idle" => bk.row \in Recorded
  /\ bk.pc \in Saving => backups[bk.row].status = "running" /\ bk.at = 0
  /\ bk.pc \in {"dump", "pack"} /\ AsSaved => platform = saved[bk.row]
  /\ bk.pc = "pack" => bk.held \in Contents /\ (AsSaved => bk.held.data = saved[bk.row].data)
  /\ bk.pc = "complete" /\ AsSaved => archives[FileOf(bk.row)] = saved[bk.row]

CopiedTo(part, old, upto) == \A k \in DOMAIN old : k <= upto /\ old[k] # NoBk => part[k] = old[k]
CopiedAll(part, old) == \A k \in DOMAIN old : old[k] # NoBk => part[k] = old[k]
CopiedOwn(part, old) == \A k \in DOMAIN old \ BkDerived : old[k] # NoBk => part[k] = old[k]
Bringing ==
  /\ bk.op = "restore" => bk.wanted \in Contents
  /\ bk.op = "restore" /\ bk.pc \in Saving =>
       bk.from \in Recorded /\ bk.from # bk.row /\ archives[FileOf(bk.from)] = bk.wanted
  /\ bk.pc \in Replacing => bk.op = "restore" /\ bk.held = bk.wanted
  /\ ~bk.disturbed =>
       /\ bk.pc = "extract" => CopiedTo(platform.home, bk.wanted.home, bk.at)
       /\ bk.pc = "replay" => CopiedAll(platform.home, bk.wanted.home)
       /\ bk.pc = "repair" => CopiedOwn(platform.home, bk.wanted.home)
       /\ bk.pc = "replay" => CopiedTo(platform.data, bk.wanted.data, bk.at)
       /\ bk.pc = "repair" => CopiedAll(platform.data, bk.wanted.data)

BkInv == BackupsTypeOK /\ NamedApart /\ Packing /\ Bringing /\ BackupsHold

PartsOf(S) == [S -> Versions \cup {NoBk}]

\* A set of numbers that is not empty has a least one.
LEMMA LeastIs ==
  ASSUME NEW T \in SUBSET Nat, T # {}
  PROVE  Least(T) \in T /\ \A l \in T : Least(T) <= l
<1> DEFINE Below == OpToRel(<, Nat)
<1>1. \A x, y \in Nat : x < y => <<x, y>> \in Below
  BY DEF OpToRel
<1>2. PICK x \in T : \A y \in T : ~ (<<y, x>> \in Below)
  <2> HIDE DEF Below
  <2>1. IsWellFoundedOn(Below, Nat)
    BY NatLessThanWellFounded DEF Below
  <2> QED BY <2>1, WFMin
<1>3. \A l \in T : x <= l
  <2> HIDE DEF Below
  <2>1. \A l \in T : ~(l < x)
    BY <1>1, <1>2
  <2> QED BY <2>1
<1> QED BY <1>3 DEF Least

LEMMA BkValues ==
  /\ 0 \in Versions /\ Half \in Versions /\ Anew \in Versions /\ BkDerived \subseteq BkFiles
  /\ (\A e \in 0..MaxEdits : e < MaxEdits => e + 1 \in Versions)
  /\ \A k \in BkFiles \cup BkStores : k \in Nat /\ k # 0
  /\ NoBk \notin Contents /\ NoBk \notin Int /\ NoBk \notin BkRows
  /\ NoBkReq \in BkRequestStates /\ NoBkReq.pc = "idle" /\ NoBkReq.op = "none"
  /\ BkRows \subseteq Nat /\ NoBkReq.at = 0 /\ ~NoBkReq.disturbed
BY BackupsAssumption DEF Versions, Half, Anew, BkRows, NoBkReq, BkRequestStates

\* The rest of a copy, in its order.
LEMMA CopyGoesOn ==
  ASSUME NEW S, S \subseteq Nat \ {0}, NEW old \in PartsOf(S), NEW now \in PartsOf(S),
         bk.at \in Nat, CopiedTo(now, old, bk.at), NEW rest, rest = Rest(old)
  PROVE  rest # {} => /\ Least(rest) \in S /\ old[Least(rest)] # NoBk
                      /\ CopiedTo([now EXCEPT ![Least(rest)] = old[Least(rest)]],
                                  old, Least(rest))
<1>1. DOMAIN old = S /\ DOMAIN now = S /\ rest \in SUBSET Nat /\ rest \subseteq S
      /\ \A m : m \in rest <=> (m \in S /\ m > bk.at /\ old[m] # NoBk)
  BY DEF PartsOf, Rest
<1>2. CASE rest = {}
  BY <1>2
<1>3. CASE rest # {}
  <2>1. PICK l \in rest : l = Least(rest) /\ \A m \in rest : l <= m
    BY <1>1, <1>3, LeastIs
  <2>2. l \in S /\ old[l] # NoBk /\ l > bk.at
    BY <1>1, <2>1
  <2>3. ASSUME NEW k \in S, k <= l, old[k] # NoBk
        PROVE  [now EXCEPT ![l] = old[l]][k] = old[k]
    <3>1. CASE k = l
      BY <1>1, <2>2, <3>1
    <3>2. CASE k # l
      <4>1. k \in Nat /\ l \in Nat /\ k < l
        BY <2>2, <2>3, <3>2
      <4>2. k \notin rest
        BY <2>1, <4>1
      <4>3. k <= bk.at
        BY <1>1, <2>3, <4>1, <4>2
      <4> QED BY <1>1, <2>3, <3>2, <4>3 DEF CopiedTo
    <3> QED BY <3>1, <3>2
  <2>4. CopiedTo([now EXCEPT ![l] = old[l]], old, l)
    BY <1>1, <2>3 DEF CopiedTo
  <2> QED BY <1>3, <2>1, <2>2, <2>4
<1> QED BY <1>2, <1>3

LEMMA CopyOver ==
  ASSUME NEW S, S \subseteq Nat \ {0}, NEW old \in PartsOf(S), NEW now \in PartsOf(S),
         bk.at \in Nat, CopiedTo(now, old, bk.at), Rest(old) = {}
  PROVE  CopiedAll(now, old)
<1>1. DOMAIN old = S
  BY DEF PartsOf
<1>2. \A m \in S : old[m] # NoBk => m <= bk.at
  <2>1. \A m \in S : m \in Nat /\ ~(m > bk.at /\ old[m] # NoBk)
    BY <1>1 DEF Rest
  <2> QED BY <2>1
<1> QED BY <1>1, <1>2 DEF CopiedTo, CopiedAll

LEMMA RestLeast ==
  ASSUME NEW S, S \subseteq Nat \ {0}, NEW old \in PartsOf(S), Rest(old) # {}
  PROVE  Least(Rest(old)) \in S
<1>1. Rest(old) \in SUBSET Nat /\ Rest(old) \subseteq S
  BY DEF PartsOf, Rest
<1> QED BY <1>1, LeastIs

LEMMA BkParts ==
  ASSUME BackupsTypeOK
  PROVE  /\ platform = [home |-> platform.home, data |-> platform.data]
         /\ platform.home \in PartsOf(BkFiles) /\ platform.data \in PartsOf(BkStores)
         /\ bk \in BkRequestStates /\ bk.at \in Nat
         /\ \A i \in Recorded : i \in BkRows /\ backups[i] \in BackupRow /\ FileOf(i) \in BkRows
         /\ \A i \in BkRows \ Recorded : backups[i] = NoBk
         /\ bkFailures \in Nat
<1>1. bk.at \in Nat
  BY BkValues DEF BackupsTypeOK, BkRequestStates
<1> QED BY <1>1, BackupsAssumption
        DEF BackupsTypeOK, Contents, PartsOf, Recorded, BackupRow, FileOf, BkRows

LEMMA BackupsInitially == BackupsInit => BkInv
<1> SUFFICES ASSUME BackupsInit PROVE BkInv
  OBVIOUS
<1>1. BackupsTypeOK
  <2>1. platform \in Contents
    BY BkValues DEF BackupsInit, Contents
  <2>2. bk \in BkRequestStates
    BY BkValues DEF BackupsInit
  <2> QED BY <2>1, <2>2, BackupsAssumption DEF BackupsInit, BackupsTypeOK
<1>2. Recorded = {}
  BY DEF BackupsInit, Recorded
<1>3. bk.pc = "idle" /\ bk.op = "none" /\ "idle" \notin Saving \cup Replacing
  BY BkValues DEF BackupsInit, Saving, Replacing
<1> QED BY <1>1, <1>2, <1>3
        DEF BkInv, NamedApart, Packing, Bringing, BackupsHold, Saving, Replacing

\* A step that leaves the rows, the archives and what they are to hold.
LEMMA RowsStay ==
  ASSUME BkInv, UNCHANGED <<backups, archives, second, saved>>
  PROVE  /\ NamedApart' /\ BackupsHold' /\ Recorded' = Recorded
         /\ \A i \in Recorded : FileOf(i)' = FileOf(i)
BY DEF BkInv, NamedApart, BackupsHold, Recorded, FileOf

\* A request that ends leaves nothing to say of it.
LEMMA BkEnded ==
  ASSUME bk' = NoBkReq
  PROVE  Packing' /\ Bringing'
BY BkValues DEF Packing, Bringing, Saving, Replacing

\* The request that begins takes a name nobody has.
LEMMA BeginKept ==
  ASSUME BkInv, ~BkSameSecond, NEW sort, NEW op, NEW from, NEW wanted,
         sort \in {"manual", "pre-restore"}, Begin(sort, op, from, wanted),
         \/ op = "backup" /\ from = NoBk /\ wanted = NoBk
         \/ op = "restore" /\ from \in Recorded /\ wanted \in Contents
                /\ archives[FileOf(from)] = wanted
  PROVE  BkInv'
<1>1. PICK i \in BkRows \ Recorded, file \in ArchiveName \cap BkRows :
        /\ backups' = [backups EXCEPT ![i] = [status |-> "running", kind |-> sort, file |-> file]]
        /\ second' = file /\ saved' = [saved EXCEPT ![i] = platform]
        /\ bk' = [NoBkReq EXCEPT !.pc = "dump", !.op = op, !.row = i, !.from = from,
                                 !.wanted = wanted]
  BY Zenon DEF Begin
<1>2. bk.pc = "idle" /\ UNCHANGED <<platform, archives, edits, bkFailures>>
  BY DEF Begin, BkWorks
<1>3. BackupsTypeOK /\ file = second + 1 /\ second \in Nat
  BY BkValues DEF BkInv, BackupsTypeOK, ArchiveName, BkRows
<1>4. bk' \in BkRequestStates
  BY <1>1, BkValues DEF BkRequestStates, Recorded
<1>5. [status |-> "running", kind |-> sort, file |-> file] \in BackupRow
  BY DEF BackupRow
<1>6. BackupsTypeOK'
  BY <1>1, <1>2, <1>3, <1>4, <1>5 DEF BackupsTypeOK
<1>7. /\ Recorded' = Recorded \cup {i} /\ \A j \in Recorded : backups'[j] = backups[j]
      /\ backups'[i].file = file /\ backups'[i].status = "running"
  <2>1. backups'[i] # NoBk
    BY <1>1, <1>3, <1>5, BackupsAssumption DEF BackupsTypeOK
  <2> QED BY <1>1, <1>3, <2>1 DEF BackupsTypeOK, Recorded
<1>8. NamedApart'
  <2>1. \A j \in Recorded : backups[j].file <= second /\ backups[j].file \in Nat
    BY <1>3, BkParts, BkValues DEF BkInv, NamedApart, FileOf
  <2>2. \A j \in Recorded : backups'[j].file = backups[j].file /\ backups'[j].file # file
    BY <1>3, <1>7, <2>1
  <2> QED BY <1>1, <1>3, <1>7, <2>1, <2>2 DEF BkInv, NamedApart
<1>9. saved'[i] = platform /\ \A j \in Recorded : saved'[j] = saved[j] /\ j # i
  BY <1>1, <1>3 DEF BackupsTypeOK, Recorded
<1>10. /\ bk'.pc = "dump" /\ bk'.op = op /\ bk'.row = i /\ bk'.from = from /\ bk'.wanted = wanted
       /\ bk'.at = 0
  BY <1>1 DEF NoBkReq
<1>11. Packing'
  BY <1>2, <1>7, <1>9, <1>10 DEF Packing, AsSaved, Saving
<1>12. Bringing'
  BY <1>2, <1>7, <1>9, <1>10 DEF Bringing, Saving, Replacing, FileOf
<1>13. BackupsHold'
  BY <1>2, <1>7, <1>9 DEF BkInv, BackupsHold, FileOf
<1> QED BY <1>6, <1>8, <1>11, <1>12, <1>13 DEF BkInv

\* A backup that is being made and fails, or is broken off.
LEMMA BkStatus ==
  ASSUME BkInv, bk.pc \in Saving, NEW status \in {"running", "failed", "completed"},
         backups' = [backups EXCEPT ![bk.row].status = status],
         status = "completed" => bk.pc = "complete",
         UNCHANGED <<archives, second, saved>>
  PROVE  /\ NamedApart' /\ BackupsHold' /\ Recorded' = Recorded
         /\ backups' \in [BkRows -> BackupRow \cup {NoBk}]
         /\ \A i \in Recorded : FileOf(i)' = FileOf(i)
<1>1. BackupsTypeOK /\ bk.row \in Recorded /\ bk.row \in BkRows /\ backups[bk.row] \in BackupRow
  BY BkParts DEF BkInv, Packing, Saving
<1>2. /\ backups'[bk.row] = [backups[bk.row] EXCEPT !.status = status]
      /\ \A i \in BkRows \ {bk.row} : backups'[i] = backups[i]
  BY <1>1 DEF BackupsTypeOK
<1>3. /\ backups'[bk.row] \in BackupRow /\ backups'[bk.row].status = status
      /\ backups'[bk.row].file = backups[bk.row].file /\ backups'[bk.row] # NoBk
  BY <1>1, <1>2, BackupsAssumption DEF BackupRow
<1>4. backups' \in [BkRows -> BackupRow \cup {NoBk}]
  BY <1>1, <1>2, <1>3 DEF BackupsTypeOK
<1>5. Recorded' = Recorded
  BY <1>1, <1>2, <1>3 DEF Recorded
<1>6. \A i \in Recorded : i \in BkRows /\ backups'[i].file = backups[i].file
  BY <1>2, <1>3 DEF Recorded
<1>7. NamedApart'
  BY <1>5, <1>6 DEF BkInv, NamedApart
<1>8. BackupsHold'
  <2> SUFFICES ASSUME NEW i \in Recorded', backups'[i].status = "completed", saved[i] # NoBk
               PROVE  archives[backups'[i].file] = saved[i]
    BY DEF BackupsHold, FileOf
  <2>1. CASE i = bk.row
    BY <1>3, <1>5, <2>1 DEF BkInv, Packing, AsSaved, FileOf
  <2>2. CASE i # bk.row
    BY <1>2, <1>5, <1>6, <2>2 DEF BkInv, BackupsHold, FileOf
  <2> QED BY <2>1, <2>2
<1> QED BY <1>4, <1>5, <1>6, <1>7, <1>8 DEF FileOf

LEMMA FailsKept ==
  ASSUME BkInv, bk.pc \in Saving, BackupFails,
         UNCHANGED <<platform, archives, second, edits, saved>>
  PROVE  BkInv'
<1>1. PICK status \in {"failed", "running"} :
        backups' = [backups EXCEPT ![bk.row].status = status]
  BY DEF BackupFails
<1>2. /\ NamedApart' /\ BackupsHold'
      /\ backups' \in [BkRows -> BackupRow \cup {NoBk}]
  BY <1>1, BkStatus
<1>3. bk' = NoBkReq /\ bkFailures' \in 0..MaxBkFailures
  BY BkParts, BackupsAssumption DEF BackupFails, BkFault, BkEnds, BkInv, BackupsTypeOK
<1>4. BackupsTypeOK'
  BY <1>2, <1>3, BkValues DEF BkInv, BackupsTypeOK
<1> QED BY <1>2, <1>3, <1>4, BkEnded DEF BkInv

LEMMA DumpKept == ASSUME BkInv, DumpStores PROVE BkInv'
<1>1. CASE BackupFails
  BY <1>1, FailsKept DEF DumpStores, BackupFails, Saving
<1>2. CASE /\ bk' = [bk EXCEPT !.pc = "pack", !.held = platform]
           /\ BkWorks /\ UNCHANGED <<platform, backups, archives, second, edits, saved>>
  <2>1. BackupsTypeOK /\ bk.pc = "dump" /\ bk \in BkRequestStates /\ platform \in Contents
    BY DEF DumpStores, BkInv, BackupsTypeOK
  <2>2. /\ bk' \in BkRequestStates /\ bk'.pc = "pack" /\ bk'.held = platform
        /\ bk'.op = bk.op /\ bk'.row = bk.row /\ bk'.from = bk.from /\ bk'.wanted = bk.wanted
        /\ bk'.at = bk.at
    BY <1>2, <2>1 DEF BkRequestStates
  <2>3. BackupsTypeOK'
    BY <1>2, <2>1, <2>2 DEF BackupsTypeOK, BkWorks
  <2>4. NamedApart' /\ BackupsHold' /\ Recorded' = Recorded
    BY <1>2, RowsStay
  <2>5. Packing'
    BY <1>2, <2>1, <2>2, <2>4 DEF BkInv, Packing, AsSaved, Saving
  <2>6. Bringing'
    BY <1>2, <2>1, <2>2, <2>4 DEF BkInv, Bringing, Saving, Replacing, FileOf
  <2> QED BY <2>3, <2>4, <2>5, <2>6 DEF BkInv
<1> QED BY <1>1, <1>2 DEF DumpStores

\* The archive that is written is nobody else's.
LEMMA PackKept == ASSUME BkInv, PackHome PROVE BkInv'
<1>1. CASE BackupFails
  BY <1>1, FailsKept DEF PackHome, BackupFails, Saving
<1>2. CASE /\ archives' = [archives EXCEPT ![FileOf(bk.row)] =
                            [home |-> platform.home, data |-> bk.held.data]]
           /\ bk' = [bk EXCEPT !.pc = "complete"]
           /\ BkWorks /\ UNCHANGED <<platform, backups, second, edits, saved>>
  <2> DEFINE own == FileOf(bk.row)
             packed == [home |-> platform.home, data |-> bk.held.data]
  <2>1. BackupsTypeOK /\ bk.pc = "pack" /\ bk \in BkRequestStates /\ platform \in Contents
        /\ bk.row \in Recorded /\ bk.held \in Contents /\ own \in BkRows
    BY BkParts DEF PackHome, BkInv, BackupsTypeOK, Packing
  <2>2. /\ bk' \in BkRequestStates /\ bk'.pc = "complete"
        /\ bk'.op = bk.op /\ bk'.row = bk.row /\ bk'.from = bk.from /\ bk'.wanted = bk.wanted
        /\ bk'.at = bk.at
    BY <1>2, <2>1 DEF BkRequestStates
  <2>3. packed \in Contents
    BY <2>1 DEF Contents
  <2>4. archives' = [archives EXCEPT ![own] = packed]
    BY <1>2
  <2>5. BackupsTypeOK'
    BY <1>2, <2>1, <2>2, <2>3, <2>4 DEF BackupsTypeOK, BkWorks
  <2>6. /\ archives'[own] = packed
        /\ \A i \in Recorded \ {bk.row} : archives'[FileOf(i)] = archives[FileOf(i)]
    <3>1. \A i \in Recorded \ {bk.row} : FileOf(i) # own /\ FileOf(i) \in BkRows
      BY <2>1, BkParts DEF BkInv, NamedApart, FileOf
    <3> HIDE DEF own, packed
    <3> QED BY <2>1, <2>4, <3>1 DEF BackupsTypeOK
  <2>7. AsSaved => packed = saved[bk.row]
    BY <2>1, BkParts DEF BkInv, Packing
  <2>8. Recorded' = Recorded /\ \A i \in Recorded : FileOf(i)' = FileOf(i)
    BY <1>2 DEF Recorded, FileOf
  <2>9. NamedApart' /\ BackupsHold'
    <3>1. NamedApart'
      BY <1>2, <2>8 DEF BkInv, NamedApart
    <3>2. backups[bk.row].status = "running"
      BY <2>1 DEF BkInv, Packing, Saving
    <3>3. \A i \in Recorded' : backups'[i].status = "completed" => i # bk.row
      BY <1>2, <3>2
    <3> HIDE DEF own, packed
    <3> QED BY <1>2, <2>6, <2>8, <3>1, <3>3 DEF BkInv, BackupsHold
  <2>10. Packing'
    <3>1. AsSaved' => AsSaved
      BY <1>2, <2>2 DEF AsSaved
    <3>3. FileOf(bk.row)' = FileOf(bk.row)
      BY <1>2, <2>2 DEF FileOf
    <3> HIDE DEF own, packed
    <3> QED BY <1>2, <2>1, <2>2, <2>6, <2>7, <2>8, <3>1, <3>3
            DEF BkInv, Packing, AsSaved, Saving, own
  <2>11. Bringing'
    <3>1. bk.op = "restore" => /\ bk.from \in Recorded \ {bk.row} /\ bk.wanted \in Contents
                               /\ archives[FileOf(bk.from)] = bk.wanted
      BY <2>1 DEF BkInv, Bringing, Saving
    <3>2. FileOf(bk.from)' = FileOf(bk.from)
      BY <1>2, <2>2 DEF FileOf
    <3> HIDE DEF own, packed
    <3> QED BY <2>2, <2>6, <2>8, <3>1, <3>2 DEF Bringing, Saving, Replacing
  <2> QED BY <2>5, <2>9, <2>10, <2>11 DEF BkInv
<1> QED BY <1>1, <1>2 DEF PackHome

LEMMA CompleteKept == ASSUME BkInv, CompleteBackup PROVE BkInv'
<1>1. BackupsTypeOK /\ bk.pc = "complete" /\ bk \in BkRequestStates /\ bk.pc \in Saving
      /\ bk.row \in Recorded /\ UNCHANGED <<platform, archives, second, edits, saved>>
  BY DEF CompleteBackup, BkInv, BackupsTypeOK, Packing, Saving
<1>2. CASE BkFault /\ BkEnds /\ UNCHANGED backups
  <2>1. BackupsTypeOK'
    BY <1>1, <1>2, BkValues, BackupsAssumption DEF BackupsTypeOK, BkFault, BkEnds
  <2> QED BY <1>1, <1>2, <2>1, RowsStay, BkEnded DEF BkInv, BkEnds
<1>3. CASE /\ backups' = [backups EXCEPT ![bk.row].status = "completed"]
           /\ IF bk.op = "backup" THEN BkEnds
              ELSE bk' = [bk EXCEPT !.pc = "extract", !.held = ChosenArchive]
           /\ BkWorks
  <2>1. /\ NamedApart' /\ BackupsHold' /\ Recorded' = Recorded
        /\ backups' \in [BkRows -> BackupRow \cup {NoBk}]
    BY <1>1, <1>3, BkStatus
  <2>2. CASE bk.op = "backup"
    <3>1. BackupsTypeOK'
      BY <1>1, <1>3, <2>1, <2>2, BkValues DEF BackupsTypeOK, BkWorks, BkEnds
    <3> QED BY <1>3, <2>1, <2>2, <3>1, BkEnded DEF BkInv, BkEnds
  <2>3. CASE bk.op # "backup"
    <3>1. bk.op = "restore"
      BY <1>1, <2>3 DEF BkInv, Bringing, BkRequestStates, Packing
    <3>2. bk.wanted \in Contents /\ ChosenArchive = bk.wanted
      BY <1>1, <3>1 DEF BkInv, Bringing, ChosenArchive
    <3>3. bk' = [bk EXCEPT !.pc = "extract", !.held = bk.wanted]
      BY <1>3, <2>3, <3>2
    <3>4. /\ bk' \in BkRequestStates /\ bk'.pc = "extract" /\ bk'.held = bk.wanted
          /\ bk'.op = "restore" /\ bk'.row = bk.row /\ bk'.wanted = bk.wanted /\ bk'.at = bk.at
      BY <1>1, <3>1, <3>2, <3>3 DEF BkRequestStates
    <3>5. BackupsTypeOK'
      BY <1>1, <1>3, <2>1, <3>4 DEF BackupsTypeOK, BkWorks
    <3>6. Packing'
      BY <1>1, <2>1, <3>4 DEF Packing, Saving
    <3>7. CopiedTo(platform.home, bk.wanted.home, 0)
      <4>1. \A k \in DOMAIN bk.wanted.home : k \in Nat /\ k # 0
        BY <3>2, BkValues DEF Contents
      <4> QED BY <4>1 DEF CopiedTo
    <3>8. bk.at = 0
      BY <1>1 DEF BkInv, Packing
    <3>9. Bringing'
      BY <1>1, <3>2, <3>4, <3>7, <3>8 DEF Bringing, Saving, Replacing
    <3> QED BY <2>1, <3>5, <3>6, <3>9 DEF BkInv
  <2> QED BY <2>2, <2>3
<1> QED BY <1>2, <1>3 DEF CompleteBackup

\* A part that gets back what the archive has of it.
LEMMA CopiedOne ==
  ASSUME NEW S, NEW old \in PartsOf(S), NEW now \in PartsOf(S), NEW k \in S
  PROVE  [now EXCEPT ![k] = old[k]] \in PartsOf(S) /\ [now EXCEPT ![k] = Half] \in PartsOf(S)
BY BkValues DEF PartsOf

\* What a restore does is in the platform, and in where the restore has come to.
LEMMA ReplacingKept ==
  ASSUME BkInv, bk.pc \in Replacing, UNCHANGED <<backups, archives, second, edits, saved>>,
         bk' = NoBkReq \/ (bk' \in BkRequestStates /\ bk'.pc \in Replacing /\ Bringing'
                            /\ bk'.op = bk.op /\ bk'.row = bk.row),
         platform' \in Contents, BkFault \/ BkWorks
  PROVE  BkInv'
<1>1. NamedApart' /\ BackupsHold' /\ Recorded' = Recorded
  BY RowsStay
<1>2. BackupsTypeOK'
  BY BkValues, BackupsAssumption DEF BkInv, BackupsTypeOK, BkFault, BkWorks
<1>3. CASE bk' = NoBkReq
  BY <1>1, <1>2, <1>3, BkEnded DEF BkInv
<1>4. CASE bk' # NoBkReq
  <2>1. Packing'
    BY <1>1, <1>4 DEF BkInv, Packing, Saving, Replacing
  <2> QED BY <1>1, <1>2, <1>4, <2>1 DEF BkInv
<1> QED BY <1>3, <1>4

\* Where a restore is.
LEMMA RestoreAt ==
  ASSUME BkInv, bk.pc \in Replacing
  PROVE  /\ BackupsTypeOK /\ bk \in BkRequestStates /\ bk.op = "restore" /\ bk.held = bk.wanted
         /\ bk.at \in Nat
         /\ bk.wanted.home \in PartsOf(BkFiles) /\ bk.wanted.data \in PartsOf(BkStores)
         /\ platform \in Contents
         /\ platform.home \in PartsOf(BkFiles) /\ platform.data \in PartsOf(BkStores)
         /\ platform = [home |-> platform.home, data |-> platform.data]
         /\ BkFiles \subseteq Nat \ {0} /\ BkStores \subseteq Nat \ {0}
         /\ DOMAIN bk.wanted.home = BkFiles /\ DOMAIN bk.wanted.data = BkStores
<1>1. BackupsTypeOK /\ bk \in BkRequestStates /\ bk.at \in Nat /\ platform \in Contents
  BY BkParts DEF BkInv, BackupsTypeOK
<1>2. bk.op = "restore" /\ bk.held = bk.wanted /\ bk.wanted \in Contents
  BY DEF BkInv, Bringing
<1>3. bk.wanted.home \in PartsOf(BkFiles) /\ bk.wanted.data \in PartsOf(BkStores)
  BY <1>2 DEF Contents, PartsOf
<1> QED BY <1>1, <1>2, <1>3, BkParts, BackupsAssumption DEF PartsOf

LEMMA ExtractKept == ASSUME BkInv, ExtractFile PROVE BkInv'
<1> DEFINE rest == Rest(bk.held.home)
           k == Least(rest)
<1>1. bk.pc = "extract" /\ bk.pc \in Replacing
      /\ UNCHANGED <<backups, archives, second, edits, saved>>
  BY DEF ExtractFile, Replacing
<1>2. /\ BackupsTypeOK /\ bk \in BkRequestStates /\ bk.op = "restore" /\ bk.held = bk.wanted
      /\ bk.at \in Nat /\ bk.wanted.home \in PartsOf(BkFiles) /\ bk.wanted \in Contents
      /\ bk.wanted.data \in PartsOf(BkStores) /\ DOMAIN bk.wanted.data = BkStores
      /\ platform \in Contents /\ platform.home \in PartsOf(BkFiles)
      /\ platform.data \in PartsOf(BkStores) /\ BkFiles \subseteq Nat \ {0}
      /\ BkStores \subseteq Nat \ {0} /\ DOMAIN bk.wanted.home = BkFiles
  BY <1>1, RestoreAt DEF BkInv, Bringing
<1>3. rest = Rest(bk.wanted.home)
  BY <1>2
<1>4. ~bk.disturbed => CopiedTo(platform.home, bk.wanted.home, bk.at)
  BY <1>1 DEF BkInv, Bringing
<1>5. rest # {} => k \in BkFiles
  BY <1>2, <1>3, RestLeast
<1>6. CASE /\ rest = {} /\ bk' = [bk EXCEPT !.pc = "replay", !.at = 0]
           /\ BkWorks /\ UNCHANGED platform
  <2>1. /\ bk' \in BkRequestStates /\ bk'.pc = "replay" /\ bk'.at = 0 /\ bk'.op = bk.op
        /\ bk'.row = bk.row /\ bk'.held = bk.held /\ bk'.wanted = bk.wanted
        /\ bk'.disturbed = bk.disturbed
    BY <1>2, <1>6 DEF BkRequestStates
  <2>2. ~bk.disturbed => CopiedAll(platform.home, bk.wanted.home)
    <3> HIDE DEF rest, k
    <3>1. rest = {}
      BY <1>6
    <3> QED BY <1>2, <1>3, <1>4, <3>1, CopyOver
  <2>3. CopiedTo(platform.data, bk.wanted.data, 0)
    <3>1. \A i \in DOMAIN bk.wanted.data : i \in Nat /\ i # 0
      BY <1>2
    <3> HIDE DEF rest, k
    <3> QED BY <1>2, <3>1 DEF CopiedTo
  <2>4. Bringing'
    BY <1>2, <1>6, <2>1, <2>2, <2>3 DEF Bringing, Saving, Replacing
  <2> QED BY <1>1, <1>2, <1>6, <2>1, <2>4, ReplacingKept DEF Replacing
<1>7. CASE rest # {} /\ BkEnds /\ BkWorks /\ UNCHANGED platform
  BY <1>1, <1>2, <1>7, ReplacingKept DEF BkEnds
<1>8. CASE /\ rest # {} /\ platform' = [platform EXCEPT !.home[k] = bk.held.home[k]]
           /\ bk' = [bk EXCEPT !.at = k] /\ BkWorks
  <2>1. /\ bk' \in BkRequestStates /\ bk'.pc = "extract" /\ bk'.at = k /\ bk'.op = bk.op
        /\ bk'.row = bk.row /\ bk'.held = bk.held /\ bk'.wanted = bk.wanted
        /\ bk'.disturbed = bk.disturbed
    BY <1>1, <1>2, <1>5, <1>8 DEF BkRequestStates
  <2>2. /\ platform'.home = [platform.home EXCEPT ![k] = bk.wanted.home[k]]
        /\ platform' \in Contents
    <3>1. platform' = [platform EXCEPT !.home = [platform.home EXCEPT ![k] = bk.wanted.home[k]]]
      BY <1>2, <1>8
    <3>2. [platform.home EXCEPT ![k] = bk.wanted.home[k]] \in PartsOf(BkFiles)
      BY <1>2, <1>5, <1>8, CopiedOne
    <3> HIDE DEF k, rest
    <3> QED BY <1>2, <3>1, <3>2 DEF Contents, PartsOf
  <2>3. ~bk.disturbed => CopiedTo([platform.home EXCEPT ![k] = bk.wanted.home[k]],
                                  bk.wanted.home, k)
    <3>1. rest # {} /\ k = Least(rest)
      BY <1>8
    <3> HIDE DEF rest, k
    <3> QED BY <1>2, <1>3, <1>4, <3>1, CopyGoesOn
  <2>4. Bringing'
    <3> HIDE DEF k, rest
    <3> QED BY <1>2, <2>1, <2>2, <2>3 DEF Bringing, Saving, Replacing
  <2> QED BY <1>1, <1>8, <2>1, <2>2, <2>4, ReplacingKept DEF Replacing
<1>9. CASE /\ rest # {} /\ platform' \in {platform, [platform EXCEPT !.home[k] = Half]}
           /\ BkFault /\ BkEnds
  <2>1. platform' \in Contents
    <3>1. [platform.home EXCEPT ![k] = Half] \in PartsOf(BkFiles)
      BY <1>2, <1>5, <1>9, CopiedOne
    <3>2. platform' = platform
            \/ platform' = [platform EXCEPT !.home = [platform.home EXCEPT ![k] = Half]]
      BY <1>2, <1>9
    <3> HIDE DEF k, rest
    <3> QED BY <1>2, <3>1, <3>2 DEF Contents, PartsOf
  <2> QED BY <1>1, <1>9, <2>1, ReplacingKept DEF BkEnds
<1> QED BY <1>6, <1>7, <1>8, <1>9 DEF ExtractFile

LEMMA ReplayKept == ASSUME BkInv, ReplayDump PROVE BkInv'
<1> DEFINE rest == Rest(bk.held.data)
           k == Least(rest)
<1>1. bk.pc = "replay" /\ bk.pc \in Replacing
      /\ UNCHANGED <<backups, archives, second, edits, saved>>
  BY DEF ReplayDump, Replacing
<1>2. /\ BackupsTypeOK /\ bk \in BkRequestStates /\ bk.op = "restore" /\ bk.held = bk.wanted
      /\ bk.at \in Nat /\ bk.wanted.data \in PartsOf(BkStores) /\ bk.wanted \in Contents
      /\ platform \in Contents /\ platform.data \in PartsOf(BkStores)
      /\ BkStores \subseteq Nat \ {0} /\ DOMAIN bk.wanted.data = BkStores
  BY <1>1, RestoreAt DEF BkInv, Bringing
<1>3. rest = Rest(bk.wanted.data)
  BY <1>2
<1>4. ~bk.disturbed => /\ CopiedTo(platform.data, bk.wanted.data, bk.at)
                       /\ CopiedAll(platform.home, bk.wanted.home)
  BY <1>1 DEF BkInv, Bringing
<1>5. rest # {} => k \in BkStores
  BY <1>2, <1>3, RestLeast
<1>6. CASE rest = {} /\ bk' = [bk EXCEPT !.pc = "repair"] /\ BkWorks /\ UNCHANGED platform
  <2>1. /\ bk' \in BkRequestStates /\ bk'.pc = "repair" /\ bk'.op = bk.op
        /\ bk'.row = bk.row /\ bk'.held = bk.held /\ bk'.wanted = bk.wanted
        /\ bk'.disturbed = bk.disturbed
    BY <1>2, <1>6 DEF BkRequestStates
  <2>2. ~bk.disturbed => CopiedAll(platform.data, bk.wanted.data)
    <3> HIDE DEF rest, k
    <3>1. rest = {}
      BY <1>6
    <3> QED BY <1>2, <1>3, <1>4, <3>1, CopyOver
  <2>3. ~bk.disturbed => CopiedOwn(platform.home, bk.wanted.home)
    BY <1>4 DEF CopiedAll, CopiedOwn
  <2>4. Bringing'
    BY <1>2, <1>6, <2>1, <2>2, <2>3 DEF Bringing, Saving, Replacing
  <2> QED BY <1>1, <1>2, <1>6, <2>1, <2>4, ReplacingKept DEF Replacing
<1>7. CASE rest # {} /\ BkEnds /\ BkWorks /\ UNCHANGED platform
  BY <1>1, <1>2, <1>7, ReplacingKept DEF BkEnds
<1>8. CASE /\ rest # {} /\ platform' = [platform EXCEPT !.data[k] = bk.held.data[k]]
           /\ bk' = [bk EXCEPT !.at = k] /\ BkWorks
  <2>1. /\ bk' \in BkRequestStates /\ bk'.pc = "replay" /\ bk'.at = k /\ bk'.op = bk.op
        /\ bk'.row = bk.row /\ bk'.held = bk.held /\ bk'.wanted = bk.wanted
        /\ bk'.disturbed = bk.disturbed
    BY <1>1, <1>2, <1>5, <1>8 DEF BkRequestStates
  <2>2. /\ platform'.data = [platform.data EXCEPT ![k] = bk.wanted.data[k]]
        /\ platform'.home = platform.home /\ platform' \in Contents
    <3>1. platform' = [platform EXCEPT !.data = [platform.data EXCEPT ![k] = bk.wanted.data[k]]]
      BY <1>2, <1>8
    <3>2. [platform.data EXCEPT ![k] = bk.wanted.data[k]] \in PartsOf(BkStores)
      BY <1>2, <1>5, <1>8, CopiedOne
    <3> HIDE DEF k, rest
    <3> QED BY <1>2, <3>1, <3>2 DEF Contents, PartsOf
  <2>3. ~bk.disturbed => CopiedTo([platform.data EXCEPT ![k] = bk.wanted.data[k]],
                                  bk.wanted.data, k)
    <3>1. rest # {} /\ k = Least(rest)
      BY <1>8
    <3> HIDE DEF rest, k
    <3> QED BY <1>2, <1>3, <1>4, <3>1, CopyGoesOn
  <2>4. Bringing'
    <3> HIDE DEF k, rest
    <3> QED BY <1>2, <1>4, <2>1, <2>2, <2>3 DEF Bringing, Saving, Replacing
  <2> QED BY <1>1, <1>8, <2>1, <2>2, <2>4, ReplacingKept DEF Replacing
<1>9. CASE /\ rest # {} /\ platform' \in {platform, [platform EXCEPT !.data[k] = Half]}
           /\ BkFault /\ BkEnds
  <2>1. platform' \in Contents
    <3>1. [platform.data EXCEPT ![k] = Half] \in PartsOf(BkStores)
      BY <1>2, <1>5, <1>9, CopiedOne
    <3>2. platform' = platform
            \/ platform' = [platform EXCEPT !.data = [platform.data EXCEPT ![k] = Half]]
      BY <1>2, <1>9
    <3> HIDE DEF k, rest
    <3> QED BY <1>2, <3>1, <3>2 DEF Contents, PartsOf
  <2> QED BY <1>1, <1>9, <2>1, ReplacingKept DEF BkEnds
<1> QED BY <1>6, <1>7, <1>8, <1>9 DEF ReplayDump

\* One part of the platform becomes what the archive holds, half of it,
\* or what the panel makes of it.
LEMMA PartReplaced ==
  ASSUME BackupsTypeOK, NEW v \in Versions \cup {NoBk}
  PROVE  /\ \A k \in BkFiles : [platform EXCEPT !.home[k] = v] \in Contents
         /\ \A k \in BkStores : [platform EXCEPT !.data[k] = v] \in Contents
<1>1. platform \in Contents
  BY DEF BackupsTypeOK
<1> QED BY <1>1 DEF Contents

\* What is made again is not among what was to be brought back.
LEMMA RemakeKept == ASSUME BkInv, RemakeDerived PROVE BkInv'
<1>1. /\ bk.pc = "repair" /\ bk.pc \in Replacing /\ bk' = bk /\ BkWorks
      /\ UNCHANGED <<backups, archives, second, edits, saved>>
  BY DEF RemakeDerived, Replacing
<1>2. PICK k \in BkDerived, v \in {Anew, NoBk} : platform' = [platform EXCEPT !.home[k] = v]
  BY DEF RemakeDerived
<1>3. platform' \in Contents /\ bk \in BkRequestStates
  BY <1>2, PartReplaced, BkValues DEF BkInv, BackupsTypeOK
<1>4. /\ platform'.data = platform.data
      /\ \A l \in BkFiles \ BkDerived : platform'.home[l] = platform.home[l]
  <2>1. platform = [home |-> platform.home, data |-> platform.data]
        /\ DOMAIN platform.home = BkFiles
    BY BkParts DEF BkInv, PartsOf
  <2>2. platform' = [platform EXCEPT !.home = [platform.home EXCEPT ![k] = v]]
    BY <1>2
  <2> QED BY <2>1, <2>2, BkValues
<1>5. Bringing'
  <2>1. DOMAIN bk.wanted.home = BkFiles
    BY <1>1, RestoreAt
  <2>2. ~bk.disturbed => /\ CopiedOwn(platform'.home, bk.wanted.home)
                         /\ CopiedAll(platform'.data, bk.wanted.data)
    BY <1>1, <1>4, <2>1 DEF BkInv, Bringing, CopiedOwn, CopiedAll
  <2> QED BY <1>1, <2>2 DEF BkInv, Bringing, Saving, Replacing
<1> QED BY <1>1, <1>3, <1>5, ReplacingKept

LEMMA RepairKept == ASSUME BkInv, RepairRestored PROVE BkInv'
<1>1. /\ bk.pc \in Replacing /\ bk' = NoBkReq /\ (BkFault \/ BkWorks)
      /\ \/ platform' = platform
         \/ \E k \in BkDerived : platform' = [platform EXCEPT !.home[k] = Half]
      /\ UNCHANGED <<backups, archives, second, edits, saved>>
  BY DEF RepairRestored, Replacing, BkEnds
<1>2. platform' \in Contents
  BY <1>1, PartReplaced, BkValues DEF BkInv, BackupsTypeOK
<1> QED BY <1>1, <1>2, ReplacingKept

\* Of what users change nothing is said any more.
LEMMA EditKept == ASSUME BkInv, Edit PROVE BkInv'
<1>1. PICK v \in {edits + 1, NoBk} :
        \/ \E k \in BkFiles : platform' = [platform EXCEPT !.home[k] = v]
        \/ \E k \in BkStores : platform' = [platform EXCEPT !.data[k] = v]
  BY DEF Edit
<1>2. /\ BackupsTypeOK /\ edits \in 0..MaxEdits /\ edits < MaxEdits /\ edits' = edits + 1
      /\ bk' = [bk EXCEPT !.disturbed = bk.pc # "idle"]
      /\ saved' = IF bk.pc \in {"dump", "pack"} THEN [saved EXCEPT ![bk.row] = NoBk] ELSE saved
      /\ UNCHANGED <<backups, archives, second, bkFailures>>
  BY DEF Edit, BkInv, BackupsTypeOK, BkWorks
<1>3. v \in Versions \cup {NoBk}
  BY <1>2, BkValues
<1>4. platform' \in Contents
  <2>1. \A k \in BkFiles : [platform.home EXCEPT ![k] = v] \in PartsOf(BkFiles)
    BY <1>2, <1>3, BkParts DEF PartsOf
  <2>2. \A k \in BkStores : [platform.data EXCEPT ![k] = v] \in PartsOf(BkStores)
    BY <1>2, <1>3, BkParts DEF PartsOf
  <2>3. CASE \E k \in BkFiles : platform' = [platform EXCEPT !.home[k] = v]
    <3>1. PICK k \in BkFiles :
            platform' = [platform EXCEPT !.home = [platform.home EXCEPT ![k] = v]]
      BY <2>3
    <3> QED BY <1>2, <2>1, <3>1, BkParts DEF Contents, PartsOf
  <2>4. CASE \E k \in BkStores : platform' = [platform EXCEPT !.data[k] = v]
    <3>1. PICK k \in BkStores :
            platform' = [platform EXCEPT !.data = [platform.data EXCEPT ![k] = v]]
      BY <2>4
    <3> QED BY <1>2, <2>2, <3>1, BkParts DEF Contents, PartsOf
  <2> QED BY <1>1, <2>3, <2>4
<1>5. /\ bk' \in BkRequestStates /\ bk'.pc = bk.pc /\ bk'.op = bk.op /\ bk'.row = bk.row
      /\ bk'.from = bk.from /\ bk'.wanted = bk.wanted /\ bk'.held = bk.held /\ bk'.at = bk.at
      /\ bk'.disturbed = (bk.pc # "idle")
  BY <1>2 DEF BackupsTypeOK, BkRequestStates
<1>6. /\ saved' \in [BkRows -> Contents \cup {NoBk}]
      /\ \A i \in Recorded : saved'[i] \in {saved[i], NoBk}
      /\ bk.pc \in {"dump", "pack"} => saved'[bk.row] = NoBk
  <2>1. bk.pc \in {"dump", "pack"} => bk.row \in BkRows
    BY BkParts DEF BkInv, Packing
  <2>2. \A i \in Recorded : i \in BkRows
    BY DEF Recorded
  <2>3. CASE bk.pc \in {"dump", "pack"}
    BY <1>2, <2>1, <2>2, <2>3 DEF BackupsTypeOK
  <2>4. CASE bk.pc \notin {"dump", "pack"}
    BY <1>2, <2>4 DEF BackupsTypeOK
  <2> QED BY <2>3, <2>4
<1>7. BackupsTypeOK'
  <2>1. edits' \in 0..MaxEdits
    BY <1>2, BackupsAssumption
  <2> QED BY <1>2, <1>4, <1>5, <1>6, <2>1 DEF BackupsTypeOK
<1>8. Recorded' = Recorded /\ \A i \in Recorded : FileOf(i)' = FileOf(i)
  BY <1>2 DEF Recorded, FileOf
<1>9. NamedApart' /\ BackupsHold'
  BY <1>2, <1>6, <1>8 DEF BkInv, NamedApart, BackupsHold, FileOf
<1>10. Packing'
  BY <1>2, <1>5, <1>6, <1>8 DEF BkInv, Packing, AsSaved, Saving, FileOf
<1>11. Bringing'
  <2>1. bk.pc \in Replacing => bk'.disturbed
    BY <1>5 DEF Replacing
  <2> QED BY <1>2, <1>5, <1>8, <2>1 DEF BkInv, Bringing, Saving, Replacing, FileOf
<1> QED BY <1>7, <1>9, <1>10, <1>11 DEF BkInv

\* A panel that stops leaves everything as it was.
LEMMA CrashKept == ASSUME BkInv, BkCrash PROVE BkInv'
<1>1. bk' = NoBkReq /\ UNCHANGED <<platform, backups, archives, second, edits, saved>> /\ BkFault
  BY DEF BkCrash, BkEnds
<1>2. BackupsTypeOK'
  BY <1>1, BkValues, BackupsAssumption DEF BkInv, BackupsTypeOK, BkFault
<1> QED BY <1>1, <1>2, RowsStay, BkEnded DEF BkInv

\* Every step keeps the invariant.
LEMMA BackupsKeep ==
  ASSUME BkInv, ~BkSameSecond, [BackupsNext]_bkVars
  PROVE  BkInv'
<1>1. CASE BeginBackup
  BY <1>1, BeginKept DEF BeginBackup
<1>2. CASE BeginRestore
  <2>1. PICK i \in Recorded : /\ archives[FileOf(i)] # NoBk
                              /\ Begin("pre-restore", "restore", i, archives[FileOf(i)])
    BY <1>2 DEF BeginRestore
  <2>2. archives[FileOf(i)] \in Contents
    BY <2>1, BkParts DEF BkInv, BackupsTypeOK
  <2> QED BY <2>1, <2>2, BeginKept
<1>3. CASE RestoreRefused \/ UNCHANGED bkVars
  <2>1. UNCHANGED <<platform, backups, archives, bk, second, edits, bkFailures, saved>>
    BY <1>3 DEF RestoreRefused, bkVars
  <2>2. BackupsTypeOK'
    BY <2>1 DEF BkInv, BackupsTypeOK
  <2>3. Packing' /\ Bringing'
    BY <2>1 DEF BkInv, Packing, Bringing, AsSaved, FileOf, Recorded
  <2> QED BY <2>1, <2>2, <2>3, RowsStay DEF BkInv
<1>4. CASE DumpStores
  BY <1>4, DumpKept
<1>5. CASE PackHome
  BY <1>5, PackKept
<1>6. CASE CompleteBackup
  BY <1>6, CompleteKept
<1>7. CASE ExtractFile
  BY <1>7, ExtractKept
<1>8. CASE ReplayDump
  BY <1>8, ReplayKept
<1>9. CASE RepairRestored
  BY <1>9, RepairKept
<1>10. CASE Edit
  BY <1>10, EditKept
<1>11. CASE BkCrash
  BY <1>11, CrashKept
<1>12. CASE RemakeDerived
  BY <1>12, RemakeKept
<1> QED BY <1>1, <1>2, <1>3, <1>4, <1>5, <1>6, <1>7, <1>8, <1>9, <1>10, <1>11, <1>12
        DEF BackupsNext

\* No two backups in one second: a completed backup holds what the platform was, however
\* saving, restoring, changes by users, failures and crashes follow one another
\* (CreateBackup and RestoreBackup).
THEOREM BackupsHoldApart ==
  ASSUME ~BkSameSecond
  PROVE  BackupsSpec => []BackupsHold
<1>1. BkInv /\ [BackupsNext]_bkVars => BkInv'
  BY BackupsKeep
<1>2. BkInv => BackupsHold
  BY DEF BkInv
<1> QED BY BackupsInitially, <1>1, <1>2, PTL DEF BackupsSpec

\* Whether names are apart or not, what a request has in hand is there: an archive may be
\* written over but never goes.
BkInHand ==
  /\ bk.pc \in Saving => bk.row \in Recorded
  /\ bk.pc \in Saving /\ bk.op # "backup" =>
       bk.from \in Recorded /\ archives[FileOf(bk.from)] \in Contents
  /\ bk.pc \in {"pack", "extract", "replay"} => bk.held \in Contents
BkAnyhow == BackupsTypeOK /\ BkInHand

LEMMA BkHandIdle == ASSUME bk' = NoBkReq PROVE BkInHand'
BY BkValues DEF BkInHand, Saving

LEMMA BeginAnyhow ==
  ASSUME BkAnyhow, NEW sort, NEW op, NEW from, NEW wanted,
         sort \in {"manual", "pre-restore"}, Begin(sort, op, from, wanted),
         \/ op = "backup" /\ from = NoBk /\ wanted = NoBk
         \/ op = "restore" /\ from \in Recorded /\ wanted \in Contents
                /\ archives[FileOf(from)] = wanted
  PROVE  BkAnyhow'
<1>1. PICK i \in BkRows \ Recorded, file \in ArchiveName \cap BkRows :
        /\ backups' = [backups EXCEPT ![i] = [status |-> "running", kind |-> sort, file |-> file]]
        /\ second' = file /\ saved' = [saved EXCEPT ![i] = platform]
        /\ bk' = [NoBkReq EXCEPT !.pc = "dump", !.op = op, !.row = i, !.from = from,
                                 !.wanted = wanted]
  BY Zenon DEF Begin
<1>2. UNCHANGED <<platform, archives, edits, bkFailures>> /\ BackupsTypeOK
  BY DEF Begin, BkWorks, BkAnyhow
<1>3. bk' \in BkRequestStates
  BY <1>1, BkValues DEF BkRequestStates, Recorded
<1>4. [status |-> "running", kind |-> sort, file |-> file] \in BackupRow
  BY DEF BackupRow
<1>5. BackupsTypeOK'
  BY <1>1, <1>2, <1>3, <1>4 DEF BackupsTypeOK
<1>6. Recorded' = Recorded \cup {i} /\ \A j \in Recorded : backups'[j] = backups[j]
  <2>1. backups'[i] # NoBk
    BY <1>1, <1>2, <1>4, BackupsAssumption DEF BackupsTypeOK
  <2> QED BY <1>1, <1>2, <2>1 DEF BackupsTypeOK, Recorded
<1>7. bk'.pc = "dump" /\ bk'.op = op /\ bk'.row = i /\ bk'.from = from
  BY <1>1 DEF NoBkReq
<1>8. BkInHand'
  BY <1>2, <1>6, <1>7 DEF BkInHand, Saving, FileOf
<1> QED BY <1>5, <1>8 DEF BkAnyhow

\* The row of the request gets another status, and keeps its archive.
LEMMA StatusAnyhow ==
  ASSUME BackupsTypeOK, bk.row \in Recorded, NEW status \in {"running", "failed", "completed"},
         backups' = [backups EXCEPT ![bk.row].status = status]
  PROVE  /\ Recorded' = Recorded /\ backups' \in [BkRows -> BackupRow \cup {NoBk}]
         /\ \A i \in Recorded : backups'[i].file = backups[i].file
<1>1. bk.row \in BkRows /\ backups[bk.row] \in BackupRow
  BY BkParts
<1>2. /\ backups'[bk.row] = [backups[bk.row] EXCEPT !.status = status]
      /\ \A i \in BkRows \ {bk.row} : backups'[i] = backups[i]
  BY <1>1 DEF BackupsTypeOK
<1>3. /\ backups'[bk.row] \in BackupRow
      /\ backups'[bk.row].file = backups[bk.row].file /\ backups'[bk.row] # NoBk
  BY <1>1, <1>2, BackupsAssumption DEF BackupRow
<1>4. backups' \in [BkRows -> BackupRow \cup {NoBk}]
  BY <1>1, <1>2, <1>3 DEF BackupsTypeOK
<1>5. Recorded' = Recorded
  BY <1>1, <1>2, <1>3 DEF Recorded
<1> QED BY <1>2, <1>3, <1>4, <1>5 DEF Recorded

LEMMA FailsAnyhow ==
  ASSUME BkAnyhow, bk.pc \in Saving, BackupFails
  PROVE  BkAnyhow'
<1>1. BackupsTypeOK /\ bk.row \in Recorded
  BY DEF BkAnyhow, BkInHand
<1>2. PICK status \in {"failed", "running"} :
        backups' = [backups EXCEPT ![bk.row].status = status]
  BY DEF BackupFails
<1>3. backups' \in [BkRows -> BackupRow \cup {NoBk}]
  BY <1>1, <1>2, StatusAnyhow
<1>4. bk' = NoBkReq /\ bkFailures' \in 0..MaxBkFailures
      /\ UNCHANGED <<platform, archives, second, edits, saved>>
  BY <1>1, BkParts, BackupsAssumption DEF BackupFails, BkFault, BkEnds, BackupsTypeOK
<1>5. BackupsTypeOK'
  BY <1>1, <1>3, <1>4, BkValues DEF BackupsTypeOK
<1> QED BY <1>4, <1>5, BkHandIdle DEF BkAnyhow

\* A request goes on, or ends, over a platform that keeps its type.
LEMMA OnwardAnyhow ==
  ASSUME BkAnyhow, platform' \in Contents, BkFault \/ BkWorks,
         UNCHANGED <<backups, archives, second, edits, saved>>,
         \/ bk' = NoBkReq
         \/ bk' \in BkRequestStates /\ BkInHand'
  PROVE  BkAnyhow'
<1>1. bkFailures' \in 0..MaxBkFailures
  BY BkParts, BackupsAssumption DEF BkFault, BkWorks, BkAnyhow, BackupsTypeOK
<1>2. bk' \in BkRequestStates /\ BkInHand'
  BY BkValues, BkHandIdle
<1> QED BY <1>1, <1>2 DEF BkAnyhow, BackupsTypeOK

LEMMA DumpAnyhow == ASSUME BkAnyhow, DumpStores PROVE BkAnyhow'
<1>1. CASE BackupFails
  BY <1>1, FailsAnyhow DEF DumpStores, Saving
<1>2. CASE /\ bk' = [bk EXCEPT !.pc = "pack", !.held = platform]
           /\ BkWorks /\ UNCHANGED <<platform, backups, archives, second, edits, saved>>
  <2>1. bk.pc = "dump" /\ bk \in BkRequestStates /\ platform \in Contents
    BY DEF DumpStores, BkAnyhow, BackupsTypeOK
  <2>2. /\ bk' \in BkRequestStates /\ bk'.pc = "pack" /\ bk'.held = platform
        /\ bk'.op = bk.op /\ bk'.row = bk.row /\ bk'.from = bk.from
    BY <1>2, <2>1 DEF BkRequestStates
  <2>3. BkInHand'
    BY <1>2, <2>1, <2>2 DEF BkAnyhow, BkInHand, Saving, Recorded, FileOf
  <2> QED BY <1>2, <2>1, <2>2, <2>3, OnwardAnyhow
<1> QED BY <1>1, <1>2 DEF DumpStores

LEMMA PackAnyhow == ASSUME BkAnyhow, PackHome PROVE BkAnyhow'
<1>1. CASE BackupFails
  BY <1>1, FailsAnyhow DEF PackHome, Saving
<1>2. CASE /\ archives' = [archives EXCEPT ![FileOf(bk.row)] =
                            [home |-> platform.home, data |-> bk.held.data]]
           /\ bk' = [bk EXCEPT !.pc = "complete"]
           /\ BkWorks /\ UNCHANGED <<platform, backups, second, edits, saved>>
  <2> DEFINE own == FileOf(bk.row)
             packed == [home |-> platform.home, data |-> bk.held.data]
  <2>1. /\ BackupsTypeOK /\ bk.pc = "pack" /\ bk \in BkRequestStates /\ platform \in Contents
        /\ bk.held \in Contents /\ own \in BkRows
    BY BkParts DEF PackHome, BkAnyhow, BkInHand, BackupsTypeOK, Saving
  <2>2. /\ bk' \in BkRequestStates /\ bk'.pc = "complete"
        /\ bk'.op = bk.op /\ bk'.row = bk.row /\ bk'.from = bk.from
    BY <1>2, <2>1 DEF BkRequestStates
  <2>3. packed \in Contents
    BY <2>1 DEF Contents
  <2>4. archives' = [archives EXCEPT ![own] = packed]
    BY <1>2
  <2>5. BackupsTypeOK'
    BY <1>2, <2>1, <2>2, <2>3, <2>4 DEF BackupsTypeOK, BkWorks
  <2>6. /\ Recorded' = Recorded
        /\ \A i \in Recorded : FileOf(i)' = FileOf(i) /\ FileOf(i) \in BkRows
        /\ bk.row \in Recorded
        /\ bk.op # "backup" => bk.from \in Recorded /\ archives[FileOf(bk.from)] \in Contents
    BY <1>2, <2>1, BkParts DEF Recorded, FileOf, BkAnyhow, BkInHand, Saving
  <2>7. \A f \in BkRows : archives[f] \in Contents => archives'[f] \in Contents
    <3> HIDE DEF own, packed
    <3> QED BY <2>1, <2>3, <2>4 DEF BackupsTypeOK
  <2>8. bk.op # "backup" => archives'[FileOf(bk.from)'] \in Contents
    <3>1. bk'.from = bk.from /\ UNCHANGED backups
      BY <1>2, <2>2
    <3> QED BY <2>6, <2>7, <3>1 DEF FileOf
  <2>9. BkInHand'
    <3> HIDE DEF own, packed
    <3> QED BY <2>2, <2>6, <2>8 DEF BkInHand, Saving
  <2> QED BY <2>5, <2>9 DEF BkAnyhow
<1> QED BY <1>1, <1>2 DEF PackHome

LEMMA CompleteAnyhow == ASSUME BkAnyhow, CompleteBackup PROVE BkAnyhow'
<1>1. /\ BackupsTypeOK /\ bk.pc = "complete" /\ bk \in BkRequestStates /\ bk.row \in Recorded
      /\ UNCHANGED <<platform, archives, second, edits, saved>> /\ platform \in Contents
  BY DEF CompleteBackup, BkAnyhow, BkInHand, BackupsTypeOK, Saving
<1>2. CASE BkFault /\ BkEnds /\ UNCHANGED backups
  BY <1>1, <1>2, OnwardAnyhow DEF BkEnds
<1>3. CASE /\ backups' = [backups EXCEPT ![bk.row].status = "completed"]
           /\ IF bk.op = "backup" THEN BkEnds
              ELSE bk' = [bk EXCEPT !.pc = "extract", !.held = ChosenArchive]
           /\ BkWorks
  <2>1. backups' \in [BkRows -> BackupRow \cup {NoBk}]
    BY <1>1, <1>3, StatusAnyhow
  <2>2. CASE bk.op = "backup"
    <3>1. bk' = NoBkReq
      BY <1>3, <2>2 DEF BkEnds
    <3>2. BackupsTypeOK'
      BY <1>1, <1>3, <2>1, <3>1, BkValues DEF BackupsTypeOK, BkWorks
    <3> QED BY <3>1, <3>2, BkHandIdle DEF BkAnyhow
  <2>3. CASE bk.op # "backup"
    <3>1. ChosenArchive \in Contents
      BY <1>1, <2>3 DEF BkAnyhow, BkInHand, Saving, ChosenArchive
    <3>2. bk' = [bk EXCEPT !.pc = "extract", !.held = ChosenArchive]
      BY <1>3, <2>3
    <3>3. bk' \in BkRequestStates /\ bk'.pc = "extract" /\ bk'.held = ChosenArchive
      BY <1>1, <3>1, <3>2 DEF BkRequestStates
    <3>4. BackupsTypeOK'
      BY <1>1, <1>3, <2>1, <3>3 DEF BackupsTypeOK, BkWorks
    <3> QED BY <3>1, <3>3, <3>4 DEF BkAnyhow, BkInHand, Saving
  <2> QED BY <2>2, <2>3
<1> QED BY <1>2, <1>3 DEF CompleteBackup

LEMMA ExtractAnyhow == ASSUME BkAnyhow, ExtractFile PROVE BkAnyhow'
<1> DEFINE rest == Rest(bk.held.home)
           k    == Least(rest)
<1>1. /\ BackupsTypeOK /\ bk.pc = "extract" /\ bk \in BkRequestStates /\ bk.held \in Contents
      /\ platform \in Contents /\ UNCHANGED <<backups, archives, second, edits, saved>>
      /\ bk.held.home \in PartsOf(BkFiles) /\ BkFiles \subseteq Nat \ {0}
  BY BackupsAssumption
     DEF ExtractFile, BkAnyhow, BkInHand, BackupsTypeOK, Contents, PartsOf
<1>2. CASE rest = {} /\ bk' = [bk EXCEPT !.pc = "replay", !.at = 0] /\ BkWorks /\ UNCHANGED platform
  <2>1. bk' \in BkRequestStates /\ bk'.pc = "replay" /\ bk'.held = bk.held
    BY <1>1, <1>2 DEF BkRequestStates
  <2>2. BkInHand'
    BY <1>1, <2>1 DEF BkInHand, Saving
  <2> QED BY <1>1, <1>2, <2>1, <2>2, OnwardAnyhow
<1>3. CASE BkEnds /\ BkWorks /\ UNCHANGED platform
  BY <1>1, <1>3, OnwardAnyhow DEF BkEnds
<1>4. ASSUME rest # {}
      PROVE  k \in BkFiles /\ bk.held.home[k] \in Versions \cup {NoBk}
  <2>1. k \in BkFiles
    BY <1>1, <1>4, RestLeast
  <2> QED BY <1>1, <2>1 DEF PartsOf
<1>5. CASE /\ rest # {} /\ platform' = [platform EXCEPT !.home[k] = bk.held.home[k]]
           /\ bk' = [bk EXCEPT !.at = k] /\ BkWorks
  <2>1. bk' \in BkRequestStates /\ bk'.pc = "extract" /\ bk'.held = bk.held
    <3> HIDE DEF k, rest
    <3> QED BY <1>1, <1>4, <1>5 DEF BkRequestStates
  <2>2. BkInHand'
    BY <1>1, <2>1 DEF BkInHand, Saving
  <2>3. platform' \in Contents
    <3> HIDE DEF k, rest
    <3> QED BY <1>1, <1>4, <1>5, PartReplaced
  <2> QED BY <1>1, <1>5, <2>1, <2>2, <2>3, OnwardAnyhow
<1>6. CASE /\ rest # {} /\ platform' \in {platform, [platform EXCEPT !.home[k] = Half]}
           /\ BkFault /\ BkEnds
  <2>1. platform' \in Contents
    <3> HIDE DEF k, rest
    <3> QED BY <1>1, <1>4, <1>6, PartReplaced, BkValues
  <2> QED BY <1>1, <1>6, <2>1, OnwardAnyhow DEF BkEnds
<1> QED BY <1>2, <1>3, <1>5, <1>6 DEF ExtractFile

LEMMA ReplayAnyhow == ASSUME BkAnyhow, ReplayDump PROVE BkAnyhow'
<1> DEFINE rest == Rest(bk.held.data)
           k    == Least(rest)
<1>1. /\ BackupsTypeOK /\ bk.pc = "replay" /\ bk \in BkRequestStates /\ bk.held \in Contents
      /\ platform \in Contents /\ UNCHANGED <<backups, archives, second, edits, saved>>
      /\ bk.held.data \in PartsOf(BkStores) /\ BkStores \subseteq Nat \ {0}
  BY BackupsAssumption
     DEF ReplayDump, BkAnyhow, BkInHand, BackupsTypeOK, Contents, PartsOf
<1>2. CASE rest = {} /\ bk' = [bk EXCEPT !.pc = "repair"] /\ BkWorks /\ UNCHANGED platform
  <2>1. bk' \in BkRequestStates /\ bk'.pc = "repair"
    BY <1>1, <1>2 DEF BkRequestStates
  <2>2. BkInHand'
    BY <2>1 DEF BkInHand, Saving
  <2> QED BY <1>1, <1>2, <2>1, <2>2, OnwardAnyhow
<1>3. CASE BkEnds /\ BkWorks /\ UNCHANGED platform
  BY <1>1, <1>3, OnwardAnyhow DEF BkEnds
<1>4. ASSUME rest # {}
      PROVE  k \in BkStores /\ bk.held.data[k] \in Versions \cup {NoBk}
  <2>1. k \in BkStores
    BY <1>1, <1>4, RestLeast
  <2> QED BY <1>1, <2>1 DEF PartsOf
<1>5. CASE /\ rest # {} /\ platform' = [platform EXCEPT !.data[k] = bk.held.data[k]]
           /\ bk' = [bk EXCEPT !.at = k] /\ BkWorks
  <2>1. bk' \in BkRequestStates /\ bk'.pc = "replay" /\ bk'.held = bk.held
    <3> HIDE DEF k, rest
    <3> QED BY <1>1, <1>4, <1>5 DEF BkRequestStates
  <2>2. BkInHand'
    BY <1>1, <2>1 DEF BkInHand, Saving
  <2>3. platform' \in Contents
    <3> HIDE DEF k, rest
    <3> QED BY <1>1, <1>4, <1>5, PartReplaced
  <2> QED BY <1>1, <1>5, <2>1, <2>2, <2>3, OnwardAnyhow
<1>6. CASE /\ rest # {} /\ platform' \in {platform, [platform EXCEPT !.data[k] = Half]}
           /\ BkFault /\ BkEnds
  <2>1. platform' \in Contents
    <3> HIDE DEF k, rest
    <3> QED BY <1>1, <1>4, <1>6, PartReplaced, BkValues
  <2> QED BY <1>1, <1>6, <2>1, OnwardAnyhow DEF BkEnds
<1> QED BY <1>2, <1>3, <1>5, <1>6 DEF ReplayDump

LEMMA EditAnyhow == ASSUME BkAnyhow, Edit PROVE BkAnyhow'
<1>1. /\ BackupsTypeOK /\ bk \in BkRequestStates
      /\ UNCHANGED <<backups, archives, second, bkFailures>>
      /\ edits < MaxEdits /\ edits' = edits + 1 /\ edits \in 0..MaxEdits
      /\ bk' = [bk EXCEPT !.disturbed = bk.pc # "idle"]
  BY DEF BkAnyhow, BackupsTypeOK, Edit, BkWorks
<1>2. PICK v \in {edits + 1, NoBk} :
        \/ \E k \in BkFiles : platform' = [platform EXCEPT !.home[k] = v]
        \/ \E k \in BkStores : platform' = [platform EXCEPT !.data[k] = v]
  BY DEF Edit
<1>3. v \in Versions \cup {NoBk} /\ edits' \in 0..MaxEdits
  BY <1>1, <1>2, BkValues, BackupsAssumption
<1>4. platform' \in Contents
  BY <1>1, <1>2, <1>3, PartReplaced
<1>5. /\ bk' \in BkRequestStates /\ bk'.pc = bk.pc /\ bk'.op = bk.op /\ bk'.row = bk.row
      /\ bk'.from = bk.from /\ bk'.held = bk.held
  BY <1>1 DEF BkRequestStates
<1>6. saved' \in [BkRows -> Contents \cup {NoBk}]
  BY <1>1 DEF Edit, BackupsTypeOK
<1>7. BkInHand'
  BY <1>1, <1>5 DEF BkAnyhow, BkInHand, Saving, Recorded, FileOf
<1> QED BY <1>1, <1>3, <1>4, <1>5, <1>6, <1>7 DEF BkAnyhow, BackupsTypeOK

LEMMA BackupsStayTyped == BkAnyhow /\ [BackupsNext]_bkVars => BkAnyhow'
<1> SUFFICES ASSUME BkAnyhow, [BackupsNext]_bkVars PROVE BkAnyhow'
  OBVIOUS
<1>1. CASE BeginBackup
  BY <1>1, BeginAnyhow DEF BeginBackup
<1>2. CASE BeginRestore
  <2>1. PICK i \in Recorded : /\ archives[FileOf(i)] # NoBk
                              /\ Begin("pre-restore", "restore", i, archives[FileOf(i)])
    BY <1>2 DEF BeginRestore
  <2>2. archives[FileOf(i)] \in Contents
    BY <2>1, BkParts DEF BkAnyhow, BackupsTypeOK
  <2> QED BY <2>1, <2>2, BeginAnyhow
<1>3. CASE RestoreRefused \/ UNCHANGED bkVars
  BY <1>3 DEF RestoreRefused, bkVars, BkAnyhow, BackupsTypeOK, BkInHand, Recorded, FileOf
<1>4. CASE RepairRestored
  <2>1. platform' \in Contents
    BY <1>4, PartReplaced, BkValues DEF RepairRestored, BkAnyhow, BackupsTypeOK
  <2> QED BY <1>4, <2>1, OnwardAnyhow DEF RepairRestored, BkEnds
<1>5. CASE BkCrash
  BY <1>5, OnwardAnyhow DEF BkCrash, BkEnds, BkAnyhow, BackupsTypeOK
<1>6. CASE RemakeDerived
  <2>1. platform' \in Contents
    BY <1>6, PartReplaced, BkValues DEF RemakeDerived, BkAnyhow, BackupsTypeOK
  <2>2. bk' = bk /\ bk.pc = "repair" /\ bk \in BkRequestStates
    BY <1>6 DEF RemakeDerived, BkAnyhow, BackupsTypeOK
  <2>3. BkInHand'
    BY <2>2 DEF BkInHand, Saving
  <2> QED BY <1>6, <2>1, <2>2, <2>3, OnwardAnyhow DEF RemakeDerived
<1> QED BY <1>1, <1>2, <1>3, <1>4, <1>5, <1>6, DumpAnyhow, PackAnyhow, CompleteAnyhow, ExtractAnyhow,
           ReplayAnyhow, EditAnyhow DEF BackupsNext

\* Rows, archives and what a restore has in hand keep their types, whether archives share a
\* name or not, for any files, databases and failures (CreateBackup, RestoreBackup).
THEOREM BackupsTyped == BackupsSpec => []BackupsTypeOK
<1>1. BackupsInit => BkAnyhow
  BY BackupsInitially, BkValues DEF BackupsInit, BkInv, BkAnyhow, BkInHand, Saving
<1>2. BkAnyhow => BackupsTypeOK
  BY DEF BkAnyhow
<1> QED BY <1>1, <1>2, BackupsStayTyped, PTL DEF BackupsSpec

\* Only a restore that has come through ends undisturbed and without a failure.
LEMMA RestoreEnds ==
  ASSUME BkInv, BkLinks = {}, [BackupsNext]_bkVars, bk.op = "restore", bk'.pc = "idle",
         bkFailures' = bkFailures, ~bk.disturbed, Attached(bk.wanted)
  PROVE  Restored(bk.wanted, platform')
<1>1. bk.pc # "idle" /\ bkFailures \in Nat /\ bk \in BkRequestStates
  BY BkParts DEF BkInv, Packing
<1>2. ~BkFault
  BY <1>1 DEF BkFault
<1>3. bk' # bk
  BY <1>1
<1>4. CASE BeginBackup \/ BeginRestore \/ RestoreRefused
  BY <1>1, <1>4 DEF BeginBackup, BeginRestore, RestoreRefused, Begin
<1>5. CASE DumpStores \/ PackHome
  <2>1. bk'.pc \in {"pack", "complete"}
    BY <1>1, <1>2, <1>5 DEF DumpStores, PackHome, BackupFails, BkRequestStates
  <2> QED BY <2>1
<1>6. CASE CompleteBackup
  <2>1. bk' = [bk EXCEPT !.pc = "extract", !.held = ChosenArchive]
    BY <1>2, <1>6 DEF CompleteBackup
  <2> QED BY <1>1, <2>1 DEF BkRequestStates
<1>7. CASE ExtractFile
  <2> DEFINE rest == Rest(bk.held.home)
             k == Least(rest)
  <2>1. bk' = [bk EXCEPT !.pc = "replay", !.at = 0] \/ bk' = [bk EXCEPT !.at = k]
    BY <1>2, <1>7 DEF ExtractFile
  <2> HIDE DEF k, rest
  <2> QED BY <1>1, <2>1 DEF BkRequestStates
<1>8. CASE ReplayDump
  <2> DEFINE rest == Rest(bk.held.data)
             k == Least(rest)
  <2>1. rest # {} => platform.data[k] # NoBk
    <3>1. /\ bk.held = bk.wanted /\ bk.wanted.data \in PartsOf(BkStores)
          /\ BkStores \subseteq Nat \ {0}
      BY <1>8, RestoreAt DEF ReplayDump, Replacing
    <3>2. rest # {} => k \in rest /\ k \in BkStores
      <4>1. rest \in SUBSET Nat /\ rest \subseteq BkStores
        BY <3>1 DEF PartsOf, Rest
      <4> HIDE DEF rest
      <4> QED BY <4>1, LeastIs
    <3>3. rest # {} => bk.wanted.data[k] # NoBk
      <4> HIDE DEF k
      <4> QED BY <3>1, <3>2 DEF Rest
    <3> HIDE DEF k, rest
    <3> QED BY <3>2, <3>3 DEF Attached
  <2>2. bk' = [bk EXCEPT !.pc = "repair"] \/ bk' = [bk EXCEPT !.at = k]
    BY <1>2, <1>8, <2>1 DEF ReplayDump
  <2> HIDE DEF k, rest
  <2> QED BY <1>1, <2>2 DEF BkRequestStates
<1>9. CASE RepairRestored
  <2>1. CopiedOwn(platform.home, bk.wanted.home) /\ CopiedAll(platform.data, bk.wanted.data)
    BY <1>9 DEF RepairRestored, BkInv, Bringing
  <2>2. DOMAIN bk.wanted.home = BkFiles /\ DOMAIN bk.wanted.data = BkStores
    BY <1>9, RestoreAt DEF RepairRestored, Replacing
  <2>3. platform' = platform
    BY <1>2, <1>9 DEF RepairRestored
  <2> QED BY <2>1, <2>2, <2>3 DEF Restored, CopiedAll, CopiedOwn
<1>10. CASE Edit
  BY <1>1, <1>10 DEF Edit, BkRequestStates
<1>11. CASE BkCrash
  BY <1>2, <1>11 DEF BkCrash
<1>12. CASE UNCHANGED bkVars \/ RemakeDerived
  BY <1>3, <1>12 DEF bkVars, RemakeDerived
<1> QED BY <1>4, <1>5, <1>6, <1>7, <1>8, <1>9, <1>10, <1>11, <1>12 DEF BackupsNext

\* A platform without absolute links, no two backups in one second: a restore in which
\* nothing fails brings back every database of the backup and every file but those the panel
\* derives, and the repair at its end, over however many derived files, leaves them
\* (RestoreBackup, RepairPlatform).
THEOREM RestoreBringsApart ==
  ASSUME ~BkSameSecond, BkLinks = {}
  PROVE  BackupsSpec => RestoreBrings
<1> DEFINE Ends == bk.op = "restore" /\ bk'.pc = "idle" /\ bkFailures' = bkFailures
                     /\ ~bk.disturbed /\ Attached(bk.wanted) => Restored(bk.wanted, platform')
<1>1. BkInv /\ [BackupsNext]_bkVars => BkInv'
  BY BackupsKeep
<1>2. BkInv /\ [BackupsNext]_bkVars => [Ends]_bkVars
  BY RestoreEnds
<1> QED BY BackupsInitially, <1>1, <1>2, PTL DEF BackupsSpec, RestoreBrings

-----------------------------------------------------------------------------
(* The backups implement EarlierStates.  An archive that a completed row    *)
(* names is there and is not replaced, and the row a restore has chosen is  *)
(* such a row until it ends.                                                *)
ChoiceKept ==
  /\ \A i \in BkRows \ Recorded : saved[i] = NoBk
  /\ \A i \in Recorded : backups[i].status = "completed" => archives[FileOf(i)] # NoBk
  /\ bk.pc = "complete" => archives[FileOf(bk.row)] # NoBk
  /\ bk.op = "restore" => /\ bk.from \in Recorded /\ backups[bk.from].status = "completed"
                          /\ archives[FileOf(bk.from)] = bk.wanted
StatesInv == BkInv /\ ChoiceKept

LEMMA StatesAt ==
  \A i \in BkRows : CompletedStates[i] = IF i \in Recorded /\ backups[i].status = "completed"
                                         THEN archives[FileOf(i)] ELSE NoBk
BY DEF CompletedStates

LEMMA StatesSame ==
  ASSUME UNCHANGED <<backups, archives>>
  PROVE  CompletedStates' = CompletedStates
BY DEF CompletedStates, Recorded, FileOf

\* A row that is not completed before or after a step, and the archive of its name, may change.
LEMMA StatesStill ==
  ASSUME NEW row \in BkRows,
         ~(row \in Recorded /\ backups[row].status = "completed"),
         ~(row \in Recorded /\ backups[row].status = "completed")',
         \A i \in BkRows \ {row} :
           /\ backups'[i] = backups[i]
           /\ i \in Recorded => archives'[FileOf(i)] = archives[FileOf(i)]
  PROVE  CompletedStates' = CompletedStates
<1>1. \A i \in BkRows \ {row} : (i \in Recorded)' <=> i \in Recorded
  BY DEF Recorded
<1>2. \A i \in BkRows \ {row} : FileOf(i)' = FileOf(i)
  BY DEF FileOf
<1> QED BY <1>1, <1>2 DEF CompletedStates, FileOf

\* The row in hand while a backup is saved is its own.
LEMMA InHand ==
  ASSUME StatesInv, bk.pc \in Saving
  PROVE  /\ bk.row \in Recorded /\ bk.row \in BkRows /\ backups[bk.row].status = "running"
         /\ backups[bk.row] \in BackupRow /\ backups[bk.row] # NoBk
         /\ CompletedStates[bk.row] = NoBk /\ BringingBack = NoBk
         /\ bk.op = "restore" => bk.from # bk.row
         /\ \A i \in BkRows \ {bk.row} : i \in Recorded => FileOf(i) # FileOf(bk.row)
<1>1. bk.pc # "idle" /\ bk.pc \notin {"extract", "replay", "repair"}
  BY DEF Saving
<1>2. /\ bk.row \in Recorded /\ bk.row \in BkRows /\ backups[bk.row].status = "running"
      /\ backups[bk.row] \in BackupRow /\ backups[bk.row] # NoBk
  BY <1>1, BkParts DEF StatesInv, BkInv, Packing, Recorded
<1>3. \A i \in BkRows \ {bk.row} : i \in Recorded => FileOf(i) # FileOf(bk.row)
  BY <1>2 DEF StatesInv, BkInv, NamedApart, FileOf
<1>4. bk.op = "restore" => bk.from # bk.row
  BY <1>2 DEF StatesInv, BkInv, Bringing
<1> QED BY <1>1, <1>2, <1>3, <1>4, StatesAt DEF BringingBack

LEMMA PromiseBegins ==
  ASSUME BackupsInit
  PROVE  ChoiceKept /\ BackupPromise!Init
<1>1. Recorded = {} /\ \A i \in BkRows : saved[i] = NoBk
  BY DEF BackupsInit, Recorded
<1>2. bk.pc = "idle" /\ bk.op = "none"
  BY BkValues DEF BackupsInit
<1>3. CompletedStates = [i \in BkRows |-> NoBk] /\ BringingBack = NoBk
  BY <1>1, <1>2 DEF CompletedStates, BringingBack
<1>4. ChoiceKept
  BY <1>1, <1>2 DEF ChoiceKept
<1> QED BY <1>3, <1>4 DEF BackupsInit, BackupPromise!Init

LEMMA BeginMaps ==
  ASSUME StatesInv, ~BkSameSecond, NEW sort, NEW op, NEW from, NEW wanted,
         sort \in {"manual", "pre-restore"}, Begin(sort, op, from, wanted),
         \/ op = "backup"
         \/ op = "restore" /\ from \in Recorded /\ backups[from].status = "completed"
                /\ archives[FileOf(from)] = wanted
  PROVE  ChoiceKept' /\ BackupPromise!Begin
<1>1. PICK i \in BkRows \ Recorded, file \in ArchiveName \cap BkRows :
        /\ backups' = [backups EXCEPT ![i] = [status |-> "running", kind |-> sort, file |-> file]]
        /\ second' = file /\ saved' = [saved EXCEPT ![i] = platform]
        /\ bk' = [NoBkReq EXCEPT !.pc = "dump", !.op = op, !.row = i, !.from = from,
                                 !.wanted = wanted]
  BY Zenon DEF Begin
<1>2. /\ bk'.pc = "dump" /\ bk'.op = op /\ bk'.from = from /\ bk'.wanted = wanted
      /\ bk.pc = "idle" /\ UNCHANGED <<platform, archives>>
  BY <1>1 DEF NoBkReq, Begin
<1>3. /\ backups \in [BkRows -> BackupRow \cup {NoBk}] /\ saved \in [BkRows -> Contents \cup {NoBk}]
      /\ [status |-> "running", kind |-> sort, file |-> file] \in BackupRow
  BY <1>1 DEF StatesInv, BkInv, BackupsTypeOK, BackupRow
<1>4. /\ backups'[i].status = "running" /\ backups'[i] # NoBk
      /\ \A j \in BkRows \ {i} : backups'[j] = backups[j] /\ saved'[j] = saved[j]
  BY <1>1, <1>3, BackupsAssumption
<1>5. Recorded' = Recorded \cup {i}
  BY <1>1, <1>4 DEF Recorded
<1>6. \A j \in Recorded : FileOf(j)' = FileOf(j) /\ backups'[j] = backups[j] /\ j \in BkRows
  BY <1>1, <1>4 DEF FileOf, Recorded
<1>7. CompletedStates' = CompletedStates /\ CompletedStates[i] = NoBk
  BY <1>1, <1>2, <1>4, StatesStill, StatesAt
<1>8. BringingBack = NoBk /\ BringingBack' = NoBk
  BY <1>1, <1>2 DEF BringingBack
<1>9. ChoiceKept'
  BY <1>1, <1>2, <1>4, <1>5, <1>6 DEF StatesInv, ChoiceKept
<1>10. saved[i] = NoBk
  BY <1>1 DEF StatesInv, ChoiceKept
<1> QED BY <1>1, <1>2, <1>7, <1>8, <1>9, <1>10 DEF BackupPromise!Begin

\* A backup that fails leaves a row that is not completed.
LEMMA FailureMaps ==
  ASSUME StatesInv, bk.pc \in Saving, BackupFails, UNCHANGED <<platform, archives>>
  PROVE  ChoiceKept' /\ UNCHANGED BackupPromise!vars
<1>1. PICK status \in {"failed", "running"} :
        backups' = [backups EXCEPT ![bk.row].status = status]
  BY DEF BackupFails
<1>2. /\ bk'.pc = "idle" /\ bk'.op = "none" /\ UNCHANGED saved
  BY BkValues DEF BackupFails, BkEnds
<1>3. backups \in [BkRows -> BackupRow \cup {NoBk}]
  BY DEF StatesInv, BkInv, BackupsTypeOK
<1>4. /\ backups'[bk.row] = [backups[bk.row] EXCEPT !.status = status]
      /\ \A j \in BkRows \ {bk.row} : backups'[j] = backups[j]
  BY <1>1, <1>3, InHand
<1>5. backups'[bk.row].status # "completed" /\ backups'[bk.row] # NoBk
      /\ backups'[bk.row].file = backups[bk.row].file
  BY <1>4, InHand, BackupsAssumption DEF BackupRow
<1>6. Recorded' = Recorded
  BY <1>4, <1>5, InHand DEF Recorded
<1>7. \A j \in Recorded : FileOf(j)' = FileOf(j) /\ j \in BkRows
  BY <1>4, <1>5 DEF FileOf, Recorded
<1>8. CompletedStates' = CompletedStates
  BY <1>4, <1>5, InHand, StatesStill
<1>9. BringingBack' = BringingBack
  BY <1>2, InHand DEF BringingBack
<1>10. ChoiceKept'
  <2>1. \A i \in Recorded : backups'[i].status = "completed" =>
          backups[i].status = "completed" /\ FileOf(i)' = FileOf(i)
    BY <1>4, <1>5, <1>7
  <2>2. \A i \in Recorded : backups'[i].status = "completed" => archives'[FileOf(i)'] # NoBk
    BY <2>1 DEF StatesInv, ChoiceKept
  <2> QED BY <1>2, <1>6, <2>2 DEF StatesInv, ChoiceKept
<1> QED BY <1>2, <1>8, <1>9, <1>10 DEF BackupPromise!vars

LEMMA DumpMaps ==
  ASSUME StatesInv, DumpStores
  PROVE  ChoiceKept' /\ UNCHANGED BackupPromise!vars
<1>1. bk.pc = "dump" /\ bk.pc \in Saving
  BY DEF DumpStores, Saving
<1>2. CASE /\ bk' = [bk EXCEPT !.pc = "pack", !.held = platform]
           /\ UNCHANGED <<platform, backups, archives, saved>>
  <2>1. bk'.pc = "pack" /\ bk'.op = bk.op /\ bk'.from = bk.from /\ bk'.wanted = bk.wanted
    BY <1>2, BkParts DEF StatesInv, BkInv, BkRequestStates
  <2>2. BringingBack' = BringingBack
    BY <1>1, <2>1 DEF BringingBack
  <2>3. ChoiceKept'
    BY <1>2, <2>1 DEF StatesInv, ChoiceKept, Recorded, FileOf
  <2> QED BY <1>2, <2>2, <2>3, StatesSame DEF BackupPromise!vars
<1>3. CASE BackupFails /\ UNCHANGED <<platform, archives>>
  BY <1>1, <1>3, FailureMaps
<1> QED BY <1>2, <1>3 DEF DumpStores, BackupFails

LEMMA PackMaps ==
  ASSUME StatesInv, PackHome
  PROVE  ChoiceKept' /\ UNCHANGED BackupPromise!vars
<1>1. bk.pc = "pack" /\ bk.pc \in Saving
  BY DEF PackHome, Saving
<1> DEFINE packed == [home |-> platform.home, data |-> bk.held.data]
<1>2. CASE /\ archives' = [archives EXCEPT ![FileOf(bk.row)] = packed]
           /\ bk' = [bk EXCEPT !.pc = "complete"]
           /\ UNCHANGED <<platform, backups, saved>>
  <2>1. /\ bk'.pc = "complete" /\ bk'.op = bk.op /\ bk'.from = bk.from /\ bk'.wanted = bk.wanted
        /\ bk'.row = bk.row
    BY <1>2, BkParts DEF StatesInv, BkInv, BkRequestStates
  <2>2. archives \in [BkRows -> Contents \cup {NoBk}] /\ FileOf(bk.row) \in BkRows
    BY InHand, <1>1, BkParts DEF StatesInv, BkInv, BackupsTypeOK
  <2>3. packed \in Contents
    BY <1>1, BkParts DEF StatesInv, BkInv, Packing, Contents, PartsOf
  <2>4. archives'[FileOf(bk.row)] # NoBk
    BY <1>2, <2>2, <2>3, BkValues
  <2>5. \A i \in BkRows \ {bk.row} : i \in Recorded => archives'[FileOf(i)] = archives[FileOf(i)]
    BY <1>1, <1>2, <2>2, InHand
  <2>6. Recorded' = Recorded /\ \A i \in BkRows : FileOf(i)' = FileOf(i)
    BY <1>2 DEF Recorded, FileOf
  <2>7. CompletedStates' = CompletedStates
    BY <1>1, <1>2, <2>5, InHand, StatesStill
  <2>8. BringingBack' = BringingBack
    BY <1>1, <2>1 DEF BringingBack
  <2>9. \A i \in Recorded : i \in BkRows
    BY DEF Recorded
  <2>10. ChoiceKept'
    BY <1>1, <1>2, <2>1, <2>4, <2>5, <2>6, <2>9, InHand DEF StatesInv, ChoiceKept
  <2> QED BY <1>2, <2>7, <2>8, <2>10 DEF BackupPromise!vars
<1>3. CASE BackupFails /\ UNCHANGED <<platform, archives>>
  BY <1>1, <1>3, FailureMaps
<1> QED BY <1>2, <1>3 DEF PackHome, BackupFails

LEMMA CompleteMaps ==
  ASSUME StatesInv, CompleteBackup
  PROVE  /\ ChoiceKept'
         /\ BackupPromise!Keep \/ BackupPromise!Restore \/ UNCHANGED BackupPromise!vars
<1>1. /\ bk.pc = "complete" /\ bk.pc \in Saving
      /\ UNCHANGED <<platform, archives, saved>>
  BY DEF CompleteBackup, Saving
<1> DEFINE state == archives[FileOf(bk.row)]
<1>2. /\ state \in Contents /\ state # NoBk
      /\ saved[bk.row] # NoBk => state = saved[bk.row]
  <2>1. archives \in [BkRows -> Contents \cup {NoBk}] /\ FileOf(bk.row) \in BkRows
    BY InHand, <1>1, BkParts DEF StatesInv, BkInv, BackupsTypeOK
  <2> QED BY <1>1, <2>1 DEF StatesInv, BkInv, Packing, AsSaved, ChoiceKept
<1>3. CASE backups' = [backups EXCEPT ![bk.row].status = "completed"]
  <2>1. backups \in [BkRows -> BackupRow \cup {NoBk}]
    BY DEF StatesInv, BkInv, BackupsTypeOK
  <2>2. /\ backups'[bk.row] = [backups[bk.row] EXCEPT !.status = "completed"]
        /\ \A j \in BkRows \ {bk.row} : backups'[j] = backups[j]
    BY <1>1, <1>3, <2>1, InHand
  <2>3. /\ backups'[bk.row].status = "completed" /\ backups'[bk.row] # NoBk
        /\ backups'[bk.row].file = backups[bk.row].file
    BY <1>1, <2>2, InHand, BackupsAssumption DEF BackupRow
  <2>4. Recorded' = Recorded /\ \A i \in Recorded : i \in BkRows
    BY <1>1, <2>2, <2>3, InHand DEF Recorded
  <2>5. \A i \in BkRows : FileOf(i)' = FileOf(i)
    BY <2>2, <2>3 DEF FileOf
  <2>6. CompletedStates' = [CompletedStates EXCEPT ![bk.row] = state]
    BY <1>1, <2>2, <2>3, <2>4, <2>5, InHand DEF CompletedStates
  <2>7. CASE bk.op = "backup" /\ bk' = NoBkReq
    <3>1. bk'.pc = "idle" /\ bk'.op = "none"
      BY <2>7, BkValues
    <3>2. BringingBack = NoBk /\ BringingBack' = NoBk
      BY <1>1, <3>1, InHand DEF BringingBack
    <3>3. ChoiceKept'
      BY <1>1, <1>2, <2>2, <2>3, <2>4, <2>5, <3>1 DEF StatesInv, ChoiceKept
    <3> QED BY <1>1, <1>2, <2>6, <3>2, <3>3, InHand DEF BackupPromise!Keep, BackupPromise!Kept
  <2>8. CASE bk.op = "restore" /\ bk' = [bk EXCEPT !.pc = "extract", !.held = ChosenArchive]
    <3>1. /\ bk'.pc = "extract" /\ bk'.op = "restore" /\ bk'.from = bk.from
          /\ bk'.wanted = bk.wanted
      BY <2>8, BkParts DEF StatesInv, BkInv, BkRequestStates
    <3>2. BringingBack = NoBk /\ BringingBack' = bk.from
      BY <1>1, <3>1, InHand DEF BringingBack
    <3>3. /\ bk.from \in Recorded /\ bk.from # bk.row /\ bk.from \in BkRows
          /\ backups[bk.from].status = "completed" /\ archives[FileOf(bk.from)] # NoBk
      BY <1>1, <2>4, <2>8, InHand DEF StatesInv, ChoiceKept
    <3>4. CompletedStates[bk.from] # NoBk
      BY <3>3, StatesAt
    <3>5. \A i \in Recorded : backups'[i].status = "completed" => archives'[FileOf(i)'] # NoBk
      BY <1>1, <1>2, <2>2, <2>4, <2>5 DEF StatesInv, ChoiceKept
    <3>6. /\ bk'.from \in Recorded' /\ backups'[bk'.from].status = "completed"
          /\ archives'[backups'[bk'.from].file] = bk'.wanted
      BY <1>1, <2>2, <2>4, <2>8, <3>1, <3>3 DEF StatesInv, ChoiceKept, FileOf
    <3>7. ChoiceKept'
      BY <1>1, <2>4, <3>1, <3>5, <3>6 DEF StatesInv, ChoiceKept, FileOf
    <3> QED BY <1>1, <1>2, <2>6, <3>2, <3>3, <3>4, <3>7, InHand
            DEF BackupPromise!Restore, BackupPromise!Kept
  <2>9. bk.op \in {"backup", "restore"}
    BY <1>1, BkParts DEF StatesInv, BkInv, Packing, BkRequestStates
  <2>10. /\ bk.op = "backup" => bk' = NoBkReq
         /\ bk.op # "backup" => bk' = [bk EXCEPT !.pc = "extract", !.held = ChosenArchive]
    <3>1. backups' # backups
      BY <2>2, <2>3, <1>1, InHand
    <3> QED BY <3>1 DEF CompleteBackup, BkEnds
  <2> QED BY <2>7, <2>8, <2>9, <2>10
<1>4. CASE bk' = NoBkReq /\ UNCHANGED backups
  <2>1. bk'.pc = "idle" /\ bk'.op = "none"
    BY <1>4, BkValues
  <2>2. BringingBack' = BringingBack
    BY <1>1, <2>1, InHand DEF BringingBack
  <2>3. ChoiceKept'
    BY <1>1, <1>4, <2>1 DEF StatesInv, ChoiceKept, Recorded, FileOf
  <2> QED BY <1>1, <1>4, <2>2, <2>3, StatesSame DEF BackupPromise!vars
<1> QED BY <1>3, <1>4 DEF CompleteBackup, BkEnds, BkFault

\* What a restore has in hand is the state it has chosen.
LEMMA BroughtBack ==
  ASSUME StatesInv, bk.pc \in Replacing
  PROVE  /\ BringingBack = bk.from /\ bk.from \in BkRows /\ bk.from # NoBk
         /\ CompletedStates[bk.from] = bk.held /\ bk.held \in Contents
         /\ bk.op = "restore" /\ bk.pc # "idle" /\ bk.pc \notin Saving /\ bk.pc # "complete"
<1>1. bk.pc \in {"extract", "replay", "repair"}
  BY DEF Replacing
<1>2. bk.op = "restore" /\ bk.held = bk.wanted /\ bk.wanted \in Contents
  BY DEF StatesInv, BkInv, Bringing
<1>3. bk.from \in Recorded /\ backups[bk.from].status = "completed"
      /\ archives[FileOf(bk.from)] = bk.wanted
  BY <1>2 DEF StatesInv, ChoiceKept
<1>4. bk.from \in BkRows /\ bk.from # NoBk
  BY <1>3, BkParts, BkValues DEF StatesInv, BkInv
<1> QED BY <1>1, <1>2, <1>3, <1>4, StatesAt DEF BringingBack, Saving

\* A step of a restore leaves the rows and archives, and brings on or ends what it has chosen.
LEMMA RestoreStill ==
  ASSUME StatesInv, bk.pc \in Replacing, UNCHANGED <<backups, archives, saved>>,
         \/ bk' = NoBkReq
         \/ bk'.pc \in Replacing /\ bk'.op = bk.op /\ bk'.from = bk.from /\ bk'.wanted = bk.wanted
  PROVE  /\ ChoiceKept' /\ CompletedStates' = CompletedStates
         /\ BringingBack' = IF bk' = NoBkReq THEN NoBk ELSE BringingBack
<1>1. CASE bk' = NoBkReq
  <2>1. bk'.pc = "idle" /\ bk'.op = "none"
    BY <1>1, BkValues
  <2>2. ChoiceKept'
    BY <2>1 DEF StatesInv, ChoiceKept, Recorded, FileOf
  <2> QED BY <1>1, <2>1, <2>2, StatesSame DEF BringingBack
<1>2. CASE bk' # NoBkReq
  <2>1. bk'.pc \in Replacing /\ bk'.op = bk.op /\ bk'.from = bk.from /\ bk'.wanted = bk.wanted
    BY <1>2
  <2>2. ChoiceKept'
    BY <2>1 DEF StatesInv, ChoiceKept, Recorded, FileOf, Replacing
  <2> QED BY <1>2, <2>1, <2>2, StatesSame DEF BringingBack, Replacing
<1> QED BY <1>1, <1>2

LEMMA ExtractMaps ==
  ASSUME StatesInv, ExtractFile
  PROVE  /\ ChoiceKept'
         /\ BackupPromise!BringBack \/ BackupPromise!Stop \/ UNCHANGED BackupPromise!vars
<1>1. /\ bk.pc = "extract" /\ bk.pc \in Replacing
      /\ UNCHANGED <<backups, archives, saved>>
  BY DEF ExtractFile, Replacing
<1>a. bk \in BkRequestStates
  BY DEF StatesInv, BkInv, BackupsTypeOK
<1>2. PICK rest, k : rest = Rest(bk.held.home) /\ k = Least(rest)
  OBVIOUS
<1>3. CASE rest = {} /\ bk' = [bk EXCEPT !.pc = "replay", !.at = 0] /\ UNCHANGED platform
  <2>1. /\ bk'.pc \in Replacing /\ bk'.op = bk.op /\ bk'.from = bk.from /\ bk'.wanted = bk.wanted
        /\ bk' # NoBkReq
    BY <1>3, <1>a, BkValues DEF BkRequestStates, Replacing
  <2> QED BY <1>1, <1>3, <2>1, RestoreStill DEF BackupPromise!vars
<1>4. CASE bk' = NoBkReq /\ UNCHANGED platform
  <2>1. ChoiceKept' /\ CompletedStates' = CompletedStates /\ BringingBack' = NoBk
    BY <1>1, <1>4, RestoreStill
  <2> QED BY <1>1, <1>4, <2>1, BroughtBack DEF BackupPromise!Stop
<1>5. rest # {} => k \in BkFiles /\ bk.held.home[k] # NoBk
  <2>1. /\ bk.held.home \in PartsOf(BkFiles) /\ bk.at \in Nat
        /\ BkFiles \subseteq Nat \ {0}
    BY <1>1, BroughtBack, BkParts, BackupsAssumption DEF StatesInv, BkInv, Contents, PartsOf
  <2>2. rest \in SUBSET Nat /\ \A m \in rest : m \in BkFiles /\ bk.held.home[m] # NoBk
    BY <1>2, <2>1 DEF Rest, PartsOf
  <2> QED BY <1>2, <2>2, LeastIs
<1>6. CASE /\ rest # {} /\ platform' = [platform EXCEPT !.home[k] = bk.held.home[k]]
           /\ bk' = [bk EXCEPT !.at = k]
  <2>1. /\ bk'.pc \in Replacing /\ bk'.op = bk.op /\ bk'.from = bk.from /\ bk'.wanted = bk.wanted
        /\ bk' # NoBkReq
    BY <1>1, <1>6, <1>a, BkValues DEF BkRequestStates, Replacing
  <2>2. ChoiceKept' /\ CompletedStates' = CompletedStates /\ BringingBack' = BringingBack
    BY <1>1, <2>1, RestoreStill
  <2> QED BY <1>1, <1>5, <1>6, <2>2, BroughtBack DEF BackupPromise!BringBack
<1>7. CASE /\ rest # {} /\ platform' = [platform EXCEPT !.home[k] = Half]
           /\ bk' = NoBkReq
  <2>1. ChoiceKept' /\ CompletedStates' = CompletedStates /\ BringingBack' = NoBk
    BY <1>1, <1>7, RestoreStill
  <2> QED BY <1>1, <1>5, <1>7, <2>1, BroughtBack DEF BackupPromise!Stop
<1> QED BY <1>2, <1>3, <1>4, <1>6, <1>7 DEF ExtractFile, BkEnds

LEMMA ReplayMaps ==
  ASSUME StatesInv, ReplayDump
  PROVE  /\ ChoiceKept'
         /\ BackupPromise!BringBack \/ BackupPromise!Stop \/ UNCHANGED BackupPromise!vars
<1>1. /\ bk.pc = "replay" /\ bk.pc \in Replacing
      /\ UNCHANGED <<backups, archives, saved>>
  BY DEF ReplayDump, Replacing
<1>a. bk \in BkRequestStates
  BY DEF StatesInv, BkInv, BackupsTypeOK
<1>2. PICK rest, k : rest = Rest(bk.held.data) /\ k = Least(rest)
  OBVIOUS
<1>3. CASE rest = {} /\ bk' = [bk EXCEPT !.pc = "repair"] /\ UNCHANGED platform
  <2>1. /\ bk'.pc \in Replacing /\ bk'.op = bk.op /\ bk'.from = bk.from /\ bk'.wanted = bk.wanted
        /\ bk' # NoBkReq
    BY <1>3, <1>a, BkValues DEF BkRequestStates, Replacing
  <2> QED BY <1>1, <1>3, <2>1, RestoreStill DEF BackupPromise!vars
<1>4. CASE bk' = NoBkReq /\ UNCHANGED platform
  <2>1. ChoiceKept' /\ CompletedStates' = CompletedStates /\ BringingBack' = NoBk
    BY <1>1, <1>4, RestoreStill
  <2> QED BY <1>1, <1>4, <2>1, BroughtBack DEF BackupPromise!Stop
<1>5. rest # {} => k \in BkStores /\ bk.held.data[k] # NoBk
  <2>1. /\ bk.held.data \in PartsOf(BkStores) /\ bk.at \in Nat
        /\ BkStores \subseteq Nat \ {0}
    BY <1>1, BroughtBack, BkParts, BackupsAssumption DEF StatesInv, BkInv, Contents, PartsOf
  <2>2. rest \in SUBSET Nat /\ \A m \in rest : m \in BkStores /\ bk.held.data[m] # NoBk
    BY <1>2, <2>1 DEF Rest, PartsOf
  <2> QED BY <1>2, <2>2, LeastIs
<1>6. CASE /\ rest # {} /\ platform.data[k] # NoBk
           /\ platform' = [platform EXCEPT !.data[k] = bk.held.data[k]]
           /\ bk' = [bk EXCEPT !.at = k]
  <2>1. /\ bk'.pc \in Replacing /\ bk'.op = bk.op /\ bk'.from = bk.from /\ bk'.wanted = bk.wanted
        /\ bk' # NoBkReq
    BY <1>1, <1>6, <1>a, BkValues DEF BkRequestStates, Replacing
  <2>2. ChoiceKept' /\ CompletedStates' = CompletedStates /\ BringingBack' = BringingBack
    BY <1>1, <2>1, RestoreStill
  <2> QED BY <1>1, <1>5, <1>6, <2>2, BroughtBack DEF BackupPromise!BringBack
<1>7. CASE /\ rest # {} /\ platform.data[k] # NoBk
           /\ platform' = [platform EXCEPT !.data[k] = Half]
           /\ bk' = NoBkReq
  <2>1. ChoiceKept' /\ CompletedStates' = CompletedStates /\ BringingBack' = NoBk
    BY <1>1, <1>7, RestoreStill
  <2> QED BY <1>1, <1>5, <1>7, <2>1, BroughtBack DEF BackupPromise!Stop
<1> QED BY <1>2, <1>3, <1>4, <1>6, <1>7 DEF ReplayDump, BkEnds

LEMMA RemakeMaps ==
  ASSUME StatesInv, RemakeDerived
  PROVE  ChoiceKept' /\ BackupPromise!Remake
<1>1. /\ bk.pc \in Replacing /\ bk' = bk /\ UNCHANGED <<backups, archives, saved>>
      /\ \E k \in BkDerived, v \in Versions \cup {NoBk} :
           platform' = [platform EXCEPT !.home[k] = v]
  BY BkValues DEF RemakeDerived, Replacing
<1>2. ChoiceKept' /\ CompletedStates' = CompletedStates /\ BringingBack' = BringingBack
  <2>1. bk # NoBkReq
    BY <1>1, BkValues DEF Replacing
  <2> QED BY <1>1, <2>1, RestoreStill
<1> QED BY <1>1, <1>2, BroughtBack DEF BackupPromise!Remake

LEMMA RepairMaps ==
  ASSUME StatesInv, RepairRestored
  PROVE  ChoiceKept' /\ BackupPromise!Stop
<1>1. /\ bk.pc \in Replacing /\ bk' = NoBkReq /\ UNCHANGED <<backups, archives, saved>>
      /\ \/ platform' = platform
         \/ \E k \in BkDerived : platform' = [platform EXCEPT !.home[k] = Half]
  BY DEF RepairRestored, BkEnds, Replacing
<1>2. ChoiceKept' /\ CompletedStates' = CompletedStates /\ BringingBack' = NoBk
  BY <1>1, RestoreStill
<1> QED BY <1>1, <1>2, BroughtBack, BkValues DEF BackupPromise!Stop

LEMMA EditMaps ==
  ASSUME StatesInv, Edit
  PROVE  ChoiceKept' /\ BackupPromise!Use
<1>1. /\ bk' = [bk EXCEPT !.disturbed = bk.pc # "idle"] /\ UNCHANGED <<backups, archives>>
      /\ saved' = IF bk.pc \in {"dump", "pack"} THEN [saved EXCEPT ![bk.row] = NoBk] ELSE saved
  BY DEF Edit
<1>2. /\ bk'.pc = bk.pc /\ bk'.op = bk.op /\ bk'.from = bk.from /\ bk'.row = bk.row
      /\ bk'.wanted = bk.wanted
  BY <1>1, BkParts DEF StatesInv, BkInv, BkRequestStates
<1>3. BringingBack' = BringingBack /\ CompletedStates' = CompletedStates
  BY <1>1, <1>2, StatesSame DEF BringingBack
<1>4. PICK v \in Versions \cup {NoBk} :
        \/ \E k \in BkFiles : platform' = [platform EXCEPT !.home[k] = v]
        \/ \E k \in BkStores : platform.data[k] # NoBk
                               /\ platform' = [platform EXCEPT !.data[k] = v]
  BY BkValues DEF Edit, StatesInv, BkInv, BackupsTypeOK
<1>5. \/ UNCHANGED saved
      \/ \E i \in BkRows : CompletedStates[i] = NoBk /\ saved' = [saved EXCEPT ![i] = NoBk]
  BY <1>1, InHand DEF Saving
<1>6. ChoiceKept'
  <2>1. Recorded' = Recorded /\ \A i \in BkRows : FileOf(i)' = FileOf(i)
    BY <1>1 DEF Recorded, FileOf
  <2>2. \A i \in BkRows \ Recorded : saved'[i] = NoBk
    BY <1>5 DEF StatesInv, ChoiceKept, BkInv, BackupsTypeOK
  <2> QED BY <1>1, <1>2, <2>1, <2>2 DEF StatesInv, ChoiceKept, FileOf
<1> QED BY <1>3, <1>4, <1>5, <1>6 DEF BackupPromise!Use

LEMMA CrashMaps ==
  ASSUME StatesInv, BkCrash
  PROVE  ChoiceKept' /\ (BackupPromise!Stop \/ UNCHANGED BackupPromise!vars)
<1>1. bk' = NoBkReq /\ bk.pc # "idle" /\ UNCHANGED <<platform, backups, archives, saved>>
  BY DEF BkCrash, BkEnds
<1>2. CASE bk.pc \in Replacing
  <2>1. ChoiceKept' /\ CompletedStates' = CompletedStates /\ BringingBack' = NoBk
    BY <1>1, <1>2, RestoreStill
  <2> QED BY <1>1, <1>2, <2>1, BroughtBack DEF BackupPromise!Stop
<1>3. CASE bk.pc \notin Replacing
  <2>1. bk'.pc = "idle" /\ bk'.op = "none"
    BY <1>1, BkValues
  <2>2. BringingBack' = BringingBack
    BY <1>3, <2>1 DEF BringingBack, Replacing
  <2>3. ChoiceKept'
    BY <1>1, <2>1 DEF StatesInv, ChoiceKept, Recorded, FileOf
  <2> QED BY <1>1, <2>2, <2>3, StatesSame DEF BackupPromise!vars
<1> QED BY <1>2, <1>3

LEMMA PromiseKept ==
  ASSUME StatesInv, ~BkSameSecond, [BackupsNext]_bkVars
  PROVE  StatesInv' /\ [BackupPromise!Next]_(BackupPromise!vars)
<1>1. BkInv'
  BY BackupsKeep DEF StatesInv
<1>2. CASE BeginBackup
  BY <1>1, <1>2, BeginMaps DEF BeginBackup, BackupPromise!Next, StatesInv
<1>3. CASE BeginRestore
  BY <1>1, <1>3, BeginMaps DEF BeginRestore, BackupPromise!Next, StatesInv
<1>4. CASE RestoreRefused \/ UNCHANGED bkVars
  <2>1. UNCHANGED <<platform, backups, archives, bk, saved>>
    BY <1>4 DEF RestoreRefused, bkVars
  <2>2. BringingBack' = BringingBack /\ CompletedStates' = CompletedStates
    BY <2>1, StatesSame DEF BringingBack
  <2>3. ChoiceKept'
    BY <2>1 DEF StatesInv, ChoiceKept, Recorded, FileOf
  <2> QED BY <1>1, <2>1, <2>2, <2>3 DEF StatesInv, BackupPromise!vars
<1>5. CASE DumpStores
  BY <1>1, <1>5, DumpMaps DEF StatesInv
<1>6. CASE PackHome
  BY <1>1, <1>6, PackMaps DEF StatesInv
<1>7. CASE CompleteBackup
  BY <1>1, <1>7, CompleteMaps DEF StatesInv, BackupPromise!Next
<1>8. CASE ExtractFile
  BY <1>1, <1>8, ExtractMaps DEF StatesInv, BackupPromise!Next
<1>9. CASE ReplayDump
  BY <1>1, <1>9, ReplayMaps DEF StatesInv, BackupPromise!Next
<1>10. CASE RepairRestored
  BY <1>1, <1>10, RepairMaps DEF StatesInv, BackupPromise!Next
<1>11. CASE Edit
  BY <1>1, <1>11, EditMaps DEF StatesInv, BackupPromise!Next
<1>12. CASE BkCrash
  BY <1>1, <1>12, CrashMaps DEF StatesInv, BackupPromise!Next
<1>13. CASE RemakeDerived
  BY <1>1, <1>13, RemakeMaps DEF StatesInv, BackupPromise!Next
<1> QED BY <1>2, <1>3, <1>4, <1>5, <1>6, <1>7, <1>8, <1>9, <1>10, <1>11, <1>12, <1>13
        DEF BackupsNext

\* When no two backups begin in one second, backups and restores implement EarlierStates: a
\* completed backup never changes, is what the platform was if nobody disturbed it, and a restore
\* keeps what it replaces first and brings back one part at a time, of the state that was chosen
\* (CreateBackup, RestoreBackup).
THEOREM BackupsKeepStates ==
  ASSUME ~BkSameSecond
  PROVE  BackupsSpec => ImplementsEarlierStates
<1>1. BackupsInit => StatesInv /\ BackupPromise!Init
  BY BackupsInitially, PromiseBegins DEF StatesInv
<1>2. StatesInv /\ [BackupsNext]_bkVars => StatesInv' /\ [BackupPromise!Next]_(BackupPromise!vars)
  BY PromiseKept
<1> QED BY <1>1, <1>2, PTL DEF BackupsSpec, ImplementsEarlierStates, BackupPromise!Spec

-----------------------------------------------------------------------------
(* The certificates.  While a request is at work on a domain its pair may   *)
(* be in between; the pairs of the other domains, and of their rows, can be *)
(* loaded.                                                                  *)

OwnDomains == \A d \in certJob.todo : DomainSite[d] = certJob.site

Job ==
  /\ IF certJob.pc = "idle" THEN certJob = NoCertJob ELSE certJob.site \in CertSites
  /\ certJob.pc \notin {"idle", "refresh"} => certJob.todo # {}
  /\ certJob.pc \in {"key", "cert", "files", "row"} => \A d, e \in certJob.todo : d = e
  /\ certJob.pc \in {"certbot", "upsert", "files", "row", "refresh"} => OwnDomains
  /\ certJob.pc \in {"key", "cert", "openssl"} => certJob.pair # 0
  /\ certJob.pc \in {"files", "row"} =>
       \E c \in certs : c.id = certJob.row /\ certJob.todo = {c.domain}
  /\ OwnDomains \/ \A d, e \in certJob.todo : d = e

Ids ==
  /\ \A c \in certs : c.id <= certMade
  /\ \A c, o \in certs : c.id = o.id => c = o

Work ==
  /\ certJob.pc = "cert" => keyFile[Current] = certJob.pair
  /\ certJob.pc = "upsert" => livePair[Current] # 0
  /\ certJob.pc = "insert" => Current \in torn \/ Loadable("own", Current)

HalfWritten(place, d) == d \in certJob.todo /\ certJob.pc = "cert" /\ place = "own"
ConfLoads ==
  \A d \in CertDomains \ torn :
    \/ Loadable(names[d], d) \/ HalfWritten(names[d], d)
    \/ d \in certJob.todo /\ certJob.pc \in {"row", "refresh"}
RowsLoad ==
  \A c \in certs : \/ c.domain \in torn \/ c.place = "none" \/ Loadable(c.place, c.domain)
                   \/ HalfWritten(c.place, c.domain)
                   \/ (certJob.pc = "row" /\ c.id = certJob.row)

CertSettled(d) == DomainSite[d] \in behind \/ names[d] = Named(certs, d)
ToSettle(d) == certJob.pc # "idle" /\ DomainSite[d] = certJob.site /\ OwnDomains
CertsWritten == torn = {} => \A d \in CertDomains : CertSettled(d) \/ ToSettle(d)

CertInv == CertTypeOK /\ Job /\ Ids /\ Work /\ ConfLoads /\ RowsLoad /\ CertsWritten

LEMMA CurrentIs ==
  ASSUME CertTypeOK, certJob.todo # {}
  PROVE  Current \in certJob.todo /\ Current \in CertDomains
<1>1. certJob.todo \in SUBSET Nat /\ certJob.todo \subseteq CertDomains
  BY CertificatesAssumption DEF CertTypeOK, CertJobStates
<1>2. Current = Least(certJob.todo)
  BY DEF Current, Least
<1> QED BY <1>1, <1>2, LeastIs

LEMMA NewestIs ==
  ASSUME NEW S, S \subseteq CertRow, S # {}
  PROVE  Newest(S) \in S
<1> DEFINE T == {MaxCerts - c.id : c \in S}
<1>1. \A c \in S : c.id \in 1..MaxCerts /\ MaxCerts \in Nat
  BY CertificatesAssumption DEF CertRow
<1>2. T \in SUBSET Nat /\ T # {}
  BY <1>1
<1>3. PICK c \in S : \A o \in S : MaxCerts - c.id <= MaxCerts - o.id
  <2>1. Least(T) \in T /\ \A l \in T : Least(T) <= l
    <3> HIDE DEF T
    <3> QED BY <1>2, LeastIs
  <2> QED BY <2>1
<1>4. \A o \in S : o.id <= c.id
  BY <1>1, <1>3
<1> QED BY <1>4 DEF Newest

LEMMA NamedSame ==
  ASSUME NEW r, NEW q, NEW d,
         \A c : (c \in r /\ c.domain = d /\ c.place # "none")
                  <=> (c \in q /\ c.domain = d /\ c.place # "none")
  PROVE  Named(r, d) = Named(q, d)
<1>1. {c \in r : c.domain = d /\ c.place # "none"} = {c \in q : c.domain = d /\ c.place # "none"}
  OBVIOUS
<1> QED BY <1>1 DEF Named

LEMMA NamedIs ==
  ASSUME CertTypeOK, NEW d \in CertDomains
  PROVE  \/ Named(certs, d) = "plain"
         \/ \E c \in certs : c.domain = d /\ c.place \in Places /\ Named(certs, d) = c.place
<1> DEFINE active == {c \in certs : c.domain = d /\ c.place # "none"}
<1>1. active \subseteq CertRow
  BY DEF CertTypeOK
<1>2. CASE active = {}
  BY <1>2 DEF Named
<1>3. CASE active # {}
  <2>1. Newest(active) \in active
    <3> HIDE DEF active
    <3> QED BY <1>1, <1>3, NewestIs
  <2>2. Named(certs, d) = Newest(active).place
    BY <1>3 DEF Named
  <2> QED BY <1>1, <2>1, <2>2 DEF CertRow
<1> QED BY <1>2, <1>3

\* A request that ends leaves nothing to say of it.
LEMMA CertOver ==
  ASSUME certJob' = NoCertJob
  PROVE  certJob' \in CertJobStates /\ certJob'.pc = "idle" /\ certJob'.todo = {} /\ Job' /\ Work'
<1>1. certJob' \in CertJobStates /\ certJob'.pc = "idle" /\ certJob'.todo = {}
  BY CertificatesAssumption DEF NoCertJob, CertJobStates
<1> QED BY <1>1 DEF Job, Work, OwnDomains

LEMMA GiveUpIs ==
  ASSUME CertTypeOK, Job, certJob.pc # "idle", GiveUp
  PROVE  /\ certJob' \in CertJobStates /\ Job' /\ Work'
         /\ behind' \subseteq CertSites /\ certFailures' \in 0..MaxCertFailures
<1>1. certJob' = NoCertJob /\ behind' = behind \cup {certJob.site}
      /\ certFailures' = certFailures + 1 /\ certFailures < MaxCertFailures
  BY DEF GiveUp, CertEnd, CertFault
<1>2. behind' \subseteq CertSites
  BY <1>1 DEF CertTypeOK, Job
<1>3. certFailures' \in 0..MaxCertFailures
  BY <1>1, CertificatesAssumption DEF CertTypeOK
<1> QED BY <1>1, <1>2, <1>3, CertOver

LEMMA JobValues ==
  ASSUME CertTypeOK
  PROVE  /\ \A pc \in {"issue", "certbot", "upsert", "hook", "key", "cert", "openssl", "insert",
                       "files", "row", "refresh"} :
              CertGoTo(pc) => /\ certJob' \in CertJobStates /\ certJob'.pc = pc
                              /\ certJob'.todo = certJob.todo /\ certJob'.row = certJob.row
                              /\ certJob'.site = certJob.site /\ certJob'.pair = certJob.pair
         /\ CertFault => certFailures' \in 0..MaxCertFailures
         /\ \A d : Loadable("plain", d)
BY CertificatesAssumption DEF CertTypeOK, CertJobStates, CertGoTo, CertFault, Loadable

\* The domain that is done.
LEMMA NextDomainIs ==
  ASSUME CertTypeOK, Job, certJob.todo # {}, NextDomain
  PROVE  /\ certJob' \in CertJobStates /\ certJob'.pc \in {"refresh", "issue"}
         /\ certJob'.todo = certJob.todo \ {Current} /\ certJob'.site = certJob.site
         /\ Job' /\ Work'
<1>1. certJob \in CertJobStates
  BY DEF CertTypeOK
<1>2. /\ certJob' \in CertJobStates /\ certJob'.todo = certJob.todo \ {Current}
      /\ certJob'.site = certJob.site
      /\ certJob'.pc = IF certJob'.todo = {} THEN "refresh" ELSE "issue"
  <2> DEFINE left == certJob.todo \ {Current}
  <2>1. certJob' = [certJob EXCEPT !.todo = left,
                                   !.pc = IF left = {} THEN "refresh" ELSE "issue"]
    BY DEF NextDomain
  <2>2. left \subseteq CertDomains
    BY <1>1 DEF CertJobStates
  <2> HIDE DEF left
  <2>3. /\ certJob' \in CertJobStates /\ certJob'.todo = left /\ certJob'.site = certJob.site
        /\ certJob'.pc = IF left = {} THEN "refresh" ELSE "issue"
    BY <1>1, <2>1, <2>2 DEF CertJobStates
  <2> QED BY <2>3 DEF left
<1>3. Job'
  BY <1>2 DEF Job, OwnDomains, NoCertJob
<1>4. Work'
  BY <1>2 DEF Work
<1> QED BY <1>2, <1>3, <1>4

\* A step of a request that has no pair in between, and that leaves rows, pairs and
\* configurations as they are.
LEMMA QuietKept ==
  ASSUME CertInv, certJob.pc \notin {"cert", "row", "refresh"},
         UNCHANGED <<certs, keyFile, certFile, livePair, names, certMade, torn>>
  PROVE  Ids' /\ ConfLoads' /\ RowsLoad'
<1>1. Ids'
  BY DEF CertInv, Ids
<1>2. ConfLoads'
  BY DEF CertInv, ConfLoads, HalfWritten, Loadable
<1>3. RowsLoad'
  BY DEF CertInv, RowsLoad, HalfWritten, Loadable
<1> QED BY <1>1, <1>2, <1>3

LEMMA GivenUp ==
  ASSUME CertInv, GiveUp, certs' = certs, names' = names, torn \subseteq torn'
  PROVE  CertsWritten'
<1>1. torn' = {} => torn = {}
  OBVIOUS
<1> QED BY <1>1 DEF CertInv, CertsWritten, CertSettled, ToSettle, GiveUp

LEMMA GoneOn ==
  ASSUME CertInv, certs' = certs, names' = names, torn \subseteq torn', behind' = behind,
         certJob.pc = "idle" \/ (/\ certJob'.pc # "idle" /\ certJob'.site = certJob.site
                                 /\ certJob'.todo \subseteq certJob.todo)
  PROVE  CertsWritten'
<1>1. torn' = {} => torn = {}
  OBVIOUS
<1>2. \A d : CertSettled(d)' <=> CertSettled(d)
  BY DEF CertSettled
<1>3. \A d \in CertDomains : ToSettle(d) => ToSettle(d)'
  BY DEF ToSettle, OwnDomains
<1> QED BY <1>1, <1>2, <1>3 DEF CertInv, CertsWritten

LEMMA CertInitially == CertInit => CertInv
<1> SUFFICES ASSUME CertInit PROVE CertInv
  OBVIOUS
<1>1. certJob = NoCertJob /\ certJob \in CertJobStates /\ certJob.pc = "idle" /\ certJob.todo = {}
  BY CertificatesAssumption DEF CertInit, NoCertJob, CertJobStates
<1>2. CertTypeOK
  BY <1>1, CertificatesAssumption DEF CertInit, CertTypeOK
<1>3. Job /\ Ids /\ Work /\ ConfLoads /\ RowsLoad
  BY <1>1 DEF CertInit, Job, OwnDomains, Ids, Work, ConfLoads, RowsLoad, Loadable
<1>4. \A d : Named({}, d) = "plain"
  BY DEF Named
<1>5. CertsWritten
  BY <1>4 DEF CertInit, CertsWritten, CertSettled
<1> QED BY <1>2, <1>3, <1>5 DEF CertInv

\* The requests that begin.
LEMMA IssueBegins ==
  ASSUME CertInv, NEW s \in CertSites, NEW ds \in SUBSET CertDomains, BeginIssue(s, ds),
         issuing' = issuing, ds # {},
         (\A d \in ds : DomainSite[d] = s) \/ (\A d, e \in ds : d = e)
  PROVE  CertInv'
<1>1. certJob' = [NoCertJob EXCEPT !.pc = "issue", !.todo = ds, !.site = s]
      /\ certJob.pc = "idle"
      /\ UNCHANGED <<certs, keyFile, certFile, livePair, names, certMade, torn, behind, pairs,
                     certFailures>>
  BY DEF BeginIssue, FilesKept, GhostsKept, CertWorks
<1>2. certJob'.pc = "issue" /\ certJob'.todo = ds /\ certJob'.site = s
      /\ certJob' \in CertJobStates
  <2>1. certJob' = [pc |-> "issue", todo |-> ds, row |-> 0, site |-> s, pair |-> 0]
    BY <1>1 DEF NoCertJob
  <2>2. 0 \in 0..MaxCerts /\ 0 \in 0..MaxPairs
    BY CertificatesAssumption
  <2> QED BY <2>1, <2>2 DEF CertJobStates
<1>3. CertTypeOK'
  BY <1>1, <1>2 DEF CertInv, CertTypeOK
<1>4. Job' /\ Work'
  BY <1>2 DEF Job, OwnDomains, Work
<1> QED BY <1>1, <1>3, <1>4, QuietKept, GoneOn DEF CertInv

LEMMA PairBegins ==
  ASSUME CertInv, NEW s \in CertSites, NEW d \in CertDomains, NEW pc \in {"key", "openssl"},
         BeginPair(d, s, pc), issuing' = issuing
  PROVE  CertInv'
<1>1. certJob' = [NoCertJob EXCEPT !.pc = pc, !.todo = {d}, !.site = s, !.pair = pairs']
      /\ certJob.pc = "idle" /\ pairs < MaxPairs /\ pairs' = pairs + 1
      /\ UNCHANGED <<certs, keyFile, certFile, livePair, names, certMade, torn, behind,
                     certFailures>>
  BY DEF BeginPair, FilesKept, GhostsKept, CertWorks
<1>2. pairs' \in 0..MaxPairs /\ pairs' # 0
  BY <1>1, CertificatesAssumption DEF CertInv, CertTypeOK
<1>3. /\ certJob'.pc = pc /\ certJob'.todo = {d} /\ certJob'.site = s /\ certJob'.pair # 0
      /\ certJob' \in CertJobStates
  <2>1. certJob' = [pc |-> pc, todo |-> {d}, row |-> 0, site |-> s, pair |-> pairs']
    BY <1>1 DEF NoCertJob
  <2>2. 0 \in 0..MaxCerts /\ 0 \in 0..MaxPairs /\ {d} \subseteq CertDomains
    BY <1>2, CertificatesAssumption
  <2> QED BY <1>2, <2>1, <2>2 DEF CertJobStates
<1>4. CertTypeOK'
  BY <1>1, <1>2, <1>3 DEF CertInv, CertTypeOK
<1>5. Job' /\ Work'
  BY <1>3 DEF Job, OwnDomains, Work
<1> QED BY <1>1, <1>4, <1>5, QuietKept, GoneOn DEF CertInv

LEMMA DeleteBegins ==
  ASSUME CertInv, NEW s \in CertSites, NEW c \in certs, BeginDelete(s, c), issuing' = issuing
  PROVE  CertInv'
<1>1. certJob' = [NoCertJob EXCEPT !.pc = "files", !.todo = {c.domain}, !.row = c.id, !.site = s]
      /\ certJob.pc = "idle" /\ DomainSite[c.domain] = s
      /\ UNCHANGED <<certs, keyFile, certFile, livePair, names, certMade, torn, behind, pairs,
                     certFailures>>
  BY DEF BeginDelete, OfPlatform, FilesKept, GhostsKept, CertWorks
<1>2. c.domain \in CertDomains /\ c.id \in 1..MaxCerts
  BY DEF CertInv, CertTypeOK, CertRow
<1>3. /\ certJob'.pc = "files" /\ certJob'.todo = {c.domain} /\ certJob'.site = s
      /\ certJob'.row = c.id /\ certJob' \in CertJobStates
  <2>1. certJob' = [pc |-> "files", todo |-> {c.domain}, row |-> c.id, site |-> s,
                     pair |-> 0]
    BY <1>1 DEF NoCertJob
  <2>2. 0 \in 0..MaxCerts /\ 0 \in 0..MaxPairs /\ {c.domain} \subseteq CertDomains
        /\ c.id \in 0..MaxCerts
    BY <1>2, CertificatesAssumption
  <2> QED BY <2>1, <2>2 DEF CertJobStates
<1>4. CertTypeOK'
  BY <1>1, <1>3 DEF CertInv, CertTypeOK
<1>5. Job' /\ Work'
  BY <1>1, <1>3 DEF Job, OwnDomains, Work
<1> QED BY <1>1, <1>4, <1>5, QuietKept, GoneOn DEF CertInv

\* The steps before a pair.
LEMMA PreflightKept ==
  ASSUME CertInv, PreflightHTTPChallenge, issuing' = issuing
  PROVE  CertInv'
<1>1. /\ CertTypeOK /\ certJob.pc = "issue" /\ certJob.todo # {} /\ Current \in certJob.todo
      /\ UNCHANGED <<certs, keyFile, certFile, livePair, names, certMade, torn, pairs>>
  BY CurrentIs DEF CertInv, Job, PreflightHTTPChallenge, FilesKept
<1>2. Ids' /\ ConfLoads' /\ RowsLoad'
  BY <1>1, QuietKept
<1>3. CASE DomainSite[Current] = certJob.site /\ CertGoTo("certbot") /\ CertWorks
           /\ UNCHANGED behind
  <2>1. /\ certJob' \in CertJobStates /\ certJob'.pc = "certbot" /\ certJob'.todo = certJob.todo
        /\ certJob'.site = certJob.site
    BY <1>1, <1>3, JobValues
  <2>2. OwnDomains
    BY <1>1, <1>3 DEF CertInv, Job, OwnDomains
  <2>3. Job' /\ Work'
    BY <1>1, <2>1, <2>2 DEF CertInv, Job, OwnDomains, Work
  <2>4. CertTypeOK'
    BY <1>1, <1>3, <2>1 DEF CertTypeOK, CertWorks
  <2>5. CertsWritten'
    BY <1>1, <1>3, <2>1, GoneOn
  <2> QED BY <1>2, <2>3, <2>4, <2>5 DEF CertInv
<1>4. CASE GiveUp
  <2>1. CertTypeOK'
    BY <1>1, <1>4, GiveUpIs DEF CertInv, CertTypeOK
  <2> QED BY <1>1, <1>2, <1>4, <2>1, GiveUpIs, GivenUp DEF CertInv
<1>5. CASE DomainSite[Current] # certJob.site /\ CertEnd /\ CertWorks /\ UNCHANGED behind
  <2>1. CertTypeOK'
    BY <1>1, <1>5, CertOver DEF CertTypeOK, CertEnd, CertWorks
  <2>2. ~OwnDomains
    BY <1>1, <1>5 DEF OwnDomains
  <2>3. CertsWritten'
    BY <1>1, <1>5, <2>2 DEF CertInv, CertsWritten, CertSettled, ToSettle
  <2> QED BY <1>2, <1>5, <2>1, <2>3, CertOver DEF CertInv, CertEnd
<1> QED BY <1>3, <1>4, <1>5 DEF PreflightHTTPChallenge

\* A pair of certbot takes the place of another, or of none.
LEMMA LivePairKept ==
  ASSUME CertInv, NEW d \in CertDomains, NEW pair \in 1..MaxPairs,
         livePair' = [livePair EXCEPT ![d] = pair], certJob.pc \notin {"cert", "row", "refresh"},
         UNCHANGED <<certs, keyFile, certFile, names, certMade, torn>>
  PROVE  /\ Ids' /\ ConfLoads' /\ RowsLoad' /\ livePair'[d] # 0
         /\ livePair' \in [CertDomains -> 0..MaxPairs]
<1>1. CertTypeOK /\ pair # 0 /\ pair \in 0..MaxPairs
  BY CertificatesAssumption DEF CertInv
<1>2. livePair'[d] # 0 /\ livePair' \in [CertDomains -> 0..MaxPairs]
      /\ \A e \in CertDomains : livePair[e] # 0 => livePair'[e] # 0
  BY <1>1 DEF CertTypeOK
<1>3. \A e \in CertDomains, place \in Places \cup {"plain"} :
        Loadable(place, e) => Loadable(place, e)'
  BY <1>2 DEF Loadable, Places
<1>4. ConfLoads'
  BY <1>1, <1>3 DEF CertInv, ConfLoads, HalfWritten, CertTypeOK
<1>5. RowsLoad'
  BY <1>1, <1>3 DEF CertInv, RowsLoad, HalfWritten, CertTypeOK, CertRow
<1> QED BY <1>2, <1>4, <1>5 DEF CertInv, Ids

LEMMA CertbotKept ==
  ASSUME CertInv, CreateForWebsite, issuing' = issuing
  PROVE  CertInv'
<1>1. /\ CertTypeOK /\ certJob.pc = "certbot" /\ certJob.todo # {} /\ OwnDomains
      /\ Current \in certJob.todo /\ Current \in CertDomains
      /\ UNCHANGED <<certs, keyFile, certFile, names, certMade, torn>>
  BY CurrentIs DEF CertInv, Job, CreateForWebsite
<1>2. CASE GiveUp /\ UNCHANGED <<livePair, pairs>>
  <2>1. Ids' /\ ConfLoads' /\ RowsLoad'
    BY <1>1, <1>2, QuietKept
  <2>2. CertTypeOK'
    BY <1>1, <1>2, GiveUpIs DEF CertInv, CertTypeOK
  <2> QED BY <1>1, <1>2, <2>1, <2>2, GiveUpIs, GivenUp DEF CertInv
<1>3. CASE /\ \/ pairs < MaxPairs /\ pairs' = pairs + 1
              \/ livePair[Current] # 0 /\ UNCHANGED pairs
           /\ livePair' = [livePair EXCEPT ![Current] = IF pairs' = pairs THEN @ ELSE pairs']
           /\ CertGoTo("upsert") /\ CertWorks /\ UNCHANGED behind
  <2>1. PICK pair \in 1..MaxPairs : livePair' = [livePair EXCEPT ![Current] = pair]
    <3>1. CASE pairs' = pairs
      <4>1. livePair[Current] \in 1..MaxPairs
        BY <1>1, <1>3, <3>1, CertificatesAssumption DEF CertTypeOK
      <4> QED BY <1>1, <1>3, <3>1, <4>1
    <3>2. CASE pairs' # pairs
      <4>1. pairs' \in 1..MaxPairs
        BY <1>1, <1>3, <3>2, CertificatesAssumption DEF CertTypeOK
      <4> QED BY <1>3, <3>2, <4>1
    <3> QED BY <3>1, <3>2
  <2>2. pairs' \in 0..MaxPairs
    BY <1>1, <1>3, CertificatesAssumption DEF CertTypeOK
  <2>3. /\ Ids' /\ ConfLoads' /\ RowsLoad' /\ livePair'[Current] # 0
        /\ livePair' \in [CertDomains -> 0..MaxPairs]
    BY <1>1, <2>1, LivePairKept
  <2>4. /\ certJob' \in CertJobStates /\ certJob'.pc = "upsert" /\ certJob'.todo = certJob.todo
        /\ certJob'.site = certJob.site /\ Current' = Current
    BY <1>1, <1>3, JobValues DEF Current
  <2>5. Job' /\ Work'
    BY <1>1, <2>3, <2>4 DEF CertInv, Job, OwnDomains, Work
  <2>6. CertTypeOK'
    BY <1>1, <1>3, <2>2, <2>3, <2>4 DEF CertTypeOK, CertWorks
  <2>7. CertsWritten'
    BY <1>1, <1>3, <2>4, GoneOn
  <2> QED BY <2>3, <2>5, <2>6, <2>7 DEF CertInv
<1> QED BY <1>2, <1>3 DEF CreateForWebsite

\* A row that is added, or becomes the row of another pair.
LEMMA AddCertIs ==
  ASSUME CertTypeOK, Ids, NEW d \in CertDomains, NEW place \in Places \cup {"none"},
         AddCert(d, place)
  PROVE  /\ certs' = certs \cup {[id |-> certMade + 1, domain |-> d, place |-> place]}
         /\ certs' \subseteq CertRow /\ certMade' \in 0..MaxCerts /\ Ids'
<1> DEFINE new == [id |-> certMade + 1, domain |-> d, place |-> place]
<1>1. certMade \in 0..MaxCerts /\ certMade < MaxCerts /\ MaxCerts \in Nat
      /\ certMade' = certMade + 1 /\ certs' = certs \cup {new} /\ certs \subseteq CertRow
  BY CertificatesAssumption DEF CertTypeOK, AddCert
<1>2. new \in CertRow /\ new.id = certMade + 1
  BY <1>1 DEF CertRow
<1>3. \A c \in certs : c.id \in Nat /\ c.id <= certMade
  BY <1>1 DEF Ids, CertRow
<1>4. Ids'
  <2> HIDE DEF new
  <2> QED BY <1>1, <1>2, <1>3 DEF Ids
<1> QED BY <1>1, <1>2, <1>4

LEMMA CreatePendingKept ==
  ASSUME CertInv, CreatePending, issuing' = issuing
  PROVE  CertInv'
<1>1. /\ CertTypeOK /\ certJob.pc = "issue" /\ certJob.todo # {}
      /\ Current \in certJob.todo /\ Current \in CertDomains
      /\ UNCHANGED <<names, pairs, torn, keyFile, certFile, livePair>>
  BY CurrentIs DEF CertInv, Job, CreatePending, FilesKept
<1>2. CASE GiveUp /\ UNCHANGED <<certs, certMade>>
  <2>1. Ids' /\ ConfLoads' /\ RowsLoad'
    BY <1>1, <1>2, QuietKept
  <2>2. CertTypeOK'
    BY <1>1, <1>2, GiveUpIs DEF CertInv, CertTypeOK
  <2> QED BY <1>1, <1>2, <2>1, <2>2, GiveUpIs, GivenUp DEF CertInv
<1>3. CASE AddCert(Current, "none") /\ CertGoTo("hook") /\ CertWorks /\ UNCHANGED behind
  <2> DEFINE new == [id |-> certMade + 1, domain |-> Current, place |-> "none"]
  <2>1. /\ certs' = certs \cup {new}
        /\ certs' \subseteq CertRow /\ certMade' \in 0..MaxCerts /\ Ids'
    BY <1>1, <1>3, AddCertIs DEF CertInv
  <2>2. /\ certJob' \in CertJobStates /\ certJob'.pc = "hook" /\ certJob'.todo = certJob.todo
        /\ certJob'.site = certJob.site
    BY <1>1, <1>3, JobValues
  <2>3. Job' /\ Work'
    BY <1>1, <2>2 DEF CertInv, Job, OwnDomains, Work
  <2>4. CertTypeOK'
    BY <1>1, <1>3, <2>1, <2>2 DEF CertTypeOK, CertWorks
  <2>5. new.place = "none"
    OBVIOUS
  <2> HIDE DEF new
  <2>6. ConfLoads'
    BY <1>1 DEF CertInv, ConfLoads, HalfWritten, Loadable
  <2>7. RowsLoad'
    BY <1>1, <2>1, <2>5 DEF CertInv, RowsLoad, HalfWritten, Loadable
  <2>8. \A e : Named(certs', e) = Named(certs, e)
    BY <2>1, <2>5, NamedSame
  <2>9. CertsWritten'
    <3>1. \A e : CertSettled(e)' <=> CertSettled(e)
      BY <1>1, <1>3, <2>8 DEF CertSettled
    <3>2. \A e : ToSettle(e) => ToSettle(e)'
      BY <2>2 DEF ToSettle, OwnDomains
    <3> QED BY <1>1, <3>1, <3>2 DEF CertInv, CertsWritten
  <2> QED BY <2>1, <2>3, <2>4, <2>6, <2>7, <2>9 DEF CertInv
<1> QED BY <1>2, <1>3 DEF CreatePending

LEMMA RunHookKept ==
  ASSUME CertInv, RunHook, issuing' = issuing
  PROVE  CertInv'
<1>1. /\ CertTypeOK /\ certJob.pc = "hook" /\ certJob.todo # {}
      /\ UNCHANGED <<certs, names, pairs, certMade, torn, keyFile, certFile, livePair>>
  BY DEF CertInv, Job, RunHook, FilesKept
<1>2. Ids' /\ ConfLoads' /\ RowsLoad'
  BY <1>1, QuietKept
<1>3. CASE GiveUp
  <2>1. CertTypeOK'
    BY <1>1, <1>3, GiveUpIs DEF CertInv, CertTypeOK
  <2> QED BY <1>1, <1>2, <1>3, <2>1, GiveUpIs, GivenUp DEF CertInv
<1>4. CASE NextDomain /\ CertWorks /\ UNCHANGED behind
  <2>1. /\ certJob' \in CertJobStates /\ certJob'.pc \in {"refresh", "issue"}
        /\ certJob'.todo = certJob.todo \ {Current} /\ certJob'.site = certJob.site
        /\ Job' /\ Work'
    BY <1>1, <1>4, NextDomainIs DEF CertInv
  <2>2. CertTypeOK'
    BY <1>1, <1>4, <2>1 DEF CertTypeOK, CertWorks
  <2>3. CertsWritten'
    BY <1>1, <1>4, <2>1, GoneOn
  <2> QED BY <1>2, <2>1, <2>2, <2>3 DEF CertInv
<1> QED BY <1>3, <1>4 DEF RunHook

LEMMA IssueDryKept ==
  ASSUME CertInv, IssueDry, issuing' = issuing
  PROVE  CertInv'
<1>1. /\ CertTypeOK /\ certJob.pc = "issue" /\ certJob.todo # {}
      /\ pairs < MaxPairs /\ pairs' = pairs + 1
      /\ certJob' = [certJob EXCEPT !.pc = "openssl", !.pair = pairs']
      /\ UNCHANGED <<certs, names, certMade, torn, behind, keyFile, certFile, livePair,
                     certFailures>>
  BY DEF CertInv, Job, IssueDry, FilesKept, GhostsKept, CertWorks
<1>2. pairs' \in 0..MaxPairs /\ pairs' # 0
  BY <1>1, CertificatesAssumption DEF CertTypeOK
<1>3. /\ certJob' \in CertJobStates /\ certJob'.pc = "openssl" /\ certJob'.todo = certJob.todo
      /\ certJob'.site = certJob.site /\ certJob'.pair # 0
  BY <1>1, <1>2 DEF CertTypeOK, CertJobStates
<1>4. Job' /\ Work'
  BY <1>1, <1>3 DEF CertInv, Job, OwnDomains, Work
<1>5. CertTypeOK'
  BY <1>1, <1>2, <1>3 DEF CertTypeOK
<1> QED BY <1>1, <1>3, <1>4, <1>5, QuietKept, GoneOn DEF CertInv

LEMMA RenewKept ==
  ASSUME CertInv, NEW s \in CertSites, NEW c \in certs, Renew(s, c), issuing' = issuing
  PROVE  CertInv'
<1>1. /\ CertTypeOK /\ certJob.pc = "idle" /\ certJob' = certJob
      /\ pairs < MaxPairs /\ pairs' = pairs + 1
      /\ livePair' = [livePair EXCEPT ![c.domain] = pairs']
      /\ UNCHANGED <<certs, keyFile, certFile, names, certMade, torn, behind, certFailures>>
      /\ c.domain \in CertDomains
  BY DEF CertInv, Renew, GhostsKept, CertWorks, CertTypeOK, CertRow
<1>2. pairs' \in 1..MaxPairs /\ pairs' \in 0..MaxPairs
  BY <1>1, CertificatesAssumption DEF CertTypeOK
<1>3. Ids' /\ ConfLoads' /\ RowsLoad' /\ livePair' \in [CertDomains -> 0..MaxPairs]
  BY <1>1, <1>2, LivePairKept
<1>4. CertTypeOK'
  BY <1>1, <1>2, <1>3 DEF CertTypeOK
<1>5. Job' /\ Work'
  BY <1>1 DEF CertInv, Job, OwnDomains, Work
<1>6. CertsWritten'
  BY <1>1, GoneOn
<1> QED BY <1>3, <1>4, <1>5, <1>6 DEF CertInv

\* The own pair is written by a request that is at work on its domain alone, or by one that
\* has it written at once.
LEMMA OwnPairKept ==
  ASSUME CertInv, NEW d \in certJob.todo, certJob.pc \notin {"row", "refresh"},
         certJob.pc = "cert" => certJob.todo = {d},
         \A e \in CertDomains \ {d} : keyFile'[e] = keyFile[e] /\ certFile'[e] = certFile[e],
         \/ d \in torn'
         \/ keyFile'[d] # 0 /\ keyFile'[d] = certFile'[d]
         \/ certJob'.pc = "cert" /\ d \in certJob'.todo,
         UNCHANGED <<certs, livePair, names, certMade>>, torn \subseteq torn'
  PROVE  Ids' /\ ConfLoads' /\ RowsLoad'
<1>1. CertTypeOK /\ d \in CertDomains
  BY DEF CertInv, CertTypeOK, CertJobStates
<1>2. \A e \in CertDomains \ {d}, place \in Places \cup {"plain"} :
        Loadable(place, e)' <=> Loadable(place, e)
  BY <1>1 DEF Loadable, Places
<1>3. \A place \in {"live", "plain"} : Loadable(place, d)' <=> Loadable(place, d)
  BY DEF Loadable
<1>4. d \in torn' \/ Loadable("own", d)' \/ (certJob'.pc = "cert" /\ d \in certJob'.todo)
  BY DEF Loadable
<1>5. ConfLoads'
  <2> SUFFICES ASSUME NEW e \in CertDomains \ torn'
               PROVE  Loadable(names[e], e)' \/ HalfWritten(names[e], e)'
    BY DEF ConfLoads
  <2>1. Loadable(names[e], e) \/ HalfWritten(names[e], e)
    BY DEF CertInv, ConfLoads
  <2>2. names[e] \in {"own", "live", "plain"} /\ names' = names
    BY <1>1 DEF CertTypeOK, Places
  <2>3. CASE e = d
    BY <1>3, <1>4, <2>1, <2>2, <2>3 DEF HalfWritten
  <2>4. CASE e # d
    BY <1>2, <2>1, <2>2, <2>4 DEF HalfWritten, Places
  <2> QED BY <2>3, <2>4
<1>6. RowsLoad'
  <2> SUFFICES ASSUME NEW c \in certs, c.domain \notin torn', c.place # "none"
               PROVE  Loadable(c.place, c.domain)' \/ HalfWritten(c.place, c.domain)'
    BY DEF RowsLoad
  <2>1. Loadable(c.place, c.domain) \/ HalfWritten(c.place, c.domain)
    BY DEF CertInv, RowsLoad
  <2>2. c.place \in {"own", "live"} /\ c.domain \in CertDomains
    BY <1>1 DEF CertTypeOK, CertRow, Places
  <2>3. CASE c.domain = d
    BY <1>3, <1>4, <2>1, <2>2, <2>3 DEF HalfWritten
  <2>4. CASE c.domain # d
    BY <1>2, <2>1, <2>2, <2>4 DEF HalfWritten, Places
  <2> QED BY <2>3, <2>4
<1> QED BY <1>5, <1>6 DEF CertInv, Ids

LEMMA WriteKeyKept ==
  ASSUME CertInv, WriteKey, issuing' = issuing
  PROVE  CertInv'
<1> DEFINE d == Current
<1>1. /\ CertTypeOK /\ certJob.pc = "key" /\ d \in certJob.todo /\ d \in CertDomains
      /\ \A e \in certJob.todo : e = d
      /\ certJob.pair \in 0..MaxPairs /\ certJob.pair # 0
      /\ UNCHANGED <<certs, certFile, livePair, names, pairs, certMade>>
  BY CurrentIs DEF CertInv, Job, WriteKey, CertTypeOK, CertJobStates
<1>2. CASE keyFile' = [keyFile EXCEPT ![d] = certJob.pair] /\ CertGoTo("cert") /\ CertWorks
           /\ GhostsKept
  <2>1. /\ certJob' \in CertJobStates /\ certJob'.pc = "cert" /\ certJob'.todo = certJob.todo
        /\ certJob'.site = certJob.site /\ certJob'.pair = certJob.pair /\ Current' = d
    BY <1>1, <1>2, JobValues DEF Current
  <2> HIDE DEF d
  <2>2. /\ keyFile'[d] = certJob.pair /\ keyFile' \in [CertDomains -> 0..MaxPairs]
        /\ \A e \in CertDomains \ {d} : keyFile'[e] = keyFile[e]
    BY <1>1, <1>2 DEF CertTypeOK
  <2>3. Ids' /\ ConfLoads' /\ RowsLoad'
    BY <1>1, <1>2, <2>1, <2>2, OwnPairKept DEF GhostsKept
  <2>4. Job' /\ Work'
    BY <1>1, <2>1, <2>2 DEF CertInv, Job, OwnDomains, Work
  <2>5. CertTypeOK'
    BY <1>1, <1>2, <2>1, <2>2 DEF CertTypeOK, CertWorks, GhostsKept
  <2>6. CertsWritten'
    BY <1>1, <1>2, <2>1, GoneOn DEF GhostsKept
  <2> QED BY <2>3, <2>4, <2>5, <2>6 DEF CertInv
<1>3. CASE /\ keyFile' \in {keyFile, [keyFile EXCEPT ![d] = 0]}
           /\ torn' = torn \cup {d} /\ GiveUp
  <2> HIDE DEF d
  <2>1. /\ keyFile' \in [CertDomains -> 0..MaxPairs]
        /\ \A e \in CertDomains \ {d} : keyFile'[e] = keyFile[e]
    BY <1>1, <1>3, CertificatesAssumption DEF CertTypeOK
  <2>2. Ids' /\ ConfLoads' /\ RowsLoad'
    BY <1>1, <1>3, <2>1, OwnPairKept
  <2>3. CertTypeOK'
    BY <1>1, <1>3, <2>1, GiveUpIs DEF CertInv, CertTypeOK
  <2> QED BY <1>1, <1>3, <2>2, <2>3, GiveUpIs, GivenUp DEF CertInv
<1> QED BY <1>2, <1>3 DEF WriteKey

LEMMA WriteCertKept ==
  ASSUME CertInv, WriteCert, issuing' = issuing
  PROVE  CertInv'
<1> DEFINE d == Current
<1>1. /\ CertTypeOK /\ certJob.pc = "cert" /\ d \in certJob.todo /\ d \in CertDomains
      /\ certJob.todo = {d} /\ keyFile[d] = certJob.pair
      /\ certJob.pair \in 0..MaxPairs /\ certJob.pair # 0 /\ 0 \in 0..MaxPairs
      /\ UNCHANGED <<certs, keyFile, livePair, names, pairs, certMade>>
  <2>1. /\ CertTypeOK /\ certJob.pc = "cert" /\ certJob.todo # {} /\ Job /\ Work
        /\ UNCHANGED <<certs, keyFile, livePair, names, pairs, certMade>>
    BY DEF CertInv, Job, WriteCert
  <2>2. d \in certJob.todo /\ d \in CertDomains
    BY <2>1, CurrentIs
  <2>3. keyFile[d] = certJob.pair /\ certJob.pair # 0 /\ \A e \in certJob.todo : e = d
    BY <2>1, <2>2 DEF Job, Work
  <2>4. certJob.pair \in 0..MaxPairs /\ 0 \in 0..MaxPairs
    BY <2>1, CertificatesAssumption DEF CertTypeOK, CertJobStates
  <2> HIDE DEF d
  <2> QED BY <2>1, <2>2, <2>3, <2>4
<1>2. /\ certFile' \in [CertDomains -> 0..MaxPairs]
      /\ \A e \in CertDomains \ {d} : certFile'[e] = certFile[e]
  <2>1. certFile' = [certFile EXCEPT ![d] = certJob.pair]
          \/ certFile' \in {certFile, [certFile EXCEPT ![d] = 0]}
    BY DEF WriteCert
  <2> HIDE DEF d
  <2> QED BY <1>1, <2>1 DEF CertTypeOK
<1>3. CASE /\ certFile' = [certFile EXCEPT ![d] = certJob.pair] /\ CertGoTo("insert")
           /\ CertWorks /\ GhostsKept
  <2>1. /\ certJob' \in CertJobStates /\ certJob'.pc = "insert" /\ certJob'.todo = certJob.todo
        /\ certJob'.site = certJob.site /\ certJob'.pair = certJob.pair /\ Current' = d
    BY <1>1, <1>3, JobValues DEF Current
  <2> HIDE DEF d
  <2>2. certFile'[d] = certJob.pair
    BY <1>1, <1>3 DEF CertTypeOK
  <2>3. Ids' /\ ConfLoads' /\ RowsLoad'
    BY <1>1, <1>2, <1>3, <2>2, OwnPairKept DEF GhostsKept
  <2>4. Job' /\ Work'
    BY <1>1, <2>1, <2>2 DEF CertInv, Job, OwnDomains, Work, Loadable
  <2>5. CertTypeOK'
    BY <1>1, <1>2, <1>3, <2>1 DEF CertTypeOK, CertWorks, GhostsKept
  <2>6. CertsWritten'
    BY <1>1, <1>3, <2>1, GoneOn DEF GhostsKept
  <2> QED BY <2>3, <2>4, <2>5, <2>6 DEF CertInv
<1>4. CASE torn' = torn \cup {d} /\ CertGoTo("insert") /\ CertFault /\ UNCHANGED behind
  <2>1. /\ certJob' \in CertJobStates /\ certJob'.pc = "insert" /\ certJob'.todo = certJob.todo
        /\ certJob'.site = certJob.site /\ certJob'.pair = certJob.pair /\ Current' = d
        /\ certFailures' \in 0..MaxCertFailures
    BY <1>1, <1>4, JobValues DEF Current
  <2> HIDE DEF d
  <2>2. Ids' /\ ConfLoads' /\ RowsLoad'
    BY <1>1, <1>2, <1>4, OwnPairKept
  <2>3. Job' /\ Work'
    BY <1>1, <1>4, <2>1 DEF CertInv, Job, OwnDomains, Work
  <2>4. CertTypeOK'
    BY <1>1, <1>2, <1>4, <2>1 DEF CertTypeOK
  <2>5. CertsWritten'
    BY <1>4 DEF CertsWritten
  <2> QED BY <2>2, <2>3, <2>4, <2>5 DEF CertInv
<1>5. CASE torn' = torn \cup {d} /\ GiveUp
  <2> HIDE DEF d
  <2>1. Ids' /\ ConfLoads' /\ RowsLoad'
    BY <1>1, <1>2, <1>5, OwnPairKept
  <2>2. CertTypeOK'
    BY <1>1, <1>2, <1>5, GiveUpIs DEF CertInv, CertTypeOK
  <2> QED BY <1>1, <1>5, <2>1, <2>2, GiveUpIs, GivenUp DEF CertInv
<1> QED BY <1>3, <1>4, <1>5 DEF WriteCert

LEMMA SelfSignedKept ==
  ASSUME CertInv, CreateSelfSigned, issuing' = issuing
  PROVE  CertInv'
<1> DEFINE d == Current
<1>1. /\ CertTypeOK /\ certJob.pc = "openssl" /\ d \in certJob.todo /\ d \in CertDomains
      /\ certJob.pair \in 0..MaxPairs /\ certJob.pair # 0
      /\ UNCHANGED <<certs, livePair, names, pairs, certMade>>
  BY CurrentIs DEF CertInv, Job, CreateSelfSigned, CertTypeOK, CertJobStates
<1>2. /\ keyFile' \in [CertDomains -> 0..MaxPairs] /\ certFile' \in [CertDomains -> 0..MaxPairs]
      /\ \A e \in CertDomains \ {d} : keyFile'[e] = keyFile[e] /\ certFile'[e] = certFile[e]
  <2>1. keyFile' \in {keyFile, [keyFile EXCEPT ![d] = certJob.pair]}
          /\ certFile' \in {certFile, [certFile EXCEPT ![d] = certJob.pair]}
    BY DEF CreateSelfSigned
  <2> HIDE DEF d
  <2> QED BY <1>1, <2>1 DEF CertTypeOK
<1>3. CASE /\ keyFile' = [keyFile EXCEPT ![d] = certJob.pair]
           /\ certFile' = [certFile EXCEPT ![d] = certJob.pair]
           /\ CertGoTo("insert") /\ CertWorks /\ GhostsKept
  <2>1. /\ certJob' \in CertJobStates /\ certJob'.pc = "insert" /\ certJob'.todo = certJob.todo
        /\ certJob'.site = certJob.site /\ certJob'.pair = certJob.pair /\ Current' = d
    BY <1>1, <1>3, JobValues DEF Current
  <2> HIDE DEF d
  <2>2. keyFile'[d] = certJob.pair /\ certFile'[d] = certJob.pair
    BY <1>1, <1>3 DEF CertTypeOK
  <2>3. Ids' /\ ConfLoads' /\ RowsLoad'
    BY <1>1, <1>2, <1>3, <2>2, OwnPairKept DEF GhostsKept
  <2>4. Job' /\ Work'
    BY <1>1, <2>1, <2>2 DEF CertInv, Job, OwnDomains, Work, Loadable
  <2>5. CertTypeOK'
    BY <1>1, <1>2, <1>3, <2>1 DEF CertTypeOK, CertWorks, GhostsKept
  <2>6. CertsWritten'
    BY <1>1, <1>3, <2>1, GoneOn DEF GhostsKept
  <2> QED BY <2>3, <2>4, <2>5, <2>6 DEF CertInv
<1>4. CASE torn' = torn \cup {d} /\ GiveUp
  <2> HIDE DEF d
  <2>1. Ids' /\ ConfLoads' /\ RowsLoad'
    BY <1>1, <1>2, <1>4, OwnPairKept
  <2>2. CertTypeOK'
    BY <1>1, <1>2, <1>4, GiveUpIs DEF CertInv, CertTypeOK
  <2> QED BY <1>1, <1>4, <2>1, <2>2, GiveUpIs, GivenUp DEF CertInv
<1> QED BY <1>3, <1>4 DEF CreateSelfSigned

\* A row of the pair the request made, or of the pair of certbot.
LEMMA UpsertKept ==
  ASSUME CertInv, UpsertIssuedCert, issuing' = issuing
  PROVE  CertInv'
<1> DEFINE d == Current
<1>1. /\ CertTypeOK /\ Job /\ Ids /\ certJob.pc = "upsert" /\ certJob.todo # {} /\ OwnDomains
      /\ livePair[d] # 0 /\ NextDomain
      /\ UNCHANGED <<names, pairs, keyFile, certFile, livePair, torn, behind>>
  BY DEF CertInv, Job, Work, UpsertIssuedCert, FilesKept, GhostsKept
<1>2. d \in certJob.todo /\ d \in CertDomains
  BY <1>1, CurrentIs
<1>3. /\ certJob' \in CertJobStates /\ certJob'.pc \in {"refresh", "issue"}
      /\ certJob'.todo = certJob.todo \ {d} /\ certJob'.site = certJob.site
      /\ Job' /\ Work'
  BY <1>1, NextDomainIs
<1>4. /\ \/ certs' = certs /\ certMade' = certMade
         \/ /\ certMade' = certMade
            /\ certs' = {IF c = Newest(CertRowsOf(d)) THEN [c EXCEPT !.place = "live"] ELSE c :
                           c \in certs}
            /\ CertRowsOf(d) # {}
         \/ AddCert(d, "live")
      /\ certFailures' \in 0..MaxCertFailures
  BY <1>1, JobValues DEF UpsertIssuedCert, CertWorks, CertTypeOK
<1> HIDE DEF d
<1>5. /\ certs' \subseteq CertRow /\ certMade' \in 0..MaxCerts /\ Ids'
      /\ \A c \in certs' : c \in certs \/ (c.domain = d /\ c.place = "live")
      /\ \A c \in certs : c.domain # d => c \in certs'
  <2>1. CASE certs' = certs /\ certMade' = certMade
    BY <1>1, <2>1 DEF CertTypeOK, Ids
  <2>2. CASE AddCert(d, "live")
    BY <1>1, <1>2, <2>2, AddCertIs DEF CertTypeOK, Places
  <2>3. CASE /\ certMade' = certMade /\ CertRowsOf(d) # {}
             /\ certs' = {IF c = Newest(CertRowsOf(d)) THEN [c EXCEPT !.place = "live"] ELSE c :
                            c \in certs}
    <3> DEFINE first == Newest(CertRowsOf(d))
               live(c) == IF c = first THEN [c EXCEPT !.place = "live"] ELSE c
    <3>1. CertRowsOf(d) \subseteq CertRow /\ CertRowsOf(d) \subseteq certs
      BY <1>1 DEF CertTypeOK, CertRowsOf
    <3>2. first \in CertRowsOf(d)
      BY <2>3, <3>1, NewestIs
    <3>3. first \in certs /\ first.domain = d
      BY <3>1, <3>2 DEF CertRowsOf
    <3>4. certs' = {live(c) : c \in certs}
      BY <2>3
    <3>5. \A c \in certs : /\ live(c) \in CertRow /\ live(c).id = c.id /\ live(c).domain = c.domain
                           /\ live(c) = c \/ (c = first /\ live(c).place = "live")
      <4> SUFFICES ASSUME NEW c \in certs
                   PROVE  /\ live(c) \in CertRow /\ live(c).id = c.id /\ live(c).domain = c.domain
                          /\ live(c) = c \/ (c = first /\ live(c).place = "live")
        OBVIOUS
      <4>1. c \in CertRow
        BY <1>1 DEF CertTypeOK
      <4> HIDE DEF first
      <4> QED BY <4>1 DEF CertRow, Places
    <3> HIDE DEF first, live
    <3>6. certs' \subseteq CertRow
      BY <3>4, <3>5
    <3>7. Ids'
      BY <1>1, <2>3, <3>4, <3>5 DEF Ids
    <3>8. \A c \in certs' : c \in certs \/ (c.domain = d /\ c.place = "live")
      BY <3>3, <3>4, <3>5
    <3>9. \A c \in certs : c.domain # d => c \in certs'
      BY <3>3, <3>4, <3>5
    <3> QED BY <1>1, <2>3, <3>6, <3>7, <3>8, <3>9 DEF CertTypeOK
  <2> QED BY <1>4, <2>1, <2>2, <2>3
<1>6. CertTypeOK'
  BY <1>1, <1>3, <1>4, <1>5 DEF CertTypeOK
<1>7. ConfLoads'
  BY <1>1 DEF CertInv, ConfLoads, HalfWritten, Loadable
<1>8. RowsLoad'
  <2> SUFFICES ASSUME NEW c \in certs', c.domain \notin torn, c.place # "none"
               PROVE  Loadable(c.place, c.domain)'
    BY <1>1 DEF RowsLoad
  <2>1. CASE c \in certs
    BY <1>1, <2>1 DEF CertInv, RowsLoad, HalfWritten, Loadable
  <2>2. CASE c.domain = d /\ c.place = "live"
    BY <1>1, <2>2 DEF Loadable
  <2> QED BY <1>5, <2>1, <2>2
<1>9. CertsWritten'
  <2> SUFFICES ASSUME torn = {}, NEW e \in CertDomains PROVE CertSettled(e)' \/ ToSettle(e)'
    BY <1>1 DEF CertsWritten
  <2>1. OwnDomains'
    BY <1>1, <1>3 DEF OwnDomains
  <2>2. CASE e = d
    BY <1>1, <1>2, <1>3, <2>1, <2>2 DEF ToSettle, OwnDomains
  <2>3. CASE e # d
    <3>1. Named(certs', e) = Named(certs, e)
      BY <1>5, <2>3, NamedSame
    <3>2. CertSettled(e) \/ ToSettle(e)
      BY DEF CertInv, CertsWritten
    <3> QED BY <1>1, <1>3, <2>1, <3>1, <3>2 DEF CertSettled, ToSettle
  <2> QED BY <2>2, <2>3
<1> QED BY <1>3, <1>5, <1>6, <1>7, <1>8, <1>9 DEF CertInv

LEMMA InsertKept ==
  ASSUME CertInv, InsertCert, issuing' = issuing
  PROVE  CertInv'
<1> DEFINE d == Current
<1>1. /\ CertTypeOK /\ Job /\ Ids /\ certJob.pc = "insert" /\ certJob.todo # {}
      /\ d \in torn \/ Loadable("own", d)
      /\ UNCHANGED <<names, pairs, torn, keyFile, certFile, livePair>>
  BY DEF CertInv, Job, Work, InsertCert, FilesKept
<1>2. d \in certJob.todo /\ d \in CertDomains
  BY <1>1, CurrentIs
<1>3. CASE GiveUp /\ UNCHANGED <<certs, certMade>>
  <2>1. Ids' /\ ConfLoads' /\ RowsLoad'
    BY <1>1, <1>3, QuietKept
  <2>2. CertTypeOK'
    BY <1>1, <1>3, GiveUpIs DEF CertTypeOK
  <2> QED BY <1>1, <1>3, <2>1, <2>2, GiveUpIs, GivenUp DEF CertInv
<1>4. CASE /\ AddCert(d, "own") /\ NextDomain /\ CertWorks
           /\ behind' = behind \cup ({DomainSite[d]} \ {certJob.site})
  <2>1. /\ certJob' \in CertJobStates /\ certJob'.pc \in {"refresh", "issue"}
        /\ certJob'.todo = certJob.todo \ {d} /\ certJob'.site = certJob.site
        /\ Job' /\ Work'
    BY <1>1, <1>4, NextDomainIs
  <2> HIDE DEF d
  <2> DEFINE new == [id |-> certMade + 1, domain |-> d, place |-> "own"]
  <2>2. /\ certs' = certs \cup {new}
        /\ certs' \subseteq CertRow /\ certMade' \in 0..MaxCerts /\ Ids'
    BY <1>1, <1>2, <1>4, AddCertIs DEF Places
  <2>3. new.domain = d /\ new.place = "own"
    OBVIOUS
  <2> HIDE DEF new
  <2>4. CertTypeOK'
    <3>1. DomainSite[d] \in CertSites
      BY <1>2 DEF CertSites
    <3> QED BY <1>1, <1>4, <2>1, <2>2, <3>1 DEF CertTypeOK, CertWorks
  <2>5. ConfLoads'
    BY <1>1 DEF CertInv, ConfLoads, HalfWritten, Loadable
  <2>6. RowsLoad'
    BY <1>1, <2>2, <2>3 DEF CertInv, RowsLoad, HalfWritten, Loadable
  <2>7. CertsWritten'
    <3> SUFFICES ASSUME torn = {}, NEW e \in CertDomains PROVE CertSettled(e)' \/ ToSettle(e)'
      BY <1>1 DEF CertsWritten
    <3>1. OwnDomains => OwnDomains'
      BY <2>1 DEF OwnDomains
    <3>2. CASE e = d /\ DomainSite[d] # certJob.site
      BY <1>4, <3>2 DEF CertSettled
    <3>3. CASE e = d /\ DomainSite[d] = certJob.site
      <4>1. OwnDomains
        BY <1>1, <1>2, <3>3 DEF Job, OwnDomains
      <4> QED BY <2>1, <3>1, <3>3, <4>1 DEF ToSettle
    <3>4. CASE e # d
      <4>1. Named(certs', e) = Named(certs, e)
        BY <2>2, <2>3, <3>4, NamedSame
      <4>2. CertSettled(e) \/ ToSettle(e)
        BY DEF CertInv, CertsWritten
      <4> QED BY <1>1, <1>4, <2>1, <3>1, <4>1, <4>2 DEF CertSettled, ToSettle
    <3> QED BY <3>2, <3>3, <3>4
  <2> QED BY <2>1, <2>2, <2>4, <2>5, <2>6, <2>7 DEF CertInv
<1> QED BY <1>3, <1>4 DEF InsertCert

\* The row a deletion is about.
LEMMA DeletedRow ==
  ASSUME CertInv, certJob.pc \in {"files", "row"},
         NEW c, c = CHOOSE o \in certs : o.id = certJob.row
  PROVE  c \in certs /\ c.id = certJob.row /\ certJob.todo = {c.domain}
BY DEF CertInv, Job, Ids

LEMMA DeleteFilesKept ==
  ASSUME CertInv, DeleteFiles, issuing' = issuing
  PROVE  CertInv'
<1>1. PICK c : c = CHOOSE o \in certs : o.id = certJob.row
  OBVIOUS
<1>2. /\ CertTypeOK /\ certJob.pc = "files" /\ c \in certs /\ c.id = certJob.row
      /\ certJob.todo = {c.domain} /\ c \in CertRow /\ 0 \in 0..MaxPairs
  BY <1>1, DeletedRow, CertificatesAssumption DEF DeleteFiles, CertInv, CertTypeOK
<1>3. /\ \/ /\ c.place = "own" /\ CertWorks /\ UNCHANGED livePair
            /\ keyFile' = [keyFile EXCEPT ![c.domain] = 0]
            /\ certFile' = [certFile EXCEPT ![c.domain] = 0]
         \/ /\ c.place = "live" /\ CertWorks /\ UNCHANGED <<keyFile, certFile>>
            /\ livePair' = [livePair EXCEPT ![c.domain] = 0]
         \/ CertWorks /\ UNCHANGED <<keyFile, certFile, livePair>>
         \/ CertFault /\ UNCHANGED <<keyFile, certFile, livePair>>
      /\ torn' = IF c.place # "none" /\ Twins(c) # {} THEN torn \cup {c.domain} ELSE torn
      /\ CertGoTo("row") /\ UNCHANGED <<certs, names, pairs, certMade, behind>>
  BY <1>1 DEF DeleteFiles, FilesKept
<1>4. c.domain \in CertDomains /\ c.place \in {"own", "live", "none"}
  BY <1>2 DEF CertRow, Places
<1>5. /\ certJob' \in CertJobStates /\ certJob'.pc = "row" /\ certJob'.todo = certJob.todo
      /\ certJob'.site = certJob.site /\ certJob'.row = certJob.row
  BY <1>2, <1>3, JobValues
<1>6. /\ keyFile' \in [CertDomains -> 0..MaxPairs] /\ certFile' \in [CertDomains -> 0..MaxPairs]
      /\ livePair' \in [CertDomains -> 0..MaxPairs]
      /\ \A e \in CertDomains \ {c.domain} :
           keyFile'[e] = keyFile[e] /\ certFile'[e] = certFile[e] /\ livePair'[e] = livePair[e]
      /\ c.place # "own" => keyFile' = keyFile /\ certFile' = certFile
      /\ c.place # "live" => livePair' = livePair
  BY <1>2, <1>3, <1>4 DEF CertTypeOK
<1>7. CertTypeOK'
  BY <1>2, <1>3, <1>4, <1>5, <1>6, JobValues DEF CertTypeOK, CertWorks
<1>8. Job' /\ Work' /\ Ids'
  BY <1>2, <1>3, <1>5 DEF CertInv, Job, OwnDomains, Work, Ids
<1>9. \A e \in CertDomains \ {c.domain}, place \in {"own", "live", "plain"} :
        Loadable(place, e)' <=> Loadable(place, e)
  BY <1>6 DEF Loadable
<1>10. ConfLoads'
  <2> SUFFICES ASSUME NEW e \in CertDomains \ torn', e # c.domain PROVE Loadable(names[e], e)'
    BY <1>2, <1>3, <1>5 DEF ConfLoads
  <2>1. Loadable(names[e], e)
    BY <1>2, <1>3 DEF CertInv, ConfLoads, HalfWritten
  <2>2. names[e] \in {"own", "live", "plain"}
    BY <1>2 DEF CertTypeOK, Places
  <2> QED BY <1>3, <1>9, <2>1, <2>2
<1>11. RowsLoad'
  <2> SUFFICES ASSUME NEW o \in certs, o.domain \notin torn', o.place # "none", o # c
               PROVE  Loadable(o.place, o.domain)'
    BY <1>2, <1>3, <1>5 DEF RowsLoad
  <2>1. Loadable(o.place, o.domain) /\ o.domain \in CertDomains /\ o.place \in {"own", "live"}
    BY <1>2, <1>3 DEF CertInv, RowsLoad, HalfWritten, CertTypeOK, CertRow, Places
  <2>2. CASE o.domain # c.domain
    BY <1>9, <2>1, <2>2
  <2>3. CASE o.domain = c.domain
    <3>1. c.place # o.place
      BY <1>3, <2>1, <2>3 DEF Twins
    <3> QED BY <1>6, <2>1, <3>1 DEF Loadable
  <2> QED BY <2>2, <2>3
<1>12. CertsWritten'
  BY <1>2, <1>3, <1>5, GoneOn
<1> QED BY <1>7, <1>8, <1>10, <1>11, <1>12 DEF CertInv

LEMMA DeleteRowKept ==
  ASSUME CertInv, DeleteRow, issuing' = issuing
  PROVE  CertInv'
<1>1. PICK c : c = CHOOSE o \in certs : o.id = certJob.row
  OBVIOUS
<1>2. /\ CertTypeOK /\ Job /\ Ids /\ certJob.pc = "row" /\ c \in certs /\ c.id = certJob.row
      /\ certJob.todo = {c.domain} /\ c \in CertRow /\ OwnDomains
      /\ UNCHANGED <<names, pairs, certMade, keyFile, certFile, livePair>>
  BY <1>1, DeletedRow DEF DeleteRow, CertInv, CertTypeOK, FilesKept, Job
<1>3. c.domain \in CertDomains
  BY <1>2 DEF CertRow
<1>4. CASE certs' = certs \ {c} /\ CertGoTo("refresh") /\ CertWorks /\ GhostsKept
  <2>1. /\ certJob' \in CertJobStates /\ certJob'.pc = "refresh" /\ certJob'.todo = certJob.todo
        /\ certJob'.site = certJob.site
    BY <1>2, <1>4, JobValues
  <2>2. CertTypeOK'
    BY <1>2, <1>4, <2>1 DEF CertTypeOK, CertWorks, GhostsKept
  <2>3. Job' /\ Work' /\ Ids'
    BY <1>2, <1>4, <2>1 DEF Job, OwnDomains, Work, Ids
  <2>4. ConfLoads'
    BY <1>2, <1>4, <2>1 DEF CertInv, ConfLoads, HalfWritten, Loadable, GhostsKept
  <2>5. RowsLoad'
    BY <1>2, <1>4 DEF CertInv, Ids, RowsLoad, HalfWritten, Loadable, GhostsKept
  <2>6. CertsWritten'
    <3> SUFFICES ASSUME torn = {}, NEW e \in CertDomains PROVE CertSettled(e)' \/ ToSettle(e)'
      BY <1>4 DEF CertsWritten, GhostsKept
    <3>1. OwnDomains'
      BY <1>2, <2>1 DEF OwnDomains
    <3>2. CASE e = c.domain
      BY <1>2, <2>1, <3>1, <3>2 DEF ToSettle, OwnDomains
    <3>3. CASE e # c.domain
      <4>1. Named(certs', e) = Named(certs, e)
        BY <1>4, <3>3, NamedSame
      <4>2. CertSettled(e) \/ ToSettle(e)
        BY DEF CertInv, CertsWritten
      <4> QED BY <1>2, <1>4, <2>1, <3>1, <4>1, <4>2 DEF CertSettled, ToSettle, GhostsKept
    <3> QED BY <3>2, <3>3
  <2> QED BY <2>2, <2>3, <2>4, <2>5, <2>6 DEF CertInv
<1>5. CASE GiveUp /\ UNCHANGED certs /\ torn' = torn \cup {c.domain}
  <2>1. CertTypeOK'
    BY <1>2, <1>3, <1>5, GiveUpIs DEF CertTypeOK
  <2>2. ConfLoads'
    BY <1>2, <1>5 DEF CertInv, ConfLoads, HalfWritten, Loadable
  <2>3. RowsLoad'
    BY <1>2, <1>5 DEF CertInv, Ids, RowsLoad, HalfWritten, Loadable
  <2>4. Ids'
    BY <1>2, <1>5 DEF Ids
  <2> QED BY <1>2, <1>5, <2>1, <2>2, <2>3, <2>4, GiveUpIs, GivenUp DEF CertInv
<1> QED BY <1>1, <1>4, <1>5 DEF DeleteRow

\* The configuration of a platform is written, or is left as it was.
LEMMA WriteConfigIs ==
  ASSUME CertInv, NEW s \in CertSites, WriteConfig(s),
         UNCHANGED <<certs, keyFile, certFile, livePair>>
  PROVE  /\ names' \in [CertDomains -> Places \cup {"plain"}] /\ behind' \subseteq CertSites
         /\ torn' \subseteq CertDomains /\ torn \subseteq torn'
         /\ certFailures' \in 0..MaxCertFailures
         /\ \/ /\ torn' = torn /\ \A d \in CertDomains : Loadable(names[d], d)'
               /\ \A d \in CertDomains :
                    CertSettled(d)' \/ (DomainSite[d] # s /\ names'[d] = names[d]
                                        /\ (CertSettled(d) => CertSettled(d)'))
            \/ /\ names' = names /\ torn' = torn \cup certJob.todo
               /\ ~NginxAccepts(Rendered(s, certs)) \/ ~NginxAccepts(Rendered(s, {}))
               /\ behind \subseteq behind'
<1>1. CertTypeOK
  BY DEF CertInv
<1>2. PICK rows \in {certs, {}} :
        /\ IF rows = certs THEN CertWorks ELSE CertFault
        /\ \/ /\ NginxAccepts(Rendered(s, rows)) /\ names' = Rendered(s, rows) /\ UNCHANGED torn
              /\ behind' = IF rows = certs THEN behind \ {s} ELSE behind \cup {s}
           \/ /\ ~NginxAccepts(Rendered(s, rows)) /\ UNCHANGED names
              /\ torn' = torn \cup certJob.todo
              /\ behind' = IF rows = certs /\ torn = {} THEN behind ELSE behind \cup {s}
  BY DEF WriteConfig
<1>3. certFailures' \in 0..MaxCertFailures
  BY <1>1, <1>2, JobValues DEF CertWorks, CertTypeOK
<1>4. CASE /\ NginxAccepts(Rendered(s, rows)) /\ names' = Rendered(s, rows) /\ UNCHANGED torn
           /\ behind' = IF rows = certs THEN behind \ {s} ELSE behind \cup {s}
  <2>1. \A d \in CertDomains : names'[d] = IF DomainSite[d] = s THEN Named(rows, d) ELSE names[d]
    BY <1>4 DEF Rendered
  <2>2. \A d \in CertDomains : Named(rows, d) \in Places \cup {"plain"}
    <3>1. \A d \in CertDomains : Named({}, d) = "plain"
      BY DEF Named
    <3> QED BY <1>1, <3>1, NamedIs
  <2>3. names' \in [CertDomains -> Places \cup {"plain"}]
    BY <1>1, <1>4, <2>1, <2>2 DEF Rendered, CertTypeOK
  <2>4. \A d \in CertDomains : Loadable(names[d], d)'
    BY <1>4 DEF NginxAccepts, Loadable
  <2>5. \A d \in CertDomains : CertSettled(d)' \/ (DomainSite[d] # s /\ names'[d] = names[d]
                                                /\ (CertSettled(d) => CertSettled(d)'))
    <3>1. CASE rows = certs
      BY <1>4, <2>1, <3>1 DEF CertSettled
    <3>2. CASE rows # certs
      BY <1>4, <2>1, <3>2 DEF CertSettled
    <3> QED BY <3>1, <3>2
  <2>6. behind' \subseteq CertSites
    BY <1>1, <1>4 DEF CertTypeOK
  <2> QED BY <1>1, <1>3, <1>4, <2>3, <2>4, <2>5, <2>6 DEF CertTypeOK
<1>5. CASE /\ ~NginxAccepts(Rendered(s, rows)) /\ UNCHANGED names
           /\ torn' = torn \cup certJob.todo
           /\ behind' = IF rows = certs /\ torn = {} THEN behind ELSE behind \cup {s}
  BY <1>1, <1>3, <1>5 DEF CertTypeOK, CertJobStates
<1> QED BY <1>2, <1>4, <1>5

LEMMA RefreshKept ==
  ASSUME CertInv, RefreshConfig, issuing' = issuing
  PROVE  CertInv'
<1>1. /\ CertTypeOK /\ Ids /\ Job /\ certJob.pc = "refresh" /\ certJob.site \in CertSites
      /\ UNCHANGED <<certs, pairs, certMade, keyFile, certFile, livePair>>
  BY DEF RefreshConfig, CertInv, FilesKept, Job
<1>2. Ids'
  BY <1>1 DEF Ids
<1>3. CASE GiveUp /\ UNCHANGED names /\ torn' = torn \cup certJob.todo
  <2>1. CertTypeOK'
    BY <1>1, <1>3, GiveUpIs DEF CertTypeOK, CertJobStates
  <2>2. ConfLoads'
    BY <1>1, <1>3 DEF CertInv, ConfLoads, HalfWritten, Loadable
  <2>3. RowsLoad'
    BY <1>1, <1>3 DEF CertInv, RowsLoad, HalfWritten, Loadable
  <2> QED BY <1>1, <1>2, <1>3, <2>1, <2>2, <2>3, GiveUpIs, GivenUp DEF CertInv
<1>4. CASE WriteConfig(certJob.site) /\ CertEnd
  <2>1. certJob'.pc = "idle" /\ certJob' \in CertJobStates /\ Job' /\ Work' /\ certJob'.todo = {}
    BY <1>4, CertOver DEF CertEnd
  <2>2. /\ names' \in [CertDomains -> Places \cup {"plain"}] /\ behind' \subseteq CertSites
        /\ torn' \subseteq CertDomains /\ torn \subseteq torn'
        /\ certFailures' \in 0..MaxCertFailures
    BY <1>1, <1>4, WriteConfigIs
  <2>3. CertTypeOK'
    BY <1>1, <1>4, <2>1, <2>2 DEF CertTypeOK
  <2>4. RowsLoad'
    BY <1>1, <2>2 DEF CertInv, RowsLoad, HalfWritten, Loadable
  <2>5. CASE /\ torn' = torn /\ \A d \in CertDomains : Loadable(names[d], d)'
             /\ \A d \in CertDomains :
                  CertSettled(d)' \/ (DomainSite[d] # certJob.site /\ names'[d] = names[d]
                                    /\ (CertSettled(d) => CertSettled(d)'))
    <3>1. ConfLoads'
      BY <2>5 DEF ConfLoads
    <3>2. CertsWritten'
      BY <2>5 DEF CertInv, CertsWritten, ToSettle
    <3> QED BY <1>2, <2>1, <2>3, <2>4, <3>1, <3>2 DEF CertInv
  <2>6. CASE /\ names' = names /\ torn' = torn \cup certJob.todo
             /\ \/ ~NginxAccepts(Rendered(certJob.site, certs))
                \/ ~NginxAccepts(Rendered(certJob.site, {}))
    <3>1. ConfLoads'
      BY <1>1, <2>6 DEF CertInv, ConfLoads, HalfWritten, Loadable
    <3>2. torn' # {}
      <4> SUFFICES ASSUME torn = {}, certJob.todo = {}
                   PROVE  /\ NginxAccepts(Rendered(certJob.site, certs))
                          /\ NginxAccepts(Rendered(certJob.site, {}))
        BY <2>6
      <4>1. ASSUME NEW d \in CertDomains
            PROVE  /\ Loadable(Rendered(certJob.site, certs)[d], d)
                   /\ Loadable(Rendered(certJob.site, {})[d], d)
        <5>1. Loadable(names[d], d)
          BY <1>1 DEF CertInv, ConfLoads, HalfWritten
        <5>2. Loadable(Named(certs, d), d)
          <6>1. CASE Named(certs, d) = "plain"
            BY <6>1 DEF Loadable
          <6>2. CASE \E c \in certs : /\ c.domain = d /\ c.place \in Places
                                      /\ Named(certs, d) = c.place
            BY <1>1, <6>2 DEF CertInv, RowsLoad, HalfWritten, Places
          <6> QED BY <1>1, <6>1, <6>2, NamedIs
        <5>3. Loadable(Named({}, d), d)
          BY DEF Named, Loadable
        <5> QED BY <5>1, <5>2, <5>3 DEF Rendered
      <4> QED BY <4>1 DEF NginxAccepts
    <3> QED BY <1>2, <2>1, <2>3, <2>4, <3>1, <3>2 DEF CertInv, CertsWritten
  <2> QED BY <1>1, <1>4, <2>5, <2>6, WriteConfigIs
<1> QED BY <1>3, <1>4 DEF RefreshConfig

LEMMA ChangeKept ==
  ASSUME CertInv, NEW s \in CertSites, ChangePlatform(s), issuing' = issuing
  PROVE  CertInv'
<1>1. /\ CertTypeOK /\ Job /\ Ids /\ Work /\ WriteConfig(s)
      /\ UNCHANGED <<certs, pairs, certMade, certJob, keyFile, certFile, livePair>>
  BY DEF ChangePlatform, CertInv, FilesKept
<1>2. /\ names' \in [CertDomains -> Places \cup {"plain"}] /\ behind' \subseteq CertSites
      /\ torn' \subseteq CertDomains /\ torn \subseteq torn'
      /\ certFailures' \in 0..MaxCertFailures
  BY <1>1, WriteConfigIs
<1>3. CertTypeOK'
  BY <1>1, <1>2 DEF CertTypeOK
<1>4. Ids' /\ Job' /\ Work'
  BY <1>1, <1>2 DEF Ids, Job, OwnDomains, Work, Current, Loadable
<1>5. RowsLoad'
  BY <1>1, <1>2 DEF CertInv, RowsLoad, HalfWritten, Loadable
<1>6. \A d : ToSettle(d)' <=> ToSettle(d)
  BY <1>1 DEF ToSettle, OwnDomains
<1>7. CASE /\ torn' = torn /\ \A d \in CertDomains : Loadable(names[d], d)'
           /\ \A d \in CertDomains :
                CertSettled(d)' \/ (DomainSite[d] # s /\ names'[d] = names[d]
                                  /\ (CertSettled(d) => CertSettled(d)'))
  <2>1. ConfLoads'
    BY <1>7 DEF ConfLoads
  <2>2. CertsWritten'
    BY <1>6, <1>7 DEF CertInv, CertsWritten
  <2> QED BY <1>3, <1>4, <1>5, <2>1, <2>2 DEF CertInv
<1>8. CASE /\ names' = names /\ torn' = torn \cup certJob.todo
           /\ behind \subseteq behind'
  <2>1. ConfLoads'
    BY <1>1, <1>8 DEF CertInv, ConfLoads, HalfWritten, Loadable
  <2>2. torn' = {} => torn = {} /\ \A d : CertSettled(d) => CertSettled(d)'
    BY <1>1, <1>8 DEF CertSettled
  <2>3. CertsWritten'
    BY <1>6, <2>2 DEF CertInv, CertsWritten
  <2> QED BY <1>3, <1>4, <1>5, <2>1, <2>3 DEF CertInv
<1> QED BY <1>1, <1>7, <1>8, WriteConfigIs

\* Every step keeps the invariant.
LEMMA CertStep ==
  ASSUME CertInv, [CertNext]_certVars
  PROVE  CertInv'
<1>1. CASE UNCHANGED certVars
  <2>1. /\ certJob' = certJob
        /\ UNCHANGED <<issuing, certs, keyFile, certFile, livePair, names, pairs, certMade,
                       certFailures, torn, behind>>
    BY <1>1 DEF certVars
  <2>2. CertTypeOK' /\ Job' /\ Ids' /\ Work'
    BY <2>1 DEF CertInv, CertTypeOK, Job, OwnDomains, Ids, Work, Current, Loadable
  <2>3. ConfLoads' /\ RowsLoad'
    BY <2>1 DEF CertInv, ConfLoads, RowsLoad, HalfWritten, Loadable
  <2>4. CertsWritten'
    BY <2>1 DEF CertInv, CertsWritten, CertSettled, ToSettle, OwnDomains
  <2> QED BY <2>2, <2>3, <2>4 DEF CertInv
<1>2. CASE CertNext
  <2> USE <1>2
  <2>1. issuing' = issuing
    BY DEF CertNext
  <2>2. CASE \E s \in CertSites : ChangePlatform(s)
    BY <2>1, <2>2, ChangeKept
  <2>3. ASSUME NEW s \in CertSites, ManageSSLLetsEncrypt(s) \/ ManageSSLSelfSigned(s)
        PROVE  CertInv'
    <3> DEFINE own == {d \in CertDomains : DomainSite[d] = s}
    <3>1. own \in SUBSET CertDomains /\ own # {} /\ own \in SUBSET Nat
      BY CertificatesAssumption DEF CertSites
    <3>2. Least(own) \in own
      <4> HIDE DEF own
      <4> QED BY <3>1, LeastIs
    <3>3. CASE ManageSSLLetsEncrypt(s)
      <4>1. BeginIssue(s, own) /\ \A d \in own : DomainSite[d] = s
        BY <3>3 DEF ManageSSLLetsEncrypt
      <4> HIDE DEF own
      <4> QED BY <2>1, <3>1, <4>1, IssueBegins
    <3>4. CASE ManageSSLSelfSigned(s)
      <4>1. BeginPair(Least(own), s, "openssl")
        BY <3>4 DEF ManageSSLSelfSigned, Least
      <4> HIDE DEF own
      <4> QED BY <2>1, <3>1, <3>2, <4>1, PairBegins
    <3> QED BY <2>3, <3>3, <3>4
  <2>4. ASSUME NEW s \in CertSites, NEW d \in CertDomains,
               AppSSLLetsEncrypt(s, d) \/ ManageSSLImport(d, s) \/ AppSSLSelfSigned(d, s)
        PROVE  CertInv'
    <3>1. {d} \in SUBSET CertDomains /\ {d} # {} /\ \A e, f \in {d} : e = f
      OBVIOUS
    <3> QED BY <2>1, <2>4, <3>1, IssueBegins, PairBegins
            DEF AppSSLLetsEncrypt, ManageSSLImport, AppSSLSelfSigned
  <2>5. ASSUME NEW s \in CertSites, NEW c \in certs, Renew(s, c) \/ BeginDelete(s, c)
        PROVE  CertInv'
    BY <2>1, <2>5, RenewKept, DeleteBegins
  <2>6. CASE \/ PreflightHTTPChallenge \/ CreateForWebsite \/ UpsertIssuedCert \/ CreatePending
             \/ RunHook \/ IssueDry
    BY <2>1, <2>6, PreflightKept, CertbotKept, UpsertKept, CreatePendingKept, RunHookKept,
       IssueDryKept
  <2>7. CASE \/ WriteKey \/ WriteCert \/ CreateSelfSigned \/ InsertCert
             \/ DeleteFiles \/ DeleteRow \/ RefreshConfig
    BY <2>1, <2>7, WriteKeyKept, WriteCertKept, SelfSignedKept, InsertKept, DeleteFilesKept,
       DeleteRowKept, RefreshKept
  <2> QED BY <2>2, <2>3, <2>4, <2>5, <2>6, <2>7 DEF CertNext, CertSteps
<1> QED BY <1>1, <1>2

\* nginx can load every pair its configuration names, and names the pair of the newest row,
\* whatever is asked of the certificates of however many platforms, in whatever order, and
\* whichever steps fail (ssl_service.go, and the handlers of the SSL pages).
THEOREM CertsAreServed == CertSpec => []CertsServed
<1>1. CertInv /\ [CertNext]_certVars => CertInv'
  BY CertStep
<1>2. CertInv => CertsServed
  <2> SUFFICES ASSUME CertInv PROVE CertsServed
    OBVIOUS
  <2>1. ASSUME NEW d \in CertDomains \ (torn \cup certJob.todo) PROVE Loadable(names[d], d)
    BY DEF CertInv, ConfLoads, HalfWritten
  <2>2. ASSUME certJob = NoCertJob, torn = {}, NEW d \in CertDomains
        PROVE  DomainSite[d] \in behind \/ names[d] = Named(certs, d)
    BY <2>2 DEF CertInv, CertsWritten, CertSettled, ToSettle, NoCertJob
  <2> QED BY <2>1, <2>2 DEF CertsServed
<1> QED BY CertInitially, <1>1, <1>2, PTL DEF CertSpec

\* The rows, the files and the configuration of certificates keep their types, for any domains,
\* platforms and failures (SSLService).
THEOREM CertsTyped == CertSpec => []CertTypeOK
<1>1. CertInv => CertTypeOK
  BY DEF CertInv
<1> QED BY CertInitially, CertStep, <1>1, PTL DEF CertSpec

-----------------------------------------------------------------------------
(***************************************************************************)
(* The file manager.  Directories are in the root, what is in a directory   *)
(* goes with it; and when commands take turns the name a paste has chosen   *)
(* is free until it is used.                                                *)
(***************************************************************************)

PathKinds == {"none", "dir", "file", "zip"}
Placeable == [kind : PathKinds, data : Data, holds : SUBSET Entry]
SourceLists == {s \in Seq(Paths) : Len(s) <= 2}
Pasted == [pc : {"idle", "name", "put"}, cut : BOOLEAN, left : SourceLists,
           into : {0} \cup Names, to : {0} \cup Names]

Planted ==
  /\ at \in [Paths -> Placeable]
  /\ \A p \in Paths : Is(p, "dir") => p \in {0} \X DirNames
  /\ \A p \in Paths : p[1] # 0 /\ There(p) => Is(<<0, p[1]>>, "dir")
\* The name a paste has chosen was free when its source was there: it is another's.
Another(p, q) == q \in Paths /\ p # q /\ (p[1] = q[1] \/ q # <<0, p[1]>>)
Pasting ==
  /\ client \in [Clients -> Pasted]
  /\ \A c \in Clients :
       /\ client[c].pc # "idle" => client[c].left # <<>>
       /\ client[c].pc = "put" =>
            Another(client[c].left[1], <<client[c].into, client[c].to>>)
InTurn ==
  /\ \A c \in Clients : client[c].pc = "put" => ~There(<<client[c].into, client[c].to>>)
  /\ \A c, d \in Clients : client[c].pc # "idle" /\ client[d].pc # "idle" => c = d
Tallied ==
  /\ asUser \in BOOLEAN /\ written \in Data /\ last.ok \in BOOLEAN
  /\ fmSteps \in 0..MaxFmSteps /\ fmFailures \in 0..MaxFmFailures
TreeInv == Planted /\ Tallied
FilesInv == TreeInv /\ Pasting

\* What a step says of the paths, and of an extraction.
AllKept ==
  \A p \in Paths : There(p) => at'[p] = at[p] \/ \E q \in Paths : ~There(q) /\ at'[q] = at[p]
OutOf(n, d) ==
  /\ Is(<<0, n>>, "zip") /\ ~There(<<0, d>>) /\ at'[<<0, d>>] = Directory
  /\ {x[2] : x \in {x \in Paths : Child(d, x) /\ at'[x] # Absent}}
       = {e.name : e \in at[<<0, n>>].holds}
StepKeeps ==
  /\ last'.op \in {"paste", "extract", "mkdir"} => AllKept
  /\ last' = [op |-> "extract", ok |-> TRUE] /\ at' # at => \E n, d \in Names : OutOf(n, d)

LEMMA PathParts ==
  ASSUME NEW p \in Paths
  PROVE  /\ p = <<p[1], p[2]>> /\ p[1] \in {0} \cup DirNames /\ p[2] \in Names
         /\ p[1] = 0 \/ p[2] \in LeafNames
<1>1. CASE p \in {0} \X Names
  BY <1>1
<1>2. CASE p \in DirNames \X LeafNames
  <2>1. p = <<p[1], p[2]>> /\ p[1] \in DirNames /\ p[2] \in LeafNames
    BY <1>2
  <2> QED BY <2>1, FmAssumption
<1> QED BY <1>1, <1>2 DEF Paths

LEMMA PathMade ==
  /\ \A n \in Names : <<0, n>> \in Paths
  /\ \A d \in DirNames, n \in LeafNames : <<d, n>> \in Paths
  /\ \A d \in DirNames : d \in Names /\ d # 0
BY FmAssumption DEF Paths

LEMMA KindsApart ==
  /\ Absent \in Placeable /\ Directory \in Placeable
  /\ \A c \in Data : File(c) \in Placeable /\ File(c).kind = "file"
  /\ Absent.kind = "none" /\ Directory.kind = "dir" /\ Directory # Absent
  /\ \A c : File(c) # Absent
BY FmAssumption DEF Absent, Directory, File, Placeable, PathKinds, Data

\* Where nothing is, no directory is; and nothing is in what is no directory.
LEMMA NothingIn ==
  ASSUME Planted, NEW n \in Names, ~Is(<<0, n>>, "dir")
  PROVE  \A x \in Paths : Child(n, x) => ~There(x)
BY FmAssumption DEF Planted, Child
LEMMA NoneThere ==
  ASSUME NEW p, ~There(p)
  PROVE  ~Is(p, "dir")
BY KindsApart DEF There, Is

LEMMA FilesBegin ==
  ASSUME FmInit
  PROVE  FilesInv /\ InTurn
<1>1. Planted
  <2>1. at \in [Paths -> Placeable]
    BY KindsApart, FmAssumption DEF FmInit, Data
  <2>2. ASSUME NEW p \in Paths, Is(p, "dir") PROVE p \in {0} \X DirNames
    <3>1. p[1] = 0 /\ p[2] \in HomeDirs
      BY <2>2, KindsApart, FmAssumption DEF FmInit, Is, Data
    <3> QED BY <3>1, PathParts, FmAssumption
  <2>3. ASSUME NEW p \in Paths, p[1] # 0, There(p) PROVE Is(<<0, p[1]>>, "dir")
    <3>1. p \in HomeFiles
      BY <2>3 DEF FmInit, There
    <3>2. p[1] \in HomeDirs
      BY <3>1, FmAssumption
    <3>3. <<0, p[1]>> \in Paths
      BY <3>2, PathMade, FmAssumption
    <3> QED BY <3>2, <3>3, KindsApart DEF FmInit, Is
  <2> QED BY <2>1, <2>2, <2>3 DEF Planted
<1>2. NoPaste \in Pasted /\ NoPaste.pc = "idle"
  BY DEF NoPaste, Pasted, SourceLists
<1>3. Pasting
  BY <1>2 DEF FmInit, Pasting
<1>4. InTurn
  BY <1>2 DEF FmInit, InTurn
<1> QED BY <1>1, <1>3, <1>4, FmAssumption DEF FilesInv, TreeInv, Tallied, FmInit, Data

\* A command of one step is counted, and leaves the pastes.
LEMMA Aside ==
  ASSUME TreeInv, NEW c \in Clients, Alone(c)
  PROVE  asUser' \in BOOLEAN /\ fmSteps' \in 0..MaxFmSteps /\ client' = client
<1>2. client' = client /\ asUser' = asUser /\ fmSteps < MaxFmSteps /\ fmSteps' = fmSteps + 1
  BY DEF Alone
<1> QED BY <1>2, FmAssumption DEF TreeInv, Tallied
LEMMA FailuresCounted ==
  ASSUME TreeInv, FmWorks \/ FmFault
  PROVE  fmFailures' \in 0..MaxFmFailures
BY FmAssumption DEF TreeInv, Tallied, FmWorks, FmFault
LEMMA Saying ==
  ASSUME NEW op, NEW ok \in BOOLEAN, Did(op, ok)
  PROVE  last'.ok \in BOOLEAN /\ last'.op = op
BY DEF Did
LEMMA SameTree ==
  ASSUME Planted, at' = at
  PROVE  Planted' /\ AllKept
BY DEF Planted, AllKept, Is, There
\* What is put at one path: in the root or in a directory, and no directory before or after.
LEMMA PutAt ==
  ASSUME Planted, NEW p \in Paths, Place(p[1]), ~Is(p, "dir"),
         NEW v \in Placeable, v.kind # "dir", at' = [at EXCEPT ![p] = v]
  PROVE  Planted'
<1>1. at' \in [Paths -> Placeable] /\ \A x \in Paths : at'[x] = IF x = p THEN v ELSE at[x]
  BY DEF Planted
<1>2. \A x \in Paths : Is(x, "dir")' <=> Is(x, "dir")
  BY <1>1 DEF Is
<1>3. ASSUME NEW x \in Paths, x[1] # 0, There(x)' PROVE Is(<<0, x[1]>>, "dir")'
  <2>1. <<0, x[1]>> \in Paths
    BY <1>3, PathParts, PathMade
  <2> QED BY <1>1, <1>2, <1>3, <2>1 DEF Planted, Place, There
<1> QED BY <1>1, <1>2, <1>3 DEF Planted

LEMMA MkdirKeeps ==
  ASSUME TreeInv, NEW c \in Clients, NEW n \in DirNames, CmdMkdir(c, n)
  PROVE  TreeInv' /\ StepKeeps
<1>0. Alone(c) /\ n \in Names /\ <<0, n>> \in Paths /\ Planted
  BY PathMade DEF CmdMkdir, TreeInv
<1>1. Planted' /\ AllKept
  <2>1. CASE at' = at
    BY <1>0, <2>1, SameTree
  <2>2. CASE ~There(<<0, n>>) /\ at' = [at EXCEPT ![<<0, n>>] = Directory]
    <3>1. /\ at' \in [Paths -> Placeable]
          /\ \A x \in Paths : at'[x] = IF x = <<0, n>> THEN Directory ELSE at[x]
      BY <1>0, <2>2, KindsApart DEF Planted
    <3>2. \A x \in Paths : Is(x, "dir")' => x \in {0} \X DirNames
      BY <1>0, <3>1 DEF Planted, Is
    <3>3. ASSUME NEW x \in Paths, x[1] # 0, There(x)' PROVE Is(<<0, x[1]>>, "dir")'
      <4>1. <<0, x[1]>> \in Paths /\ x # <<0, n>> /\ x[1] \in Names
        BY <3>3, PathParts, PathMade
      <4> QED BY <1>0, <3>1, <3>3, <4>1, KindsApart DEF Planted, There, Is
    <3>4. AllKept
      BY <2>2, <3>1 DEF AllKept
    <3> QED BY <3>1, <3>2, <3>3, <3>4 DEF Planted
  <2> QED BY <2>1, <2>2 DEF CmdMkdir, Fails
<1>2. asUser' \in BOOLEAN /\ fmSteps' \in 0..MaxFmSteps
  BY <1>0, Aside
<1>3. fmFailures' \in 0..MaxFmFailures
  BY FailuresCounted DEF CmdMkdir, Fails
<1>4. written' \in Data /\ last'.ok \in BOOLEAN /\ last'.op = "mkdir"
  <2>1. Is(<<0, n>>, "dir") \in BOOLEAN
    BY DEF Is
  <2>2. Did("mkdir", TRUE) \/ Did("mkdir", FALSE) \/ Did("mkdir", Is(<<0, n>>, "dir"))
    BY DEF CmdMkdir, Fails
  <2> QED BY <2>1, <2>2, Saying DEF CmdMkdir, Fails, TreeInv, Tallied
<1>5. last' # [op |-> "extract", ok |-> TRUE]
  BY <1>4
<1> QED BY <1>1, <1>2, <1>3, <1>4, <1>5 DEF TreeInv, Tallied, StepKeeps

LEMMA WriteKeeps ==
  ASSUME TreeInv, NEW c \in Clients, NEW p \in Paths,
         NEW op \in {"mkfile", "put", "upload"}, Write(c, p, op)
  PROVE  TreeInv' /\ StepKeeps
<1>0. Alone(c) /\ Place(p[1]) /\ ~Is(p, "dir") /\ Planted /\ written \in Data
  BY DEF Write, TreeInv, Tallied
<1>1. written' \in Data /\ last'.ok \in BOOLEAN /\ last'.op = op
  <2>1. Did(op, TRUE) \/ Did(op, FALSE)
    BY DEF Write, Fails
  <2>2. written' \in Data
    <3>1. written' = written \/ (written < MaxData /\ written' = written + 1)
      BY DEF Write, Fails
    <3> QED BY <1>0, <3>1, FmAssumption DEF Data
  <2> QED BY <2>1, <2>2, Saying
<1>2. Planted'
  <2>1. CASE at' = at
    BY <1>0, <2>1, SameTree
  <2>2. ASSUME NEW v \in Data, at' = [at EXCEPT ![p] = File(v)] PROVE Planted'
    BY <1>0, <2>2, PutAt, KindsApart
  <2>3. 0 \in Data
    BY FmAssumption DEF Data
  <2> QED BY <1>1, <2>1, <2>2, <2>3 DEF Write, Fails
<1>3. asUser' \in BOOLEAN /\ fmSteps' \in 0..MaxFmSteps
  BY <1>0, Aside
<1>4. fmFailures' \in 0..MaxFmFailures
  BY FailuresCounted DEF Write, Fails
<1>5. last' # [op |-> "extract", ok |-> TRUE] /\ last'.op \notin {"paste", "extract", "mkdir"}
  BY <1>1
<1> QED BY <1>1, <1>2, <1>3, <1>4, <1>5 DEF TreeInv, Tallied, StepKeeps

\* What a removal leaves.
LEMMA RmKeeps ==
  ASSUME TreeInv, NEW c \in Clients, NEW p \in Present, CmdRm(c, p)
  PROVE  TreeInv' /\ StepKeeps
<1>0. Alone(c) /\ Planted /\ p \in Paths
  BY DEF CmdRm, TreeInv, Present
<1>1. Planted'
  <2>0. \A x \in Within(p) : x \in Paths /\ x # p /\ x[1] # 0
    <3>1. Is(p, "dir") => p[1] = 0 /\ p[2] \in DirNames /\ p[2] # 0
      BY <1>0, FmAssumption DEF Planted
    <3> QED BY <3>1 DEF Within, Child
  <2>1. ASSUME NEW gone, gone \subseteq {p} \cup Within(p), at' = Without(gone),
               p \in gone => gone = {p} \cup Within(p)
        PROVE  Planted'
    <3>0. \A x \in Paths : at'[x] = IF x \in gone THEN Absent ELSE at[x]
      BY <2>1 DEF Without
    <3>1. at' \in [Paths -> Placeable]
      BY <1>0, <2>1, KindsApart DEF Planted, Without
    <3>2. \A x \in Paths : Is(x, "dir")' => Is(x, "dir")
      BY <3>0, KindsApart DEF Is
    <3>3. ASSUME NEW x \in Paths, x[1] # 0, There(x)' PROVE Is(<<0, x[1]>>, "dir")'
      <4>1. <<0, x[1]>> \in Paths /\ There(x) /\ x \notin gone
        BY <3>0, <3>3, PathParts, PathMade DEF There
      <4>2. Is(<<0, x[1]>>, "dir")
        BY <1>0, <3>3, <4>1 DEF Planted
      <4>3. <<0, x[1]>> \notin Within(p)
        BY <2>0
      <4>4. <<0, x[1]>> = p => x \in Within(p)
        BY <4>2 DEF Within, Child
      <4>5. <<0, x[1]>> \notin gone
        BY <2>1, <4>1, <4>3, <4>4
      <4> QED BY <3>0, <4>1, <4>2, <4>5 DEF Is
    <3> QED BY <1>0, <3>1, <3>2, <3>3 DEF Planted
  <2>2. p \notin Within(p)
    BY <2>0
  <2> QED BY <2>1, <2>2 DEF CmdRm
<1>2. asUser' \in BOOLEAN /\ fmSteps' \in 0..MaxFmSteps
  BY <1>0, Aside
<1>3. fmFailures' \in 0..MaxFmFailures
  BY FailuresCounted DEF CmdRm
<1>4. written' \in Data /\ last'.ok \in BOOLEAN /\ last'.op = "rm"
  BY Saying DEF CmdRm, TreeInv, Tallied
<1>5. last' # [op |-> "extract", ok |-> TRUE]
  BY <1>4
<1> QED BY <1>1, <1>2, <1>3, <1>4, <1>5 DEF TreeInv, Tallied, StepKeeps

\* A file or a directory goes, or is copied, to where no directory is, and a directory only to
\* where nothing is, in the root.
LEMMA PlacedWell ==
  ASSUME Planted, NEW p \in Paths, NEW q \in Paths, NEW gone \in BOOLEAN,
         There(p), p # q, ~Is(q, "dir"), Place(q[1]),
         Is(p, "dir") => ~There(q) /\ q \in {0} \X DirNames,
         at' = Placed(p, q, gone)
  PROVE  /\ Planted'
         /\ ~There(q) => AllKept
<1>0. \A x \in Paths : x = <<x[1], x[2]>> /\ (x[1] = 0 \/ x[1] \in DirNames)
  BY PathParts
<1>1. CASE ~Is(p, "dir")
  <2>1. /\ at' \in [Paths -> Placeable]
        /\ \A x \in Paths :
             at'[x] = IF x = q THEN at[p] ELSE IF x = p /\ gone THEN Absent ELSE at[x]
    <3>1. at' = [x \in Paths |-> IF x = q THEN at[p] ELSE IF x = p /\ gone THEN Absent ELSE at[x]]
      BY <1>1 DEF Placed, PlacedPart
    <3> QED BY <3>1, KindsApart DEF Planted
  <2>2. \A x \in Paths : Is(x, "dir")' <=> Is(x, "dir")
    BY <1>1, <2>1, KindsApart DEF Is
  <2>3. ASSUME NEW x \in Paths, x[1] # 0, There(x)' PROVE Is(<<0, x[1]>>, "dir")'
    <3>1. <<0, x[1]>> \in Paths
      BY <2>3, PathParts, PathMade
    <3> QED BY <2>1, <2>2, <2>3, <3>1 DEF Planted, Place, There
  <2>4. ASSUME ~There(q) PROVE AllKept
    BY <2>1, <2>4 DEF AllKept
  <2> QED BY <2>1, <2>2, <2>3, <2>4 DEF Planted
<1>2. CASE Is(p, "dir")
  <2>0. /\ p[1] = 0 /\ p[2] \in DirNames /\ q[1] = 0 /\ q[2] \in DirNames /\ p[2] # q[2]
        /\ p[2] # 0 /\ q[2] # 0 /\ ~There(q) /\ q[2] \in Names
    <3>1. p \in {0} \X DirNames /\ q \in {0} \X DirNames
      BY <1>2 DEF Planted
    <3> QED BY <1>0, <1>2, <3>1, PathMade
  <2>1. /\ \A x \in Paths : x[1] = q[2] => <<p[2], x[2]>> \in Paths /\ ~There(x)
        /\ \A x \in Paths : x[1] = p[2] => <<q[2], x[2]>> \in Paths
    <3>1. q = <<0, q[2]>>
      BY <1>0, <2>0
    <3> QED BY <2>0, <3>1, PathParts, PathMade, NothingIn DEF Child
  <2>2. /\ at' \in [Paths -> Placeable]
        /\ \A x \in Paths :
             at'[x] = IF x = q THEN at[p]
                      ELSE IF x[1] = q[2] THEN at[<<p[2], x[2]>>]
                      ELSE IF gone /\ (x = p \/ x[1] = p[2]) THEN Absent ELSE at[x]
    <3>1. at' = [x \in Paths |->
                   IF x = q THEN at[p]
                   ELSE IF x[1] = q[2] THEN at[<<p[2], x[2]>>]
                   ELSE IF gone /\ (x = p \/ x[1] = p[2]) THEN Absent ELSE at[x]]
      <4>1. \A x \in Paths : x[1] = q[2] => <<p[2], x[2]>> \in Within(p)
        BY <1>2, <2>1 DEF Within, Child
      <4> QED BY <1>2, <2>0, <4>1 DEF Placed, PlacedPart, Child
    <3> QED BY <2>1, <3>1, KindsApart DEF Planted
  <2>3. ASSUME NEW x \in Paths, Is(x, "dir")' PROVE x \in {0} \X DirNames
    <3>1. CASE x = q
      BY <1>2, <3>1
    <3>2. CASE x[1] = q[2]
      <4>1. <<p[2], x[2]>> \in Paths /\ Is(<<p[2], x[2]>>, "dir")
        BY <2>0, <2>1, <2>2, <2>3, <3>2 DEF Is
      <4>2. <<p[2], x[2]>> \in {0} \X DirNames
        BY <4>1 DEF Planted
      <4> QED BY <2>0, <4>2
    <3>3. CASE x # q /\ x[1] # q[2]
      BY <2>2, <2>3, <3>3, KindsApart DEF Planted, Is
    <3> QED BY <3>1, <3>2, <3>3
  <2>4. ASSUME NEW x \in Paths, x[1] # 0, There(x)' PROVE Is(<<0, x[1]>>, "dir")'
    <3>0. <<0, x[1]>> \in Paths /\ x # q /\ x # p
      BY <2>0, <2>4, PathParts, PathMade
    <3>1. CASE x[1] = q[2]
      <4>1. <<0, x[1]>> = q
        BY <1>0, <2>0, <3>1
      <4> QED BY <1>2, <2>2, <4>1 DEF Is
    <3>2. CASE x[1] # q[2]
      <4>1. There(x) /\ (gone => x[1] # p[2])
        BY <2>2, <2>4, <3>0, <3>2 DEF There
      <4>2. Is(<<0, x[1]>>, "dir")
        BY <2>4, <4>1 DEF Planted
      <4>3. /\ <<0, x[1]>> # q /\ (gone => <<0, x[1]>> # p)
            /\ <<0, x[1]>>[1] # q[2] /\ <<0, x[1]>>[1] # p[2]
        BY <1>0, <2>0, <3>2, <4>1
      <4> QED BY <2>2, <3>0, <4>2, <4>3 DEF Is
    <3> QED BY <3>1, <3>2
  <2>5. ASSUME NEW x \in Paths, There(x)
        PROVE  at'[x] = at[x] \/ \E y \in Paths : ~There(y) /\ at'[y] = at[x]
    <3>0. x # q /\ x[1] # q[2]
      BY <2>0, <2>1, <2>5
    <3>1. CASE x = p
      BY <2>0, <2>2, <3>1
    <3>2. CASE x[1] = p[2]
      <4>1. /\ <<q[2], x[2]>> \in Paths /\ ~There(<<q[2], x[2]>>) /\ <<q[2], x[2]>> # q
            /\ x = <<p[2], x[2]>>
        BY <1>0, <2>0, <2>1, <3>2
      <4>2. at'[<<q[2], x[2]>>] = at[x]
        BY <2>2, <4>1
      <4> QED BY <4>1, <4>2
    <3>3. CASE x # p /\ x[1] # p[2]
      BY <2>2, <3>0, <3>3
    <3> QED BY <3>1, <3>2, <3>3
  <2> QED BY <2>2, <2>3, <2>4, <2>5 DEF Planted, AllKept
<1> QED BY <1>1, <1>2

\* What a copy that breaks off leaves is where nothing was.
LEMMA CopiedPart ==
  ASSUME Planted, NEW p \in Paths, NEW q \in Paths,
         There(p), p # q, ~Is(q, "dir"), Place(q[1]),
         Is(p, "dir") => ~There(q) /\ q \in {0} \X DirNames,
         NEW whole, whole \subseteq Within(p), NEW cutoff,
         at' = PlacedPart(p, q, FALSE, whole, cutoff)
  PROVE  /\ Planted'
         /\ ~There(q) => AllKept
<1>1. CASE ~Is(p, "dir")
  <2>1. whole = {}
    BY <1>1 DEF Within
  <2>2. at' = [at EXCEPT ![q] = File(0)]
    BY <1>1, <2>1 DEF PlacedPart, Planted
  <2>3. File(0) \in Placeable /\ File(0).kind # "dir"
    BY KindsApart, FmAssumption DEF Data
  <2>4. \A x \in Paths : x # q => at'[x] = at[x]
    BY <2>2 DEF Planted
  <2> QED BY <2>2, <2>3, <2>4, PutAt DEF AllKept
<1>2. CASE Is(p, "dir")
  <2>0. File(0) \in Placeable /\ File(0).kind # "dir"
    BY KindsApart, FmAssumption DEF Data
  <2>1. /\ p[2] \in DirNames /\ p[2] # 0 /\ q = <<0, q[2]>> /\ q[2] \in DirNames /\ q[2] # 0
        /\ ~There(q) /\ q[2] \in Names
    <3>1. p \in {0} \X DirNames /\ q \in {0} \X DirNames
      BY <1>2 DEF Planted
    <3> QED BY <1>2, <3>1, PathMade
  <2>2. \A x \in Paths : x[1] = q[2] => <<p[2], x[2]>> \in Paths /\ ~There(x) /\ x # q
    BY <2>1, PathParts, PathMade, NothingIn, NoneThere DEF Child
  <2>3. /\ at'[q] = at[p]
        /\ \A x \in Paths : x # q /\ x[1] = q[2] =>
             at'[x] \in {at[<<p[2], x[2]>>], File(0), at[x]}
        /\ \A x \in Paths : x # q /\ x[1] # q[2] => at'[x] = at[x]
    BY <1>2 DEF PlacedPart, Child
  <2>4. \A x \in Paths : There(x) => at'[x] = at[x]
    BY <2>1, <2>2, <2>3
  <2>5. at' \in [Paths -> Placeable]
    <3>1. at \in [Paths -> Placeable]
      BY DEF Planted
    <3>2. SUFFICES ASSUME NEW x \in Paths PROVE at'[x] \in Placeable
      BY <3>2 DEF PlacedPart
    <3>3. CASE x = q
      BY <2>3, <3>1, <3>3
    <3>4. CASE x # q /\ x[1] = q[2]
      <4>1. <<p[2], x[2]>> \in Paths
        BY <2>2, <3>4
      <4>2. at[<<p[2], x[2]>>] \in Placeable /\ at[x] \in Placeable
        BY <3>1, <4>1
      <4>3. at'[x] \in {at[<<p[2], x[2]>>], File(0), at[x]}
        BY <2>3, <3>4
      <4> QED BY <2>0, <4>2, <4>3
    <3>5. CASE x # q /\ x[1] # q[2]
      BY <2>3, <3>1, <3>5
    <3> QED BY <3>3, <3>4, <3>5
  <2>6. ASSUME NEW x \in Paths, Is(x, "dir")' PROVE x \in {0} \X DirNames
    <3>1. CASE x = q
      BY <1>2, <3>1
    <3>2. CASE x # q /\ x[1] = q[2]
      <4>1. ~Is(<<p[2], x[2]>>, "dir") /\ ~Is(x, "dir")
        BY <2>1, <2>2, <3>2, NoneThere DEF Planted
      <4>2. at'[x] \in {at[<<p[2], x[2]>>], File(0), at[x]}
        BY <2>3, <3>2
      <4>3. at'[x].kind # "dir"
        BY <2>0, <4>1, <4>2 DEF Is
      <4> QED BY <2>6, <4>3 DEF Is
    <3>3. CASE x # q /\ x[1] # q[2]
      BY <2>3, <2>6, <3>3 DEF Planted, Is
    <3> QED BY <3>1, <3>2, <3>3
  <2>7. ASSUME NEW x \in Paths, x[1] # 0, There(x)' PROVE Is(<<0, x[1]>>, "dir")'
    <3>0. <<0, x[1]>> \in Paths /\ x # q
      BY <2>1, <2>7, PathParts, PathMade
    <3>1. CASE x[1] = q[2]
      BY <1>2, <2>1, <2>3, <3>1 DEF Is
    <3>2. CASE x[1] # q[2]
      <4>1. Is(<<0, x[1]>>, "dir")
        BY <2>3, <2>7, <3>0, <3>2 DEF Planted, There
      <4> QED BY <2>4, <3>0, <4>1, NoneThere DEF Is
    <3> QED BY <3>1, <3>2
  <2> QED BY <2>4, <2>5, <2>6, <2>7 DEF Planted, AllKept
<1> QED BY <1>1, <1>2

\* Where mv or cp puts what is at p, when it is asked to put it at q.
LEMMA Targets ==
  ASSUME Planted, NEW p \in Paths, NEW q \in Paths, There(p), p # q, Place(q[1]),
         p[1] = q[1] \/ q # <<0, p[1]>>, NEW t \in MoveTarget(p, q)
  PROVE  /\ t \in Paths /\ p # t /\ ~Is(t, "dir") /\ Place(t[1])
         /\ Is(p, "dir") => ~There(t) /\ t \in {0} \X DirNames
         /\ ~There(q) => t = q
<1>1. CASE Is(p, "dir")
  <2>1. t = q /\ ~There(q) /\ q \in {0} \X DirNames
    BY <1>1 DEF MoveTarget
  <2> QED BY <2>1, NoneThere
<1>2. CASE ~Is(p, "dir") /\ ~Is(q, "dir")
  BY <1>2 DEF MoveTarget
<1>3. CASE ~Is(p, "dir") /\ Is(q, "dir")
  <2>1. t = <<q[2], p[2]>> /\ t \in Paths
    BY <1>3 DEF MoveTarget
  <2>2. q = <<0, q[2]>> /\ q[2] \in DirNames /\ q[2] # 0
    <3>1. q \in {0} \X DirNames
      BY <1>3 DEF Planted
    <3> QED BY <3>1, PathMade
  <2>3. ~Is(t, "dir")
    <3>1. t \notin {0} \X DirNames
      BY <2>1, <2>2
    <3> QED BY <2>1, <3>1 DEF Planted
  <2>4. t # p
    <3>1. t[1] = q[2] /\ t[1] # 0 /\ q[1] = 0
      BY <2>1, <2>2
    <3>2. p[1] # q[2]
      BY <2>2, <3>1
    <3> QED BY <3>1, <3>2
  <2> QED BY <1>3, <2>1, <2>2, <2>3, <2>4, NoneThere DEF Place
<1> QED BY <1>1, <1>2, <1>3

LEMMA RenameKeeps ==
  ASSUME TreeInv, NEW c \in Clients, NEW p \in Present, NEW n \in Names,
         CmdRename(c, p, n)
  PROVE  TreeInv' /\ StepKeeps
<1> DEFINE q == <<p[1], n>>
<1>0. Alone(c) /\ Planted /\ p \in Paths /\ There(p) /\ q \in Paths /\ p # q
  BY PathParts DEF CmdRename, TreeInv, Present
<1>1. Place(p[1])
  BY <1>0 DEF Planted, Place
<1>2. Planted'
  <2>1. CASE at' = at
    BY <1>0, <2>1, SameTree
  <2>2. ASSUME NEW t \in MoveTarget(p, q), at' = Placed(p, t, TRUE) PROVE Planted'
    <3>1. /\ t \in Paths /\ p # t /\ ~Is(t, "dir") /\ Place(t[1])
          /\ Is(p, "dir") => ~There(t) /\ t \in {0} \X DirNames
      BY <1>0, <1>1, Targets
    <3> QED BY <1>0, <2>2, <3>1, PlacedWell
  <2> QED BY <2>1, <2>2 DEF CmdRename, Fails
<1>3. asUser' \in BOOLEAN /\ fmSteps' \in 0..MaxFmSteps
  BY <1>0, Aside
<1>4. fmFailures' \in 0..MaxFmFailures
  BY FailuresCounted DEF CmdRename, Fails
<1>5. written' \in Data /\ last'.ok \in BOOLEAN /\ last'.op = "rename"
  BY Saying DEF CmdRename, Fails, TreeInv, Tallied
<1>6. last' # [op |-> "extract", ok |-> TRUE]
  BY <1>5
<1> QED BY <1>2, <1>3, <1>4, <1>5, <1>6 DEF TreeInv, Tallied, StepKeeps

LEMMA ArchiveKeeps ==
  ASSUME TreeInv, NEW c \in Clients, NEW sources \in Sources, NEW n \in Names,
         CmdArchive(c, sources, n)
  PROVE  TreeInv' /\ StepKeeps
<1> DEFINE dest == <<sources[1][1], n>>
           read == {[name |-> p[2], data |-> at[p].data, from |-> Seen(p, dest[1])] :
                      p \in {sources[i] : i \in DOMAIN sources} \ {dest}}
<1>0. Alone(c) /\ Planted /\ dest \in Paths /\ written \in Data
  BY DEF CmdArchive, TreeInv, Tallied
<1>1. \A i \in DOMAIN sources : sources[i] \in Paths
  BY DEF Sources, Present
<1>2. 1 \in DOMAIN sources
  BY DEF Sources, Present
<1>3. Place(dest[1])
  <2>1. Is(sources[1], "file")
    BY <1>2 DEF CmdArchive
  <2>2. There(sources[1])
    BY <2>1, KindsApart DEF Is, There
  <2> QED BY <1>0, <1>1, <1>2, <2>2 DEF Planted, Place
<1>4. read \in SUBSET Entry
  <2>1. ASSUME NEW p \in Paths
        PROVE  [name |-> p[2], data |-> at[p].data, from |-> Seen(p, dest[1])] \in Entry
    <3>1. p[2] \in Names /\ at[p].data \in Data
          /\ Seen(p, dest[1]) \in {"beside", "above", "below"}
      BY <1>0, PathParts DEF Planted, Placeable, Seen
    <3> QED BY <3>1 DEF Entry
  <2> QED BY <1>1, <2>1
<1>5. /\ written' \in Data
      /\ at' = at \/ \E v \in Placeable :
                       v.kind # "dir" /\ ~Is(dest, "dir") /\ at' = [at EXCEPT ![dest] = v]
  <2>1. CASE /\ ~Is(dest, "dir") /\ written < MaxData /\ written' = written + 1
             /\ at' = [at EXCEPT ![dest] = [kind |-> "zip", data |-> written', holds |-> read]]
    <3>1. written' \in Data
      BY <1>0, <2>1, FmAssumption DEF Data
    <3>2. /\ [kind |-> "zip", data |-> written', holds |-> read] \in Placeable
          /\ [kind |-> "zip", data |-> written', holds |-> read].kind # "dir"
      BY <1>4, <3>1 DEF Placeable, PathKinds
    <3> QED BY <2>1, <3>1, <3>2
  <2>2. CASE /\ UNCHANGED written
             /\ at' = at \/ (~Is(dest, "dir") /\ at' = [at EXCEPT ![dest] = File(0)])
    <3>1. File(0) \in Placeable /\ File(0).kind # "dir"
      BY KindsApart, FmAssumption DEF Data
    <3> QED BY <1>0, <2>2, <3>1
  <2> QED BY <2>1, <2>2 DEF CmdArchive
<1>6. Planted'
  BY <1>0, <1>3, <1>5, SameTree, PutAt
<1>7. asUser' \in BOOLEAN /\ fmSteps' \in 0..MaxFmSteps
  BY <1>0, Aside
<1>8. fmFailures' \in 0..MaxFmFailures
  BY FailuresCounted DEF CmdArchive
<1>9. last'.ok \in BOOLEAN /\ last'.op = "archive"
  BY Saying DEF CmdArchive
<1>10. last' # [op |-> "extract", ok |-> TRUE]
  BY <1>9
<1> QED BY <1>5, <1>6, <1>7, <1>8, <1>9, <1>10 DEF TreeInv, Tallied, StepKeeps

LEMMA ExtractKeeps ==
  ASSUME TreeInv, NEW c \in Clients, NEW n \in Names, CmdExtract(c, n)
  PROVE  TreeInv' /\ StepKeeps
<1> DEFINE holds == at[<<0, n>>].holds
           within == {e \in holds : Joins(e)}
           Out(d, out, cutoff) ==
             [x \in Paths |->
                IF x = <<0, d>> THEN Directory
                ELSE IF Child(d, x) /\ \E e \in out : e.name = x[2]
                THEN File((CHOOSE e \in out : e.name = x[2]).data)
                ELSE IF Child(d, x) /\ \E e \in cutoff : e.name = x[2] THEN File(0)
                ELSE at[x]]
<1>0. Alone(c) /\ Planted /\ n \in DOMAIN Unpacked /\ holds \subseteq Entry
  BY PathMade DEF CmdExtract, TreeInv, Planted, Placeable
<1>1. asUser' \in BOOLEAN /\ fmSteps' \in 0..MaxFmSteps
  BY <1>0, Aside
<1>2. fmFailures' \in 0..MaxFmFailures
  BY FailuresCounted DEF CmdExtract
<1>3. written' \in Data /\ last'.ok \in BOOLEAN /\ last'.op = "extract"
  BY Saying DEF CmdExtract, TreeInv, Tallied
<1>4. PICK d \in FirstFree(0, Unpacked[n]) :
        \/ \E out \in SUBSET within : \E cutoff \in {{}} \cup {{e} : e \in within \ out} :
             /\ at' = Out(d, out, cutoff)
             /\ \/ Extractable(n) /\ out = within /\ FmWorks /\ Did("extract", TRUE)
                \/ ~Extractable(n) /\ cutoff = {} /\ FmWorks /\ Did("extract", FALSE)
                \/ FmFault /\ Did("extract", FALSE)
        \/ FmFault /\ UNCHANGED at /\ Did("extract", FALSE)
  BY DEF CmdExtract
<1>5. d \in DirNames /\ d \in Names /\ d # 0 /\ ~There(<<0, d>>) /\ <<0, d>> \in Paths
  <2>1. PICK j \in DOMAIN Unpacked[n] :
          d = Unpacked[n][j] /\ <<0, d>> \in Paths /\ ~There(<<0, d>>)
    BY DEF FirstFree
  <2> QED BY <1>0, <2>1, FmAssumption
<1>6. \A x \in Paths : Child(d, x) => ~There(x) /\ x # <<0, d>>
  BY <1>0, <1>5, NothingIn, NoneThere DEF Child
<1>7. CASE FmFault /\ UNCHANGED at /\ Did("extract", FALSE)
  <2>1. Planted' /\ AllKept
    BY <1>0, <1>7, SameTree
  <2>2. last' # [op |-> "extract", ok |-> TRUE]
    BY <1>7 DEF Did
  <2> QED BY <1>1, <1>2, <1>3, <2>1, <2>2 DEF TreeInv, Tallied, StepKeeps
<1>8. ASSUME NEW out \in SUBSET within, NEW cutoff \in {{}} \cup {{e} : e \in within \ out},
             at' = Out(d, out, cutoff),
             \/ Extractable(n) /\ out = within /\ FmWorks /\ Did("extract", TRUE)
             \/ ~Extractable(n) /\ cutoff = {} /\ FmWorks /\ Did("extract", FALSE)
             \/ FmFault /\ Did("extract", FALSE)
      PROVE  TreeInv' /\ StepKeeps
  <2>1. \A x \in Paths : at'[x] # at[x] => ~There(x)
    BY <1>5, <1>6, <1>8
  <2>2. AllKept
    BY <2>1 DEF AllKept
  <2>3. \A x \in Paths :
          /\ x = <<0, d>> => at'[x] = Directory
          /\ Child(d, x) =>
               \/ at'[x] = at[x] /\ ~ \E e \in out : e.name = x[2]
               \/ \E v \in Data : at'[x] = File(v)
          /\ Child(d, x) /\ cutoff = {} /\ (~ \E e \in out : e.name = x[2]) => at'[x] = at[x]
          /\ x # <<0, d>> /\ ~Child(d, x) => at'[x] = at[x]
    <3>1. ASSUME NEW x \in Paths, \E e \in out : e.name = x[2]
          PROVE  (CHOOSE e \in out : e.name = x[2]).data \in Data
      <4>1. (CHOOSE e \in out : e.name = x[2]) \in out
        BY <3>1
      <4> QED BY <1>0, <4>1 DEF Entry
    <3>2. 0 \in Data
      BY FmAssumption DEF Data
    <3> QED BY <1>6, <1>8, <3>1, <3>2
  <2>4. Planted'
    <3>1. at' \in [Paths -> Placeable]
      <4>1. \A x \in Paths : at'[x] \in Placeable
        BY <1>0, <2>3, KindsApart DEF Planted
      <4> QED BY <1>8, <4>1
    <3>2. \A x \in Paths : Is(x, "dir")' => Is(x, "dir") \/ x = <<0, d>>
      BY <2>3, KindsApart DEF Is
    <3>3. \A x \in Paths : Is(x, "dir")' => x \in {0} \X DirNames
      BY <1>0, <1>5, <3>2 DEF Planted
    <3>4. ASSUME NEW x \in Paths, x[1] # 0, There(x)' PROVE Is(<<0, x[1]>>, "dir")'
      <4>1. <<0, x[1]>> \in Paths
        BY <3>4, PathParts, PathMade
      <4>2. CASE x[1] = d
        BY <1>5, <2>3, <4>2, KindsApart DEF Is
      <4>3. CASE x[1] # d
        <5>1. There(x) /\ Is(<<0, x[1]>>, "dir")
          BY <1>0, <1>5, <2>3, <3>4, <4>3 DEF Planted, There, Child
        <5>2. <<0, x[1]>> # <<0, d>> /\ ~Child(d, <<0, x[1]>>)
          BY <1>5, <4>3 DEF Child
        <5> QED BY <2>3, <4>1, <5>1, <5>2 DEF Is
      <4> QED BY <4>2, <4>3
    <3> QED BY <3>1, <3>3, <3>4 DEF Planted
  <2>5. ASSUME last' = [op |-> "extract", ok |-> TRUE]
        PROVE  OutOf(n, d)
    <3>1. Extractable(n) /\ out = within
      <4>1. last'.ok = TRUE
        BY <2>5
      <4> QED BY <1>8, <4>1 DEF Did
    <3>2. Is(<<0, n>>, "zip") /\ out = holds /\ cutoff = {}
      BY <3>1 DEF Extractable
    <3>3. \A e \in holds : e.name \in LeafNames
      BY DEF CmdExtract
    <3>4. ASSUME NEW x \in Paths, Child(d, x), at'[x] # Absent
          PROVE  \E e \in holds : e.name = x[2]
      BY <1>6, <2>3, <3>2, <3>4 DEF There
    <3>5. ASSUME NEW e \in holds
          PROVE  \E x \in Paths : Child(d, x) /\ at'[x] # Absent /\ x[2] = e.name
      <4>1. <<d, e.name>> \in Paths
        BY <1>5, <3>3, PathMade
      <4>2. at'[<<d, e.name>>] # Absent
        BY <2>3, <3>2, <4>1, KindsApart DEF Child
      <4> QED BY <4>1, <4>2 DEF Child
    <3>6. {x[2] : x \in {x \in Paths : Child(d, x) /\ at'[x] # Absent}}
            = {e.name : e \in at[<<0, n>>].holds}
      BY <3>4, <3>5
    <3> QED BY <1>5, <2>3, <3>2, <3>6 DEF OutOf
  <2> QED BY <1>1, <1>2, <1>3, <1>5, <2>2, <2>4, <2>5 DEF TreeInv, Tallied, StepKeeps
<1> QED BY <1>4, <1>7, <1>8

\* A step of a paste moves its request and no other.
LEMMA Pastings ==
  ASSUME Pasting, NEW c \in Clients, NEW new \in Pasted, Pastes(c, new),
         new.pc # "idle" => new.left # <<>>,
         new.pc = "put" => Another(new.left[1], <<new.into, new.to>>)
  PROVE  Pasting'
<1>1. \A d \in Clients : client'[d] = IF d = c THEN new ELSE client[d]
  BY DEF Pastes, Pasting
<1>2. client' \in [Clients -> Pasted]
  BY DEF Pastes, Pasting
<1> QED BY <1>1, <1>2 DEF Pasting
LEMMA PasteEnded == NoPaste \in Pasted /\ NoPaste.pc = "idle"
BY DEF NoPaste, Pasted, SourceLists
LEMMA TailWell ==
  ASSUME NEW s \in Seq(Paths), s # <<>>, Len(s) <= 2, Len(s) # 1
  PROVE  Tail(s) \in SourceLists /\ Tail(s) # <<>>
<1>0. Len(<<>>) = 0 /\ \A x \in Seq(Paths) : x # <<>> => Len(x) \in Nat \ {0}
  BY EmptySeq, Zenon
<1>1. Len(s) = 2
  <2>1. Len(s) \in Nat \ {0}
    BY <1>0
  <2>2. \A k \in Nat \ {0} : k <= 2 /\ k # 1 => k = 2
    OBVIOUS
  <2> QED BY <2>1, <2>2, Zenon
<1>2. Tail(s) \in Seq(Paths) /\ Len(Tail(s)) = 1
  BY <1>1, HeadTailProperties
<1>3. Tail(s) # <<>>
  <2>1. Len(Tail(s)) # Len(<<>>)
    BY <1>0, <1>2
  <2> QED BY <2>1, Zenon
<1> QED BY <1>2, <1>3 DEF SourceLists
LEMMA NextWell ==
  ASSUME Pasting, NEW c \in Clients, client[c].pc # "idle"
  PROVE  /\ NextSource(c) \in Pasted /\ NextSource(c).pc # "put"
         /\ NextSource(c).pc # "idle" => NextSource(c).left # <<>>
         /\ client[c].left[1] \in Paths
<1>1. client[c] \in Pasted /\ client[c].left # <<>>
  BY DEF Pasting
<1>2. client[c].left \in Seq(Paths) /\ Len(client[c].left) <= 2
  BY <1>1 DEF Pasted, SourceLists
<1>3. client[c].left[1] \in Paths
  BY <1>1, <1>2
<1>4. CASE Len(client[c].left) = 1
  BY <1>3, <1>4, PasteEnded DEF NextSource
<1>5. CASE Len(client[c].left) # 1
  <2>1. Tail(client[c].left) \in SourceLists /\ Tail(client[c].left) # <<>>
    BY <1>1, <1>2, <1>5, TailWell
  <2>2. NextSource(c) = [client[c] EXCEPT !.pc = "name", !.left = Tail(client[c].left)]
    BY <1>5 DEF NextSource
  <2>3. NextSource(c) \in Pasted
    BY <1>1, <2>1, <2>2 DEF Pasted
  <2>4. NextSource(c).pc = "name" /\ NextSource(c).left = Tail(client[c].left)
    BY <1>1, <2>2 DEF Pasted
  <2> QED BY <1>3, <2>1, <2>3, <2>4
<1> QED BY <1>4, <1>5

LEMMA PasteKeeps ==
  ASSUME FilesInv, NEW c \in Clients, NEW cut \in BOOLEAN,
         NEW sources \in Sources, NEW d \in {0} \cup DirNames, CmdPaste(c, cut, sources, d)
  PROVE  FilesInv' /\ StepKeeps
<1> DEFINE new == [pc |-> "name", cut |-> cut, left |-> sources, into |-> d, to |-> 0]
<1>1. Planted' /\ AllKept
  BY SameTree DEF CmdPaste, FilesInv, TreeInv
<1>2. sources \in SourceLists /\ sources # <<>>
  <2>1. CASE sources \in {<<p>> : p \in Present}
    <3>1. PICK x \in Paths : sources = <<x>>
      BY <2>1 DEF Present
    <3> QED BY <3>1 DEF SourceLists
  <2>2. CASE sources \in {s \in Present \X Present : s[1] # s[2]}
    <3>1. PICK x \in Paths, y \in Paths : sources = <<x, y>>
      BY <2>2 DEF Present
    <3> QED BY <3>1 DEF SourceLists
  <2> QED BY <2>1, <2>2 DEF Sources
<1>3. Pasting'
  <2>1. new \in Pasted /\ new.pc = "name" /\ new.left = sources
    BY <1>2, PathMade DEF Pasted
  <2>2. Pastes(c, new)
    BY DEF CmdPaste
  <2> QED BY <1>2, <2>1, <2>2, Pastings DEF FilesInv
<1>4. /\ asUser' \in BOOLEAN /\ written' \in Data /\ fmSteps' \in 0..MaxFmSteps
      /\ last'.ok \in BOOLEAN /\ last'.op = "paste"
  <2>1. fmSteps < MaxFmSteps /\ fmSteps' = fmSteps + 1
    BY DEF CmdPaste
  <2>2. fmSteps' \in 0..MaxFmSteps
    BY <2>1, FmAssumption DEF FilesInv, TreeInv, Tallied
  <2> QED BY <2>2, Saying DEF CmdPaste, PasteKept, FilesInv, TreeInv, Tallied
<1>5. fmFailures' \in 0..MaxFmFailures
  BY FailuresCounted DEF FilesInv, CmdPaste
<1>6. last' # [op |-> "extract", ok |-> TRUE]
  BY <1>4
<1> QED BY <1>1, <1>3, <1>4, <1>5, <1>6 DEF FilesInv, TreeInv, Tallied, StepKeeps

LEMMA ChooseKeeps ==
  ASSUME FilesInv, NEW c \in Clients, ChooseName(c)
  PROVE  FilesInv' /\ StepKeeps
<1>1. Planted' /\ AllKept
  BY SameTree DEF ChooseName, FilesInv, TreeInv
<1>2. /\ client[c] \in Pasted /\ client[c].pc = "name" /\ client[c].left # <<>>
      /\ Pasting /\ at' = at
  BY DEF FilesInv, Pasting, ChooseName
<1>3. Pasting'
  <2>1. CASE Pastes(c, NextSource(c))
    BY <1>2, <2>1, NextWell, Pastings
  <2>2. CASE Pastes(c, NoPaste)
    BY <1>2, <2>2, PasteEnded, Pastings
  <2>3. ASSUME NEW n \in AvailableNames(c), There(client[c].left[1]),
               Pastes(c, [client[c] EXCEPT !.pc = "put", !.to = n])
        PROVE  Pasting'
    <3> DEFINE new == [client[c] EXCEPT !.pc = "put", !.to = n]
    <3> DEFINE p == client[c].left[1]
               q == <<client[c].into, n>>
    <3>1. q \in Paths /\ ~There(q) /\ There(p) /\ p \in Paths /\ Planted
      BY <1>2, <2>3, NextWell DEF AvailableNames, FirstFree, FilesInv, TreeInv
    <3>2. n \in Names
      <4>1. q[2] \in Names
        BY <3>1, PathParts
      <4> QED BY <4>1
    <3>3. /\ new \in Pasted /\ new.pc = "put" /\ new.left = client[c].left
          /\ new.into = client[c].into /\ new.to = n
      BY <1>2, <3>2 DEF Pasted
    <3>4. p[1] = 0 \/ There(<<0, p[1]>>)
      BY <3>1, NoneThere DEF Planted
    <3>5. p # q /\ (p[1] = q[1] \/ q # <<0, p[1]>>)
      <4> HIDE DEF p
      <4>1. CASE p[1] = 0 /\ q[1] # 0
        BY <4>1
      <4> QED BY <3>1, <3>4, <4>1
    <3>6. Another(new.left[1], <<new.into, new.to>>)
      BY <3>1, <3>3, <3>5 DEF Another
    <3> QED BY <1>2, <2>3, <3>3, <3>6, Pastings
  <2> QED BY <2>1, <2>2, <2>3 DEF ChooseName
<1>4. /\ asUser' \in BOOLEAN /\ written' \in Data /\ fmSteps' \in 0..MaxFmSteps
      /\ last'.ok \in BOOLEAN /\ last'.op = "paste"
  <2>1. Did("paste", TRUE) \/ Did("paste", FALSE)
    BY DEF ChooseName
  <2> QED BY <2>1, Saying DEF ChooseName, PasteKept, FilesInv, TreeInv, Tallied
<1>5. fmFailures' \in 0..MaxFmFailures
  BY FailuresCounted DEF FilesInv, ChooseName
<1>6. last' # [op |-> "extract", ok |-> TRUE]
  BY <1>4
<1> QED BY <1>1, <1>3, <1>4, <1>5, <1>6 DEF FilesInv, TreeInv, Tallied, StepKeeps

\* What is there at the name by now is replaced, or it goes into a directory of that name.
LEMMA PathKeeps ==
  ASSUME FilesInv, NEW c \in Clients, PastePath(c)
  PROVE  FilesInv' /\ (~There(<<client[c].into, client[c].to>>) => StepKeeps)
<1> DEFINE p == client[c].left[1]
           q == <<client[c].into, client[c].to>>
<1>1. /\ client[c] \in Pasted /\ client[c].pc = "put" /\ client[c].cut \in BOOLEAN
      /\ Planted /\ Pasting /\ Another(p, q) /\ p \in Paths
  <2>1. client[c] \in Pasted /\ client[c].pc = "put" /\ Planted /\ Pasting /\ Another(p, q)
    BY DEF FilesInv, TreeInv, Pasting, PastePath
  <2> QED BY <2>1, NextWell DEF Pasted
<1>2. Planted' /\ (~There(q) => AllKept)
  <2>1. CASE at' = at
    BY <1>1, <2>1, SameTree
  <2>2. ASSUME There(p), Place(q[1]), NEW t \in MoveTarget(p, q),
               at' = Placed(p, t, client[c].cut)
        PROVE  Planted' /\ (~There(q) => AllKept)
    <3>1. q \in Paths /\ p # q /\ (p[1] = q[1] \/ q # <<0, p[1]>>)
      BY <1>1 DEF Another
    <3>2. /\ t \in Paths /\ p # t /\ ~Is(t, "dir") /\ Place(t[1])
          /\ Is(p, "dir") => ~There(t) /\ t \in {0} \X DirNames
          /\ ~There(q) => t = q
      BY <1>1, <2>2, <3>1, Targets
    <3>3. Planted' /\ (~There(t) => AllKept)
      <4> HIDE DEF p, q
      <4> QED BY <1>1, <2>2, <3>2, PlacedWell
    <3> QED BY <3>2, <3>3
  <2>3. ASSUME There(p), Place(q[1]), NEW t \in MoveTarget(p, q),
               NEW whole \in SUBSET Within(p), NEW cutoff,
               at' = PlacedPart(p, t, FALSE, whole, cutoff)
        PROVE  Planted' /\ (~There(q) => AllKept)
    <3>1. q \in Paths /\ p # q /\ (p[1] = q[1] \/ q # <<0, p[1]>>)
      BY <1>1 DEF Another
    <3>2. /\ t \in Paths /\ p # t /\ ~Is(t, "dir") /\ Place(t[1])
          /\ Is(p, "dir") => ~There(t) /\ t \in {0} \X DirNames
          /\ ~There(q) => t = q
      BY <1>1, <2>3, <3>1, Targets
    <3>3. Planted' /\ (~There(t) => AllKept)
      <4> HIDE DEF p, q
      <4> QED BY <1>1, <2>3, <3>2, CopiedPart
    <3> QED BY <3>2, <3>3
  <2> QED BY <2>1, <2>2, <2>3 DEF PastePath
<1>3. Pasting'
  <2>1. CASE Pastes(c, NextSource(c))
    BY <1>1, <2>1, NextWell, Pastings
  <2>2. CASE Pastes(c, NoPaste)
    BY <1>1, <2>2, PasteEnded, Pastings
  <2> QED BY <2>1, <2>2 DEF PastePath
<1>4. /\ asUser' \in BOOLEAN /\ written' \in Data /\ fmSteps' \in 0..MaxFmSteps
      /\ last'.ok \in BOOLEAN /\ last'.op = "paste"
  <2>1. Did("paste", TRUE) \/ Did("paste", FALSE)
    BY DEF PastePath
  <2> QED BY <2>1, Saying DEF PastePath, PasteKept, FilesInv, TreeInv, Tallied
<1>5. fmFailures' \in 0..MaxFmFailures
  BY FailuresCounted DEF FilesInv, PastePath
<1>6. last' # [op |-> "extract", ok |-> TRUE]
  BY <1>4
<1> QED BY <1>2, <1>3, <1>4, <1>5, <1>6 DEF FilesInv, TreeInv, Tallied, StepKeeps

\* Every step keeps shape and pastes, and all but one onto a name that was taken meanwhile
\* keeps the paths, too.
LEMMA FilesKeep ==
  ASSUME FilesInv, [FmNext]_fmVars
  PROVE  /\ FilesInv'
         /\ \/ StepKeeps \/ UNCHANGED fmVars
            \/ \E c \in Clients : client[c].pc = "put" /\ There(<<client[c].into, client[c].to>>)
<1>1. CASE UNCHANGED fmVars
  BY <1>1 DEF fmVars, FilesInv, TreeInv, Planted, Pasting, Tallied, Another, Is, There
<1>2. ASSUME NEW c \in Clients, client' = client, TreeInv' PROVE FilesInv'
  BY <1>2 DEF FilesInv, Pasting, Another
<1>3. TreeInv
  BY DEF FilesInv
<1>4. CASE FmNext
  <2> PICK c \in Clients :
        \/ \E n \in DirNames : CmdMkdir(c, n)
        \/ \E n \in Names : CmdExtract(c, n)
        \/ \E p \in Paths, op \in {"mkfile", "put", "upload"} : Write(c, p, op)
        \/ \E p \in Present, n \in Names : CmdRename(c, p, n)
        \/ \E p \in Present : CmdRm(c, p)
        \/ \E s \in Sources, n \in Names : CmdArchive(c, s, n)
        \/ \E s \in Sources, d \in {0} \cup DirNames, cut \in BOOLEAN : CmdPaste(c, cut, s, d)
        \/ ChooseName(c) \/ PastePath(c)
    BY <1>4 DEF FmNext
  <2>1. CASE \E n \in DirNames : CmdMkdir(c, n)
    BY <1>2, <1>3, <2>1, MkdirKeeps, Aside DEF CmdMkdir
  <2>2. CASE \E n \in Names : CmdExtract(c, n)
    BY <1>2, <1>3, <2>2, ExtractKeeps, Aside DEF CmdExtract
  <2>3. CASE \E p \in Paths, op \in {"mkfile", "put", "upload"} : Write(c, p, op)
    BY <1>2, <1>3, <2>3, WriteKeeps, Aside DEF Write
  <2>4. CASE \E p \in Present, n \in Names : CmdRename(c, p, n)
    BY <1>2, <1>3, <2>4, RenameKeeps, Aside DEF CmdRename
  <2>5. CASE \E p \in Present : CmdRm(c, p)
    BY <1>2, <1>3, <2>5, RmKeeps, Aside DEF CmdRm
  <2>6. CASE \E s \in Sources, n \in Names : CmdArchive(c, s, n)
    BY <1>2, <1>3, <2>6, ArchiveKeeps, Aside DEF CmdArchive
  <2>7. CASE \E s \in Sources, d \in {0} \cup DirNames, cut \in BOOLEAN : CmdPaste(c, cut, s, d)
    BY <2>7, PasteKeeps
  <2>8. CASE ChooseName(c)
    BY <2>8, ChooseKeeps
  <2>9. CASE PastePath(c)
    BY <2>9, PathKeeps DEF PastePath
  <2> QED BY <2>1, <2>2, <2>3, <2>4, <2>5, <2>6, <2>7, <2>8, <2>9
<1> QED BY <1>1, <1>4

\* A command that finds another at work does not start: the name stays free.
LEMMA TurnsKeep ==
  ASSUME FilesInv, InTurn, ~FmOverlapping, [FmNext]_fmVars
  PROVE  InTurn'
<1>0. client \in [Clients -> Pasted]
  BY DEF FilesInv, Pasting
<1>1. CASE UNCHANGED fmVars
  BY <1>1 DEF fmVars, InTurn, There
<1>2. ASSUME \A d \in Clients : client[d].pc = "idle", client' = client PROVE InTurn'
  BY <1>2 DEF InTurn
<1>3. ASSUME NEW c \in Clients, Alone(c) PROVE InTurn'
  BY <1>2, <1>3 DEF Alone
<1>4. ASSUME NEW c \in Clients, NEW new, Pastes(c, new),
             \A d \in Clients \ {c} : client[d].pc = "idle",
             new.pc = "put" => at'[<<new.into, new.to>>] = Absent
      PROVE  InTurn'
  BY <1>0, <1>4 DEF Pastes, InTurn, There
<1>5. ASSUME NEW c \in Clients, NEW cut, NEW s, NEW d, CmdPaste(c, cut, s, d)
      PROVE  InTurn'
  BY <1>4, <1>5 DEF CmdPaste
<1>6. ASSUME NEW c \in Clients, client[c].pc # "idle"
      PROVE  \A d \in Clients \ {c} : client[d].pc = "idle"
  BY <1>6 DEF InTurn
<1>7. ASSUME NEW c \in Clients, ChooseName(c) PROVE InTurn'
  <2>1. /\ client[c].pc = "name" /\ at' = at /\ client[c] \in Pasted /\ Pasting
        /\ \A d \in Clients \ {c} : client[d].pc = "idle"
    BY <1>0, <1>6, <1>7 DEF ChooseName, FilesInv
  <2>2. CASE Pastes(c, NextSource(c)) \/ Pastes(c, NoPaste)
    BY <1>4, <2>1, <2>2, NextWell, PasteEnded
  <2>3. ASSUME NEW n \in AvailableNames(c), Pastes(c, [client[c] EXCEPT !.pc = "put", !.to = n])
        PROVE  InTurn'
    <3> DEFINE new == [client[c] EXCEPT !.pc = "put", !.to = n]
    <3>1. ~There(<<client[c].into, n>>)
      BY <2>3 DEF AvailableNames, FirstFree
    <3>2. new.into = client[c].into /\ new.to = n
      BY <2>1 DEF Pasted
    <3> QED BY <1>4, <2>1, <2>3, <3>1, <3>2 DEF There
  <2> QED BY <1>7, <2>2, <2>3 DEF ChooseName
<1>8. ASSUME NEW c \in Clients, PastePath(c) PROVE InTurn'
  <2>1. client[c].pc = "put" /\ Pasting /\ \A d \in Clients \ {c} : client[d].pc = "idle"
    BY <1>6, <1>8 DEF PastePath, FilesInv
  <2>2. CASE Pastes(c, NextSource(c)) \/ Pastes(c, NoPaste)
    BY <1>4, <2>1, <2>2, NextWell, PasteEnded
  <2> QED BY <1>8, <2>2 DEF PastePath
<1>9. CASE FmNext
  BY <1>3, <1>5, <1>7, <1>8, <1>9 DEF FmNext, CmdMkdir, CmdExtract, Write, CmdRename, CmdRm,
     CmdArchive
<1> QED BY <1>1, <1>9

\* Whether commands overlap or not, the tree keeps its shape, its counts their bounds, and a
\* paste in hand its sources, for any names, trees and failures (elfinder_handler.go).
THEOREM FilesTyped == FmSpec => []FmTypeOK
<1>1. FilesInv => FmTypeOK
  BY DEF FilesInv, TreeInv, Planted, Pasting, Tallied, FmTypeOK, Placeable, PathKinds, Pasted,
         SourceLists
<1> QED BY <1>1, FilesBegin, FilesKeep, PTL DEF FmSpec

\* When commands take turns, a paste, an extraction and a new directory replace nothing, even
\* where they stop half-way, for any names, trees and failures; and an extraction that says it succeeded made a directory with
\* every file of its archive (nextAvailablePath, cmdPaste, uniqueExtractDir, cmdExtract).
THEOREM PathsKeptInTurns ==
  ASSUME ~FmOverlapping
  PROVE  FmSpec => PathsKept
<1>1. FilesInv /\ InTurn /\ [FmNext]_fmVars => (FilesInv /\ InTurn)' /\ [StepKeeps]_fmVars
  BY FilesKeep, TurnsKeep DEF InTurn
<1>2. FmSpec => [][StepKeeps]_fmVars
  BY <1>1, FilesBegin, PTL DEF FmSpec
<1> QED BY <1>2 DEF PathsKept, StepKeeps, AllKept, OutOf

-----------------------------------------------------------------------------
(***************************************************************************)
(* The components beside each other (MCSites).  A step of the whole is a    *)
(* step of the component it belongs to and none of any other, so the whole  *)
(* implements each of them, and what holds of each by itself holds of it.   *)
(***************************************************************************)
SitesComponent ==
  component \in {"databases", "apps", "tools", "deploys", "backups", "certificates", "alerts",
                 "files"}

LEMMA SitesBegin ==
  ASSUME SitesInit
  PROVE  /\ SitesComponent
         /\ DbInit /\ AppsInit /\ ToolsInit /\ DeploysInit /\ BackupsInit /\ CertInit
         /\ AlertsInit /\ FmInit
BY DEF SitesInit, SitesComponent

LEMMA SitesMoveOne ==
  ASSUME [SitesNext]_sitesVars
  PROVE  /\ component' = component
         /\ [DbNext]_dbVars /\ [AppsNext]_appVars /\ [ToolsNext]_toolVars /\ [DeploysNext]_dpVars
         /\ [BackupsNext]_bkVars /\ [CertNext]_certVars /\ [AlertsNext]_alertVars /\ [FmNext]_fmVars
<1>1. CASE UNCHANGED sitesVars
  BY <1>1 DEF sitesVars
<1>2. CASE DatabasesStep
  BY <1>2 DEF DatabasesStep
<1>3. CASE AppsStep
  BY <1>3 DEF AppsStep
<1>4. CASE ToolsStep
  BY <1>4 DEF ToolsStep
<1>5. CASE DeploysStep
  BY <1>5 DEF DeploysStep
<1>6. CASE BackupsStep
  BY <1>6 DEF BackupsStep
<1>7. CASE CertificatesStep
  BY <1>7 DEF CertificatesStep
<1>8. CASE AlertsStep
  BY <1>8 DEF AlertsStep
<1>9. CASE FilesStep
  BY <1>9 DEF FilesStep
<1> QED BY <1>1, <1>2, <1>3, <1>4, <1>5, <1>6, <1>7, <1>8, <1>9 DEF SitesNext

\* The specification of the whole implements that of each component.
THEOREM SitesImplementEach ==
  SitesSpec => /\ DbSpec /\ AppsSpec /\ ToolsSpec /\ DeploysSpec
               /\ BackupsSpec /\ CertSpec /\ AlertsSpec /\ FmSpec
BY SitesBegin, SitesMoveOne, PTL
   DEF SitesSpec, DbSpec, AppsSpec, ToolsSpec, DeploysSpec, BackupsSpec, CertSpec, AlertsSpec,
       FmSpec

\* Rows, files, host and requests of everything that belongs to the platforms stay of the types
\* of the code, however operators, checkers and archives overlap.
THEOREM SitesTyped == SitesSpec => []SitesTypeOK
<1>1. SitesSpec => []SitesComponent
  <2>1. SitesInit => SitesComponent
    BY SitesBegin
  <2>2. SitesComponent /\ [SitesNext]_sitesVars => SitesComponent'
    BY SitesMoveOne DEF SitesComponent
  <2> QED BY <2>1, <2>2, PTL DEF SitesSpec
<1>2. /\ SitesComponent /\ DatabasesTypeOK /\ AppsTypeOK /\ ToolsTypeOK /\ DeploysTypeOK
      /\ BackupsTypeOK /\ CertTypeOK /\ AlertsTypeOK /\ FmTypeOK
      => SitesTypeOK
  BY DEF SitesComponent, SitesTypeOK
<1> QED BY <1>1, <1>2, SitesImplementEach, DatabasesTypes, AppsTypes, ToolsTyped, DeploysTyped,
           BackupsTyped, CertsTyped, AlertsTyped, FilesTyped, PTL

\* When operators take turns and no two archives are begun in one second, what each part
\* promises holds of the whole: databases and applications are as their rows say, tools fit, what is deployed is served, backups hold what
\* was saved, certificates are served and alerts agree with what was seen (the services of
\* src/internal/services, which share no state here).
THEOREM SitesPromises ==
  ASSUME ~DbOverlapping, ~AppOverlapping, ~DpOverlapping, ~BkSameSecond, ~AlOverlapping
  PROVE  SitesSpec => [](/\ DatabasesKept /\ AppsKept /\ ToolsFit /\ DeployedIsServed
                         /\ BackupsHold /\ CertsServed /\ AlertsAgree)
BY SitesImplementEach, DatabasesKeptInTurns, AppsKeptInTurns, ToolsAlwaysFit,
   DeployedIsServedInTurns, BackupsHoldApart, CertsAreServed, AlertsAgreeInTurns, PTL

\* And its steps do what those of the parts do: a restore brings back what the backup held, if
\* the home has no absolute links, and a paste, an extraction and a new directory replace
\* nothing (RestoreBackup, elfinder_handler.go).
THEOREM SitesStepsKeep ==
  ASSUME ~BkSameSecond, BkLinks = {}, ~FmOverlapping
  PROVE  SitesSpec => RestoreBrings /\ PathsKept
BY SitesImplementEach, RestoreBringsApart, PathsKeptInTurns, PTL
=============================================================================

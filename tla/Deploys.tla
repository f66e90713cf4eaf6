------------------------------- MODULE Deploys -------------------------------
(***************************************************************************)
(* The deployments of one platform (SaveDeployConfig, Deploy and            *)
(* RestartRuntime in src/internal/services/platform_ops_service.go): a      *)
(* configuration with the result of the last deployment, a working tree     *)
(* that git brings to a branch of the remote, a build and a restart.        *)
(*                                                                          *)
(* The panel and "deploycp deploy" (src/main.go) run the same code in two   *)
(* processes.  Nothing says that a deployment is under way: the result is   *)
(* written when it ends.                                                    *)
(***************************************************************************)
EXTENDS Integers

CONSTANTS
  Branches,
  DpRequests,     \* handlers and command lines that may be running
  DpOverlapping,  \* may they run together?
  MaxPushes,      \* bound on the commits made
  MaxDpFailures,  \* bound on failing commands, table errors and deaths of the panel
  NoDp

Commits == 0..(MaxPushes + 1)
Unknown == MaxPushes + 1      \* what a build that failed leaves, or files of no commit
DeployConfig == [branch : Branches, restart : BOOLEAN, status : {"", "success", "failed"}]
\* git clone --single-branch follows one branch; a clone users made follows all.
Repository == [follows : SUBSET Branches, refs : [Branches -> Commits \cup {NoDp}]]

ASSUME DeploysAssumption ==
  /\ MaxPushes \in Nat /\ MaxDpFailures \in Nat /\ DpOverlapping \in BOOLEAN
  /\ NoDp \notin Commits \cup Branches \cup DeployConfig \cup Repository

VARIABLES
  remote,     \* the commit each branch has
  pushes,
  deployCfg,  \* table platform_deploy_configs: the row of the platform
  repo,       \* .git of the working tree
  worktree,   \* the commit checked out
  dirty,      \* have tracked files been changed?
  built,      \* the commit a start would run
  serving,    \* the commit that runs, or none
  dp, dpFailures,
  unrecorded  \* did a deployment end with nothing written?

dpVars == <<remote, pushes, deployCfg, repo, worktree, dirty, built, serving, dp, dpFailures,
            unrecorded>>

NoDpReq == [pc |-> "idle", branch |-> NoDp, restart |-> FALSE]
DpRequestStates ==
  [pc : {"idle", "sync", "checkout", "reset", "build", "restart", "record"},
   branch : Branches \cup {NoDp}, restart : BOOLEAN]

-----------------------------------------------------------------------------
DpFault == dpFailures < MaxDpFailures /\ dpFailures' = dpFailures + 1
DpWorks == UNCHANGED dpFailures
DpIdle(r) == /\ dp[r].pc = "idle"
             /\ DpOverlapping \/ \A q \in DpRequests : dp[q].pc = "idle"
DpGoTo(r, pc) == dp' = [dp EXCEPT ![r].pc = pc]
DpFinish(r) == dp' = [dp EXCEPT ![r] = NoDpReq]
Unsynced == UNCHANGED <<repo, worktree, dirty>>

\* UpdateDeployResult writes the columns of the result and no other; it may fail itself.
DpEnds(r, status, why) ==
  /\ DpFinish(r) /\ UNCHANGED <<remote, pushes>>
  /\ \/ why /\ deployCfg' = [deployCfg EXCEPT !.status = status] /\ UNCHANGED unrecorded
     \/ DpFault /\ unrecorded' = TRUE /\ UNCHANGED deployCfg
DpFails(r, why) == DpEnds(r, "failed", why)
Unwritten == UNCHANGED <<remote, pushes, deployCfg, unrecorded>>

(* SaveDeployConfig: the row is written whole, the last result is not carried over.  The
   first one inserts it, and gorm puts the column's default in the place of a FALSE. *)
\* Mutant: the last result is carried over.
KeptStatus == IF deployCfg = NoDp THEN "" ELSE deployCfg.status
StatusAfterSave == ""
SaveDeployConfig(r) ==
  /\ DpIdle(r)
  /\ \E b \in Branches, restart \in BOOLEAN :
       deployCfg' = [branch |-> b, restart |-> restart \/ deployCfg = NoDp,
                     status |-> StatusAfterSave]
  /\ DpWorks
  /\ UNCHANGED <<remote, pushes, repo, worktree, dirty, built, serving, dp, unrecorded>>

(* Deploy: of the configured branch, or one the caller names. *)
DeployRefused(r) == DpIdle(r) /\ UNCHANGED dpVars
BeginDeploy(r) ==
  /\ DpIdle(r) /\ deployCfg # NoDp
  /\ \E b \in Branches :
       dp' = [dp EXCEPT ![r] = [pc |-> "sync", branch |-> b, restart |-> deployCfg.restart]]
  /\ DpWorks /\ Unsynced /\ Unwritten /\ UNCHANGED <<built, serving>>

\* gitSync, no repository yet: a clone, into an empty directory only.
CloneRepo(r) ==
  /\ dp[r].pc = "sync" /\ repo = NoDp
  /\ LET b == dp[r].branch
     IN  \/ /\ worktree = NoDp
            /\ repo' = [follows |-> {b},
                        refs |-> [c \in Branches |-> IF c = b THEN remote[b] ELSE NoDp]]
            /\ worktree' = remote[b] /\ dirty' = FALSE
            /\ DpGoTo(r, "build") /\ DpWorks /\ Unwritten
         \/ worktree = NoDp /\ DpFails(r, DpFault) /\ Unsynced
         \/ worktree # NoDp /\ DpFails(r, DpWorks) /\ Unsynced
  /\ UNCHANGED <<built, serving>>

\* git fetch origin <branch> moves origin/<branch> only if the repository follows it.
FetchBranch(r) ==
  /\ dp[r].pc = "sync" /\ repo # NoDp
  /\ LET b == dp[r].branch
     IN  \/ /\ repo' = IF b \in repo.follows THEN [repo EXCEPT !.refs[b] = remote[b]] ELSE repo
            /\ DpGoTo(r, "checkout") /\ DpWorks /\ Unwritten
         \/ DpFails(r, DpFault) /\ UNCHANGED repo
  /\ UNCHANGED <<worktree, dirty, built, serving>>

\* git checkout -B: fails without origin/<branch>, and may on changed files.
\* Mutant: what is not there is checked out all the same.
AnyTarget(target) == TRUE
Fetched(target) == target # NoDp
CheckoutBranch(r) ==
  /\ dp[r].pc = "checkout"
  /\ LET target == repo.refs[dp[r].branch]
         blocked == ~Fetched(target) \/ (dirty /\ target # worktree)
     IN  \/ /\ Fetched(target) /\ worktree' = target
            /\ DpGoTo(r, "reset") /\ DpWorks /\ Unwritten
         \/ /\ DpFails(r, IF blocked THEN DpWorks ELSE DpFault)
            /\ UNCHANGED worktree
  /\ UNCHANGED <<repo, dirty, built, serving>>
ResetTree(r) ==
  /\ dp[r].pc = "reset"
  /\ \/ /\ worktree' = repo.refs[dp[r].branch] /\ dirty' = FALSE
        /\ DpGoTo(r, "build") /\ DpWorks /\ Unwritten
     \/ DpFails(r, DpFault) /\ UNCHANGED <<worktree, dirty>>
  /\ UNCHANGED <<repo, built, serving>>

\* runDeployCommand; without a command the tree is what runs.
RunDeployCommand(r) ==
  /\ dp[r].pc = "build"
  /\ \/ /\ built' = worktree /\ dirty' \in BOOLEAN
        /\ DpGoTo(r, IF dp[r].restart THEN "restart" ELSE "record") /\ DpWorks /\ Unwritten
     \/ /\ DpFails(r, DpFault)
        /\ built' \in {built, Unknown} /\ dirty' \in BOOLEAN
  /\ UNCHANGED <<repo, worktree, serving>>

RestartRuntime(r) ==
  /\ dp[r].pc = "restart"
  /\ \/ serving' = built /\ DpGoTo(r, "record") /\ DpWorks /\ Unwritten
     \/ serving' \in {serving, NoDp} /\ DpFails(r, DpFault)
  /\ Unsynced /\ UNCHANGED built

RecordSuccess(r) ==
  /\ dp[r].pc = "record"
  /\ DpEnds(r, "success", DpWorks)
  /\ Unsynced /\ UNCHANGED <<built, serving>>

-----------------------------------------------------------------------------
\* Somebody pushes; users change files; the runtime is restarted, stopped, or ends.
Push ==
  /\ pushes < MaxPushes /\ pushes' = pushes + 1
  /\ \E b \in Branches : remote' = [remote EXCEPT ![b] = pushes + 1]
  /\ Unsynced /\ UNCHANGED <<deployCfg, built, serving, dp, dpFailures, unrecorded>>
ChangeFiles ==
  /\ repo # NoDp /\ dirty' = TRUE
  /\ Unwritten /\ UNCHANGED <<repo, worktree, built, serving, dp, dpFailures>>
RuntimeAction ==
  /\ serving' \in {built, NoDp}
  /\ Unwritten /\ Unsynced /\ UNCHANGED <<built, dp, dpFailures>>

\* The panel or the command line is killed, and git or the build with it.
DpCrash ==
  /\ \E r \in DpRequests :
       /\ dp[r].pc # "idle" /\ DpFinish(r)
       /\ unrecorded' = TRUE
       /\ built' \in IF dp[r].pc = "build" THEN {built, Unknown} ELSE {built}
  /\ DpFault /\ Unsynced /\ UNCHANGED <<remote, pushes, deployCfg, serving>>

-----------------------------------------------------------------------------
DeploysInit ==
  /\ remote = [b \in Branches |-> 0] /\ pushes = 0 /\ deployCfg = NoDp
  /\ \/ repo = NoDp /\ worktree \in {NoDp, Unknown}
     \/ repo = [follows |-> Branches, refs |-> remote] /\ worktree = 0
  /\ dirty = FALSE /\ built = Unknown /\ serving = NoDp
  /\ dp = [r \in DpRequests |-> NoDpReq] /\ dpFailures = 0 /\ unrecorded = FALSE

DpStep(r) ==
  \/ SaveDeployConfig(r) \/ DeployRefused(r) \/ BeginDeploy(r) \/ CloneRepo(r)
  \/ FetchBranch(r) \/ CheckoutBranch(r) \/ ResetTree(r) \/ RunDeployCommand(r)
  \/ RestartRuntime(r) \/ RecordSuccess(r)
DeploysNext == Push \/ ChangeFiles \/ RuntimeAction \/ DpCrash \/ \E r \in DpRequests : DpStep(r)
DeploysSpec == DeploysInit /\ [][DeploysNext]_dpVars

-----------------------------------------------------------------------------
(* Properties *)

DeploysTypeOK ==
  /\ remote \in [Branches -> Commits] /\ pushes \in 0..MaxPushes
  /\ deployCfg \in DeployConfig \cup {NoDp}
  /\ repo \in Repository \cup {NoDp} /\ worktree \in Commits \cup {NoDp} /\ dirty \in BOOLEAN
  /\ built \in Commits /\ serving \in Commits \cup {NoDp}
  /\ dp \in [DpRequests -> DpRequestStates]
  /\ dpFailures \in 0..MaxDpFailures /\ unrecorded \in BOOLEAN

\* A platform whose last deployment is shown as a success has the build of the commit that is
\* checked out, and, where the configuration says to restart, nothing older runs (Deploy,
\* UpdateDeployResult; the result is that of this configuration: SaveDeployConfig).
DeployedIsServed ==
  (\A r \in DpRequests : dp[r].pc = "idle") /\ ~unrecorded
    /\ deployCfg # NoDp /\ deployCfg.status = "success" =>
      /\ built = worktree /\ worktree # Unknown
      /\ deployCfg.restart => serving \in {built, NoDp}
=============================================================================

-------------------------------- MODULE Access --------------------------------
(***************************************************************************)
(* Who may use the panel: its users, their sessions, and the middleware     *)
(* that reads the row of the user at the beginning of each request          *)
(* (src/internal/middleware, PanelUserService and AuthService in            *)
(* src/internal/services, AuthHandler and SettingsHandler in                *)
(* src/internal/handlers).  A user keeps its name: renaming is left out.    *)
(***************************************************************************)
EXTENDS Naturals, FiniteSets

CONSTANTS
  Accounts,       \* user names of the panel
  Bootstrap,      \* BOOTSTRAP_ADMIN_USER of the environment, or Nobody
  Browsers,       \* each with its session cookie
  Sites,          \* platforms a user can be given
  Nobody,
  AcOverlapping,  \* may requests overlap?
  MaxAcFailures   \* bound on writes that fail, and restarts of the panel

Roles == {"admin", "site_manager", "user"}
Row == [role : Roles, active : BOOLEAN, isAdmin : BOOLEAN]
NoRow == [role |-> "user", active |-> FALSE, isAdmin |-> FALSE]
\* normalizeInput
Forms == {row \in Row : row.isAdmin = (row.role = "admin")}

ASSUME AccessAssumption ==
  /\ Nobody \notin Accounts /\ Bootstrap \in Accounts \cup {Nobody}
  /\ AcOverlapping \in BOOLEAN /\ MaxAcFailures \in Nat

VARIABLES
  members,   \* rows of the table users
  rows,      \* what the row of a member says
  granted,   \* rows of user_platform_access
  session,   \* the user of each browser's session
  ask,       \* the request of each browser
  acFailures

acVars == <<members, rows, granted, session, ask, acFailures>>

Idle == [pc |-> "idle", op |-> "none", actor |-> Nobody, target |-> Nobody, row |-> NoRow,
         sites |-> {}]
AdminOps == {"create", "update", "delete"}
Ops == AdminOps \cup {"profile"}

-----------------------------------------------------------------------------
IsActive(u) == u \in members /\ rows[u].active
IsAdmin(u) == u \in members /\ rows[u].role = "admin"
\* FirstAdmin does not ask whether the admin is active, and takes the column for the role.
FirstAdmin == {u \in members : IsAdmin(u) \/ rows[u].isAdmin}
NeedsSetup == FirstAdmin = {}
MayAsk(b) == ask[b].pc = "idle" /\ (AcOverlapping \/ \A c \in Browsers : ask[c].pc = "idle")
Answer(b) == ask' = [ask EXCEPT ![b] = Idle]
AcStep(b, pc) == ask' = [ask EXCEPT ![b].pc = pc]
AcFault == acFailures < MaxAcFailures /\ acFailures' = acFailures + 1

AdminRow == [role |-> "admin", active |-> TRUE, isAdmin |-> TRUE]
AddAdmin(u) == /\ members' = members \cup {u} /\ rows' = [rows EXCEPT ![u] = AdminRow]

\* SetupCreate
Setup(u) ==
  /\ NeedsSetup /\ u \notin members
  /\ AddAdmin(u) /\ UNCHANGED <<granted, session, ask, acFailures>>

\* Login and Logout
Login(b, u) ==
  /\ MayAsk(b) /\ IsActive(u)
  /\ session' = [session EXCEPT ![b] = u]
  /\ UNCHANGED <<members, rows, granted, ask, acFailures>>
Logout(b) ==
  /\ MayAsk(b) /\ session[b] # Nobody
  /\ session' = [session EXCEPT ![b] = Nobody]
  /\ UNCHANGED <<members, rows, granted, ask, acFailures>>

\* InjectAuthUser and AuthRequired: the session of a user that is gone or not active ends;
\* when the row cannot be read the request is refused and the session stays.
Expelled(b) ==
  /\ MayAsk(b) /\ session[b] # Nobody /\ ~IsActive(session[b])
  /\ session' = [session EXCEPT ![b] = Nobody]
  /\ UNCHANGED <<members, rows, granted, ask, acFailures>>
LookupFails(b) ==
  /\ MayAsk(b) /\ session[b] # Nobody /\ AcFault
  /\ UNCHANGED <<members, rows, granted, session, ask>>

\* The role of the row decides (AdminOnly); it is read here and not again.
Admitted(u, op) == IsActive(u) /\ (op \in AdminOps => IsAdmin(u))
\* normalizeInput: a user of role "user" has a platform, the others have none.
Wellformed(row, sites) == IF row.role = "user" THEN sites # {} ELSE sites = {}
\* UsersUpdate and UsersDelete.  Mutant: one may deactivate oneself.
OnlyOthersGo(u, op, target, row) == op = "delete" => target # u
SelfKept(u, op, target, row) ==
  target = u => /\ op # "delete"
                /\ op = "update" => row = AdminRow
Protected(target) == target = Bootstrap

Ask(b, op, target, row, sites) ==
  LET u == session[b] IN
  /\ MayAsk(b) /\ u # Nobody /\ Admitted(u, op)
  /\ Wellformed(row, sites) /\ SelfKept(u, op, target, row)
  /\ CASE op = "create"  -> TRUE
       [] op = "update"  -> target \in members
       [] op = "delete"  -> target \in members /\ ~Protected(target) /\ row = NoRow
       [] op = "profile" -> target = u
  /\ ask' = [ask EXCEPT ![b] = [pc |-> "read", op |-> op, actor |-> u, target |-> target,
                                row |-> row, sites |-> sites]]
  /\ UNCHANGED <<members, rows, granted, session, acFailures>>

\* UpdateProfile: the whole row is written back, as it was read.
ReadProfile(b) ==
  LET a == ask[b] IN
  IF a.target \notin members THEN Answer(b)
  ELSE ask' = [ask EXCEPT ![b].pc = "save", ![b].row = rows[a.target]]

\* FindByID and the lookups of duplicates.
Read(b) ==
  LET a == ask[b] IN
  /\ a.pc = "read"
  /\ CASE a.op = "create"  -> IF a.target \in members THEN Answer(b) ELSE AcStep(b, "save")
       [] a.op = "profile" -> ReadProfile(b)
       [] OTHER            -> IF a.target \notin members THEN Answer(b) ELSE AcStep(b, "save")
  /\ UNCHANGED <<members, rows, granted, session, acFailures>>

\* Create: columns that are false take their default, which is true.
Inserted(row) == [row EXCEPT !.active = TRUE, !.isAdmin = TRUE]

\* repo.Create, repo.Update, which writes the whole row and inserts it when it is gone, and
\* repo.Delete.
Save(b) ==
  LET a == ask[b] IN
  /\ a.pc = "save"
  /\ CASE a.op = "create" /\ a.target \in members ->      \* the unique index
            /\ Answer(b) /\ UNCHANGED <<members, rows>>
       [] a.op = "delete" ->
            /\ members' = members \ {a.target}
            /\ rows' = [rows EXCEPT ![a.target] = NoRow] /\ AcStep(b, "grant")
       [] OTHER ->
            /\ members' = members \cup {a.target}
            /\ rows' = [rows EXCEPT ![a.target] =
                          IF a.op = "create" THEN Inserted(a.row) ELSE a.row]
            /\ IF a.op = "profile" THEN Answer(b) ELSE AcStep(b, "grant")
  /\ UNCHANGED <<granted, session, acFailures>>

\* ReplaceForUser, one transaction, and DeleteByUser.
Grants(a) == IF a.op = "delete" THEN {} ELSE a.sites
Grant(b) ==
  LET a == ask[b] IN
  /\ a.pc = "grant"
  /\ granted' = [granted EXCEPT ![a.target] = Grants(a)] /\ Answer(b)
  /\ UNCHANGED <<members, rows, session, acFailures>>

\* A creation whose platforms cannot be written is taken back, if that works.
AcFails(b) ==
  LET a == ask[b]
      takenBack == a.pc = "grant" /\ a.op = "create"
  IN  /\ a.pc # "idle" /\ AcFault /\ Answer(b)
      /\ \/ /\ takenBack /\ members' = members \ {a.target}
            /\ rows' = [rows EXCEPT ![a.target] = NoRow]
         \/ UNCHANGED <<members, rows>>
      /\ UNCHANGED <<granted, session>>

\* The panel restarts: sessions are in the database.  EnsureBootstrapAdmin.
AcRestart ==
  /\ AcFault /\ ask' = [b \in Browsers |-> Idle]
  /\ IF NeedsSetup /\ Bootstrap # Nobody /\ Bootstrap \notin members
     THEN AddAdmin(Bootstrap) ELSE UNCHANGED <<members, rows>>
  /\ UNCHANGED <<granted, session>>

AccessInit ==
  /\ members = {} /\ rows = [u \in Accounts |-> NoRow]
  /\ granted = [u \in Accounts |-> {}]
  /\ session = [b \in Browsers |-> Nobody] /\ ask = [b \in Browsers |-> Idle]
  /\ acFailures = 0
AccessNext ==
  \/ \E u \in Accounts : Setup(u)
  \/ \E b \in Browsers :
       \/ \E u \in Accounts : Login(b, u)
       \/ Logout(b) \/ Expelled(b) \/ LookupFails(b)
       \/ \E op \in Ops, target \in Accounts, row \in Forms, sites \in SUBSET Sites :
            Ask(b, op, target, row, sites)
       \/ Read(b) \/ Save(b) \/ Grant(b) \/ AcFails(b)
  \/ AcRestart
AccessSpec == AccessInit /\ [][AccessNext]_acVars

-----------------------------------------------------------------------------
(* Properties *)

AccessTypeOK ==
  /\ members \subseteq Accounts /\ rows \in [Accounts -> Row]
  /\ granted \in [Accounts -> SUBSET Sites]
  /\ session \in [Browsers -> Accounts \cup {Nobody}]
  /\ ask \in [Browsers -> [pc : {"idle", "read", "save", "grant"}, op : Ops \cup {"none"},
                           actor : Accounts \cup {Nobody}, target : Accounts \cup {Nobody},
                           row : Row, sites : SUBSET Sites]]
  /\ acFailures \in 0..MaxAcFailures

\* Once the panel has users, one of them is an active admin: no sequence of changes locks
\* everybody out of the settings (UsersUpdate, settings_handler.go:637).
AdminRemains == members # {} => \E u \in members : IsActive(u) /\ IsAdmin(u)
=============================================================================

------------------------------ MODULE Databases ------------------------------
(***************************************************************************)
(* The SQL databases of DeployCP: a table of connections, and on the        *)
(* database server a database, an account and its rights for each of them   *)
(* (DatabaseService in src/internal/services/database_service.go).          *)
(*                                                                          *)
(* A creation asks the table whether the user name is free, works on the    *)
(* server statement by statement, and inserts the row last.  The name of    *)
(* the database is compared with nothing: CREATE ... IF NOT EXISTS takes    *)
(* over what is there.  A deletion drops, then forgets.                     *)
(***************************************************************************)
EXTENDS Integers, FiniteSets

CONSTANTS
  DbNames, DbUsers, DbPasswords, DbSites,
  DbForeign,      \* databases the server had before the panel
  DbAccess,       \* how the panel may reach its server: a subset of AllAccess
  DbRequests,     \* handlers that may be running
  MaxDbRows,      \* bound on the rows ever made
  DbOverlapping,  \* may requests be in flight together?
  MaxDbFailures,  \* bound on failing statements, table errors and panel crashes
  NoDb

\* MariaDB, PostgreSQL over TCP, PostgreSQL through runuser and psql
AllAccess == {"mariadb", "dsn", "cli"}
DbIds == 1..MaxDbRows
DbRow == [name : DbNames, user : DbUsers, password : DbPasswords, site : DbSites]

ASSUME DatabasesAssumption ==
  /\ MaxDbRows \in Nat /\ MaxDbFailures \in Nat /\ DbOverlapping \in BOOLEAN
  /\ DbForeign \subseteq DbNames /\ DbAccess \subseteq AllAccess
  /\ NoDb \notin DbIds \cup DbRow \cup DbPasswords

VARIABLES
  access,      \* which server this host has
  connections, \* table database_connections
  bases,       \* databases on the server
  accounts,    \* the password of each account on the server, or none
  grants,      \* who may use which database
  dbReq,       \* each request: where it is and what it holds in memory
  nextDb, dbFailures,
  cutShort,    \* rows a failure or a crash left half-way
  leftUsers,   \* user names of creations or deletions that failed or broke off
  taken        \* databases that two rows, or a row and somebody else, have named

server == <<bases, accounts, grants>>
ghosts == <<cutShort, leftUsers, taken>>
dbVars == <<access, connections, bases, accounts, grants, dbReq, nextDb, dbFailures,
            cutShort, leftUsers, taken>>

Making    == {"base", "account", "grant", "insert"}
NoDbReq == [pc |-> "idle", op |-> "none", id |-> NoDb, row |-> NoDb, rest |-> {}]
DbRequestStates ==
  [pc : {"idle"} \cup Making \cup {"alter", "flush", "save", "drop", "revoke", "forget", "next"},
   op : {"none", "create", "password", "delete", "site"},
   id : DbIds \cup {NoDb}, row : DbRow \cup {NoDb}, rest : SUBSET (DbIds \X DbRow)]

-----------------------------------------------------------------------------
Connected == {i \in DbIds : connections[i] # NoDb}
DbFault   == dbFailures < MaxDbFailures /\ dbFailures' = dbFailures + 1
DbWorks   == UNCHANGED dbFailures

DbIdle(r) == /\ dbReq[r].pc = "idle"
             /\ DbOverlapping \/ \A q \in DbRequests : dbReq[q].pc = "idle"
DbStart(r, op, pc, id, row, rest) ==
  /\ dbReq' = [dbReq EXCEPT ![r] = [pc |-> pc, op |-> op, id |-> id, row |-> row, rest |-> rest]]
  /\ DbWorks /\ UNCHANGED <<access, connections, nextDb, server>>
DbGoTo(r, pc) == dbReq' = [dbReq EXCEPT ![r].pc = pc]
DbFinish(r) == dbReq' = [dbReq EXCEPT ![r] = NoDbReq]
DbBreaks(r) ==
  /\ DbFinish(r)
  /\ cutShort' = IF dbReq[r].id = NoDb THEN cutShort ELSE cutShort \cup {dbReq[r].id}
  /\ leftUsers' = leftUsers \cup {dbReq[r].row.user}
  /\ UNCHANGED taken

-----------------------------------------------------------------------------
\* A page that is stale, or another site's, is refused (websiteDatabaseItem).
NotListed(r) == DbIdle(r) /\ UNCHANGED dbVars

(* CreateDatabase *)
\* Mutant: user names are not compared.
AnyUser(user) == TRUE
UserFree(user) == \A i \in Connected : connections[i].user # user

\* The statements of a provisioning, in the order of each server.
FirstStatement == IF access = "mariadb" THEN "base" ELSE "account"
Later == IF access = "mariadb" THEN [base |-> "account", account |-> "grant", grant |-> "insert"]
         ELSE [account |-> "base", base |-> "insert"]

BeginDb(r) ==
  /\ DbIdle(r)
  /\ nextDb + Cardinality({q \in DbRequests : dbReq[q].op = "create"}) <= MaxDbRows
  /\ \E row \in DbRow : UserFree(row.user)
                        /\ DbStart(r, "create", FirstStatement, NoDb, row, {})
  /\ UNCHANGED ghosts

Somebodys(name) == name \in bases \/ \E i \in Connected : connections[i].name = name
\* CREATE DATABASE IF NOT EXISTS; PostgreSQL gives a new one its owner, who may be gone by then.
CreateBase(r) ==
  /\ dbReq[r].pc = "base"
  /\ LET row == dbReq[r].row
         lone == access # "mariadb" /\ row.name \notin bases /\ accounts[row.user] = NoDb
     IN  \/ /\ ~lone /\ bases' = bases \cup {row.name}
            /\ grants' = IF access = "mariadb" \/ row.name \in bases THEN grants
                         ELSE grants \cup {<<row.user, row.name>>}
            /\ taken' = IF Somebodys(row.name) THEN taken \cup {row.name} ELSE taken
            /\ DbGoTo(r, Later.base) /\ DbWorks /\ UNCHANGED <<cutShort, leftUsers>>
         \/ (IF lone THEN DbWorks ELSE DbFault) /\ DbBreaks(r) /\ UNCHANGED <<bases, grants>>
  /\ UNCHANGED <<access, connections, nextDb, accounts>>

\* An account that exists keeps its password, but for psql, which alters it.
PasswordAfter(old, new) == IF old = NoDb \/ access = "cli" THEN new ELSE old
CreateAccount(r) ==
  /\ dbReq[r].pc = "account"
  /\ LET row == dbReq[r].row
     IN  \/ /\ accounts' = [accounts EXCEPT ![row.user] = PasswordAfter(@, row.password)]
            /\ DbGoTo(r, Later.account) /\ DbWorks /\ UNCHANGED ghosts
         \/ DbFault /\ DbBreaks(r) /\ UNCHANGED accounts
  /\ UNCHANGED <<access, connections, nextDb, bases, grants>>

\* Nothing is granted to a user another request has dropped.
GrantAll(r) ==
  /\ dbReq[r].pc = "grant"
  /\ LET row == dbReq[r].row
         lone == accounts[row.user] = NoDb
     IN  \/ /\ ~lone /\ grants' = grants \cup {<<row.user, row.name>>}
            /\ DbGoTo(r, Later.grant) /\ DbWorks /\ UNCHANGED ghosts
         \/ (IF lone THEN DbWorks ELSE DbFault) /\ DbBreaks(r) /\ UNCHANGED grants
  /\ UNCHANGED <<access, connections, nextDb, bases, accounts>>

\* The row last; when it cannot be inserted everything is dropped again.
InsertConnection(r) ==
  /\ dbReq[r].pc = "insert"
  /\ \/ /\ nextDb \in DbIds
        /\ connections' = [connections EXCEPT ![nextDb] = dbReq[r].row]
        /\ nextDb' = nextDb + 1 /\ DbFinish(r) /\ DbWorks
     \/ DbFault /\ DbGoTo(r, "drop") /\ UNCHANGED <<connections, nextDb>>
  /\ UNCHANGED <<access, server, ghosts>>

-----------------------------------------------------------------------------
(* DeleteDatabase, the undo of a creation, and the databases of a platform that is deleted. *)
BeginDropDb(r) ==
  /\ DbIdle(r)
  /\ \E i \in Connected : DbStart(r, "delete", "drop", i, connections[i], {})
  /\ UNCHANGED ghosts

OfSite(s) == {i \in Connected : connections[i].site = s}
BeginSiteDbs(r) ==
  /\ DbIdle(r)
  /\ \E s \in DbSites : /\ OfSite(s) # {}
                        /\ DbStart(r, "site", "next", NoDb, NoDb,
                                   {<<i, connections[i]>> : i \in OfSite(s)})
  /\ UNCHANGED ghosts
\* The rows of one listing, as they were when it was read.
NextDbOfSite(r) ==
  /\ dbReq[r].pc = "next"
  /\ \/ /\ dbReq[r].rest = {} /\ DbFinish(r)
     \/ \E item \in dbReq[r].rest :
          /\ \A other \in dbReq[r].rest : other[1] <= item[1]
          /\ dbReq' = [dbReq EXCEPT ![r].pc = "drop", ![r].id = item[1],
                         ![r].row = item[2], ![r].rest = @ \ {item}]
  /\ DbWorks /\ UNCHANGED <<access, connections, nextDb, server, ghosts>>

\* Dropping a database takes its owner's rights on PostgreSQL, and leaves grants on MariaDB.
DropBase(r) ==
  /\ dbReq[r].pc = "drop"
  /\ LET row == dbReq[r].row
     IN  \/ /\ bases' = bases \ {row.name}
            /\ grants' = IF access = "mariadb" THEN grants
                         ELSE {g \in grants : g[2] # row.name}
            /\ DbGoTo(r, "revoke") /\ DbWorks /\ UNCHANGED ghosts
         \/ DbFault /\ DbBreaks(r) /\ UNCHANGED <<bases, grants>>
  /\ UNCHANGED <<access, connections, nextDb, accounts>>

\* canDropDatabaseUser: no other row has the user.
MayDropUser(r) == \A i \in Connected \ {dbReq[r].id} : connections[i].user # dbReq[r].row.user
\* PostgreSQL refuses to drop a role that still owns something.
Droppable(user) == access = "mariadb" \/ \A g \in grants : g[1] # user
DropAccount(r) ==
  /\ dbReq[r].pc = "revoke"
  /\ LET user == dbReq[r].row.user
         go   == IF dbReq[r].op = "create" THEN DbFinish(r) ELSE DbGoTo(r, "forget")
         drop == /\ accounts' = [accounts EXCEPT ![user] = NoDb]
                 /\ grants' = {g \in grants : g[1] # user}
         keep == UNCHANGED <<accounts, grants>>
     IN  \/ ~MayDropUser(r) /\ keep /\ go /\ DbWorks /\ UNCHANGED ghosts
         \/ MayDropUser(r) /\ Droppable(user) /\ drop /\ go /\ DbWorks /\ UNCHANGED ghosts
         \/ /\ MayDropUser(r) /\ keep
            /\ IF Droppable(user) THEN DbFault ELSE DbWorks
            /\ IF access = "cli" THEN DbBreaks(r)     \* the others ignore the error
               ELSE go /\ leftUsers' = leftUsers \cup {user} /\ UNCHANGED <<cutShort, taken>>
  /\ UNCHANGED <<access, connections, nextDb, bases>>

ForgetConnection(r) ==
  /\ dbReq[r].pc = "forget"
  /\ \/ /\ connections' = [connections EXCEPT ![dbReq[r].id] = NoDb]
        /\ IF dbReq[r].op = "site" THEN DbGoTo(r, "next") ELSE DbFinish(r)
        /\ DbWorks /\ UNCHANGED ghosts
     \/ DbFault /\ DbBreaks(r) /\ UNCHANGED connections
  /\ UNCHANGED <<access, nextDb, server>>

-----------------------------------------------------------------------------
(* UpdateDatabasePassword: the server first, the table last, the row as it was read. *)
BeginDbPassword(r) ==
  /\ DbIdle(r)
  /\ \E i \in Connected, p \in DbPasswords :
       DbStart(r, "password", "alter", i, [connections[i] EXCEPT !.password = p], {})
  /\ UNCHANGED ghosts

\* MariaDB's answer to ALTER USER is thrown away; only the FLUSH after it is looked at.
AlterAccount(r) ==
  /\ dbReq[r].pc = "alter"
  /\ LET row == dbReq[r].row
         on  == access = "mariadb"
         go  == DbGoTo(r, IF on THEN "flush" ELSE "save")
     IN  \/ /\ accounts[row.user] # NoDb
            /\ accounts' = [accounts EXCEPT ![row.user] = row.password]
            /\ go /\ DbWorks /\ UNCHANGED ghosts
         \/ /\ UNCHANGED accounts
            /\ IF accounts[row.user] = NoDb THEN DbWorks ELSE DbFault
            /\ IF on THEN /\ go /\ cutShort' = cutShort \cup {dbReq[r].id}
                          /\ UNCHANGED <<leftUsers, taken>>
               ELSE DbFinish(r) /\ UNCHANGED ghosts
  /\ UNCHANGED <<access, connections, nextDb, bases, grants>>

FlushPrivileges(r) ==
  /\ dbReq[r].pc = "flush"
  /\ \/ DbGoTo(r, "save") /\ DbWorks /\ UNCHANGED ghosts
     \/ DbFault /\ DbBreaks(r)
  /\ UNCHANGED <<access, connections, nextDb, server>>

SaveConnection(r) ==
  /\ dbReq[r].pc = "save"
  /\ \/ /\ connections' = [connections EXCEPT ![dbReq[r].id] = dbReq[r].row]
        /\ DbFinish(r) /\ DbWorks /\ UNCHANGED ghosts
     \/ DbFault /\ DbBreaks(r) /\ UNCHANGED connections
  /\ UNCHANGED <<access, nextDb, server>>

\* The panel dies: what was in flight stays as it is.
DbCrash ==
  LET lost == {r \in DbRequests : dbReq[r].pc # "idle" /\ dbReq[r].row # NoDb}
  IN  /\ \E r \in DbRequests : dbReq[r].pc # "idle"
      /\ DbFault
      /\ dbReq' = [r \in DbRequests |-> NoDbReq]
      /\ cutShort' = cutShort \cup ({dbReq[r].id : r \in lost} \ {NoDb})
      /\ leftUsers' = leftUsers \cup {dbReq[r].row.user : r \in lost}
      /\ UNCHANGED <<access, connections, nextDb, server, taken>>

-----------------------------------------------------------------------------
DbInit ==
  /\ access \in DbAccess
  /\ connections = [i \in DbIds |-> NoDb]
  /\ bases = DbForeign /\ accounts = [u \in DbUsers |-> NoDb] /\ grants = {}
  /\ dbReq = [r \in DbRequests |-> NoDbReq]
  /\ nextDb = 1 /\ dbFailures = 0 /\ cutShort = {} /\ leftUsers = {} /\ taken = {}

DbStep(r) ==
  \/ NotListed(r) \/ BeginDb(r) \/ CreateBase(r) \/ CreateAccount(r) \/ GrantAll(r)
  \/ InsertConnection(r) \/ BeginDropDb(r) \/ BeginSiteDbs(r) \/ NextDbOfSite(r)
  \/ DropBase(r) \/ DropAccount(r) \/ ForgetConnection(r)
  \/ BeginDbPassword(r) \/ AlterAccount(r) \/ FlushPrivileges(r) \/ SaveConnection(r)
DbNext == DbCrash \/ \E r \in DbRequests : DbStep(r)
DbSpec == DbInit /\ [][DbNext]_dbVars

-----------------------------------------------------------------------------
(* Properties *)

\* Tables, server and requests are of the types of the code; a right is that of an account
\* and, on PostgreSQL, to a database that is there.
DatabasesTypeOK ==
  /\ access \in AllAccess
  /\ connections \in [DbIds -> DbRow \cup {NoDb}]
  /\ bases \subseteq DbNames /\ accounts \in [DbUsers -> DbPasswords \cup {NoDb}]
  /\ grants \subseteq DbUsers \X DbNames
  /\ \A g \in grants : accounts[g[1]] # NoDb /\ (access # "mariadb" => g[2] \in bases)
  /\ dbReq \in [DbRequests -> DbRequestStates]
  /\ nextDb \in 1..(MaxDbRows + 1) /\ dbFailures \in 0..MaxDbFailures
  /\ cutShort \subseteq DbIds /\ leftUsers \subseteq DbUsers /\ taken \subseteq DbNames

AtConnection(i) == \E r \in DbRequests : dbReq[r].id = i
\* Nothing failed on this row or its user, and the database is its alone.
Undisturbed(i) == /\ i \notin cutShort /\ ~AtConnection(i)
                  /\ connections[i].user \notin leftUsers /\ connections[i].name \notin taken

\* The password the panel shows opens the database it shows, whatever other
\* connections and their users have come and gone (CreateDatabase, dropManagedDatabase,
\* UpdateDatabasePassword).
ConnectionsOpen ==
  \A i \in Connected : Undisturbed(i) =>
    LET row == connections[i]
    IN  /\ row.name \in bases /\ accounts[row.user] = row.password
        /\ <<row.user, row.name>> \in grants

InFlight == {dbReq[r].row : r \in {q \in DbRequests : dbReq[q].row # NoDb}}
Shown    == {connections[i] : i \in Connected} \cup InFlight
\* An account on the server, and its right to a database, is that of a connection, of a
\* request in flight, or of one that failed: a deletion that succeeds leaves no user who
\* could read the next database of that name (canDropDatabaseUser, dropMariaDB, dropPostgres).
AccountsOwned ==
  /\ \A u \in DbUsers : accounts[u] # NoDb => u \in leftUsers \/ \E row \in Shown : row.user = u
  /\ \A g \in grants : g[1] \in leftUsers
                       \/ \E row \in Shown : row.user = g[1] /\ row.name = g[2]

\* The panel and the server agree both ways.
DatabasesKept == ConnectionsOpen /\ AccountsOwned
=============================================================================

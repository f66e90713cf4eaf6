--------------------------- MODULE DatabasesProofs ---------------------------
(***************************************************************************)
(* Proofs about the databases (Databases): when requests take turns, the    *)
(* table of connections and the server agree both ways, for any databases,  *)
(* users, requests, failures and deaths of the panel.                       *)
(***************************************************************************)
EXTENDS Databases, TLAPS

-----------------------------------------------------------------------------
(* What a request has done to the server, at each of its steps.             *)

DbTurns ==
  \A r, q \in DbRequests : dbReq[r].pc # "idle" /\ dbReq[q].pc # "idle" => r = q

\* A user, and a database, that are no connection's; an account that is gone.
NewUser(row) == \A i \in Connected : connections[i].user # row.user
NewName(row) == \A i \in Connected : connections[i].name = row.name => row.name \in taken
Gone(user) == user \in leftUsers \/ accounts[user] = NoDb
HasRight(row) == <<row.user, row.name>> \in grants
HasPassword(row) == accounts[row.user] = row.password
Clear(i) == i \notin cutShort /\ connections[i].user \notin leftUsers
            /\ connections[i].name \notin taken
Opens(i) == connections[i].name \in bases /\ HasPassword(connections[i])
            /\ HasRight(connections[i])

\* A creation: what is there of the account, of the database and of the right.
AccountAhead(r) == dbReq[r].pc = "account" \/ (dbReq[r].pc = "base" /\ access = "mariadb")
BaseDone(r) == dbReq[r].pc \in {"grant",
  "insert"} \/ (dbReq[r].pc = "account" /\ access = "mariadb")
Creating(r) ==
  LET row == dbReq[r].row IN
  /\ dbReq[r].op = "create" /\ dbReq[r].id = NoDb /\ row \in DbRow /\ dbReq[r].rest = {}
  /\ NewUser(row)
  /\ dbReq[r].pc = "grant" => access = "mariadb"
  /\ AccountAhead(r) => Gone(row.user)
  /\ ~AccountAhead(r) => accounts[row.user] # NoDb /\ (row.user \in leftUsers \/ HasPassword(row))
  /\ BaseDone(r) => row.name \in bases /\ NewName(row)
  /\ dbReq[r].pc = "insert" => row.name \in taken \/ HasRight(row)

\* A deletion of a row, or the undo of a creation.
Dropping(r) ==
  LET row == dbReq[r].row IN
  /\ row \in DbRow
  /\ \/ dbReq[r].op = "create" /\ dbReq[r].id = NoDb /\ NewUser(row) /\ NewName(row)
     \/ dbReq[r].op \in {"delete", "site"} /\ dbReq[r].id \in DbIds
        /\ connections[dbReq[r].id] = row
Forgetting(r) ==
  /\ dbReq[r].op \in {"delete", "site"} /\ dbReq[r].id \in DbIds /\ dbReq[r].row \in DbRow
  /\ connections[dbReq[r].id] = dbReq[r].row /\ Gone(dbReq[r].row.user)
Listing(r) ==
  /\ dbReq[r].op = "site"
  /\ \/ dbReq[r].id = NoDb /\ dbReq[r].row = NoDb
     \/ dbReq[r].id \in DbIds /\ connections[dbReq[r].id] = NoDb /\ dbReq[r].row \in DbRow
        /\ Gone(dbReq[r].row.user)
DbRest(r) ==
  /\ \A item \in dbReq[r].rest : connections[item[1]] = item[2] /\ item[1] # dbReq[r].id
  /\ dbReq[r].op # "site" => dbReq[r].rest = {}

\* A change of the password.
Altering(r) ==
  LET row == dbReq[r].row
      i   == dbReq[r].id
  IN  /\ dbReq[r].op = "password" /\ i \in Connected /\ row \in DbRow
      /\ row.user = connections[i].user /\ row.name = connections[i].name
      /\ Clear(i) => /\ row.name \in bases /\ HasRight(row)
                     /\ accounts[row.user] = IF dbReq[r].pc = "alter"
                                             THEN connections[i].password ELSE row.password

DbStage(r) ==
  /\ dbReq[r].pc = "idle" => dbReq[r] = NoDbReq
  /\ dbReq[r].pc \in Making => Creating(r)
  /\ dbReq[r].pc \in {"drop", "revoke"} => Dropping(r)
  /\ dbReq[r].pc = "forget" => Forgetting(r)
  /\ dbReq[r].pc = "next" => Listing(r)
  /\ dbReq[r].pc \in {"alter", "flush", "save"} => Altering(r)
  /\ DbRest(r)
DbStages == \A r \in DbRequests : DbStage(r)

\* The rows: users differ, databases differ or are known to be taken, and what is clear opens.
DbRowsFit ==
  /\ \A i \in Connected : i < nextDb
  /\ \A i, j \in Connected : i # j =>
       /\ connections[i].user # connections[j].user
       /\ connections[i].name = connections[j].name => connections[i].name \in taken
  /\ \A i \in Connected : Clear(i) /\ ~AtConnection(i) => Opens(i)

DbInv == DatabasesTypeOK /\ DbTurns /\ DbStages /\ DbRowsFit /\ AccountsOwned

-----------------------------------------------------------------------------
(* One request is under way at most: the invariant as that request sees it. *)

DbTyped ==
  /\ access \in AllAccess
  /\ connections \in [DbIds -> DbRow \cup {NoDb}]
  /\ bases \subseteq DbNames /\ accounts \in [DbUsers -> DbPasswords \cup {NoDb}]
  /\ grants \subseteq DbUsers \X DbNames
  /\ \A g \in grants : accounts[g[1]] # NoDb /\ (access # "mariadb" => g[2] \in bases)
  /\ cutShort \subseteq DbIds /\ leftUsers \subseteq DbUsers /\ taken \subseteq DbNames
DbNumbers == nextDb \in 1..(MaxDbRows + 1) /\ dbFailures \in 0..MaxDbFailures
DbPending == dbReq \in [DbRequests -> DbRequestStates]
OnlyDb(r) == \A q \in DbRequests \ {r} : dbReq[q] = NoDbReq
DbSettled(r) ==
  /\ \A i \in Connected : i < nextDb
  /\ \A i, j \in Connected : i # j =>
       /\ connections[i].user # connections[j].user
       /\ connections[i].name = connections[j].name => connections[i].name \in taken
  /\ \A i \in Connected : Clear(i) /\ i # dbReq[r].id => Opens(i)
Holds(r, user) == dbReq[r].row # NoDb /\ dbReq[r].row.user = user
DbOwned(r) ==
  /\ \A u \in DbUsers : accounts[u] # NoDb =>
       u \in leftUsers \/ Holds(r, u) \/ \E i \in Connected : connections[i].user = u
  /\ \A g \in grants :
       \/ g[1] \in leftUsers
       \/ Holds(r, g[1]) /\ dbReq[r].row.name = g[2]
       \/ \E i \in Connected : connections[i].user = g[1] /\ connections[i].name = g[2]
DbView(r) ==
  /\ DbTyped /\ DbNumbers /\ DbPending /\ OnlyDb(r) /\ DbStage(r) /\ DbSettled(r)
  /\ DbOwned(r)

LEMMA NoDbRequest ==
  /\ NoDbReq \in DbRequestStates /\ NoDbReq.pc = "idle" /\ NoDbReq.op = "none"
  /\ NoDbReq.id = NoDb /\ NoDbReq.row = NoDb /\ NoDbReq.rest = {}
BY DEF NoDbReq, DbRequestStates

LEMMA DbRowParts ==
  /\ \A row \in DbRow : row # NoDb /\ row.user \in DbUsers /\ row.name \in DbNames
                       /\ row.password \in DbPasswords
  /\ NoDb \notin DbIds /\ NoDb \notin DbPasswords
BY DatabasesAssumption DEF DbRow

LEMMA RequestParts ==
  ASSUME DbPending, NEW r \in DbRequests
  PROVE  /\ dbReq[r].id \in DbIds \cup {NoDb} /\ dbReq[r].row \in DbRow \cup {NoDb}
         /\ dbReq[r].rest \subseteq DbIds \X DbRow
BY DEF DbPending, DbRequestStates

LEMMA DbFocus ==
  ASSUME DbInv, NEW r \in DbRequests,
         dbReq[r].pc # "idle" \/ \A q \in DbRequests : dbReq[q].pc = "idle"
  PROVE  DbView(r)
<1>1. DbTyped /\ DbNumbers /\ DbPending
  BY DEF DbInv, DatabasesTypeOK, DbTyped, DbNumbers, DbPending
<1>2. OnlyDb(r)
  BY DEF DbInv, DbTurns, DbStages, DbStage, OnlyDb
<1>3. \A i \in DbIds : AtConnection(i) => dbReq[r].id = i
  BY <1>2, NoDbRequest, DbRowParts DEF AtConnection, OnlyDb
<1>4. DbSettled(r)
  BY <1>1, <1>3 DEF DbInv, DbRowsFit, DbSettled, Connected
<1>5. \A row \in Shown : (\E i \in Connected : connections[i] = row)
                         \/ (dbReq[r].row # NoDb /\ dbReq[r].row = row)
  BY <1>2, NoDbRequest DEF Shown, InFlight, OnlyDb
<1>6. DbOwned(r)
  BY <1>5 DEF DbInv, AccountsOwned, DbOwned, Holds
<1> QED BY <1>1, <1>2, <1>4, <1>6 DEF DbView, DbInv, DbStages

LEMMA DbWiden ==
  ASSUME NEW r \in DbRequests, DbView(r)
  PROVE  DbInv
<1>1. DatabasesTypeOK
  BY DEF DbView, DatabasesTypeOK, DbTyped, DbNumbers, DbPending
<1>2. DbTurns
  BY NoDbRequest DEF DbView, DbTurns, OnlyDb
<1>3. DbStages
  <2> SUFFICES ASSUME NEW q \in DbRequests, q # r PROVE DbStage(q)
    BY DEF DbView, DbStages
  <2> QED BY NoDbRequest DEF DbView, OnlyDb, DbStage, DbRest, Making
<1>4. DbRowsFit
  BY DEF DbView, DbRowsFit, DbSettled, AtConnection
<1>5. AccountsOwned
  <2>1. \A i \in Connected : connections[i] \in Shown
    BY DEF Shown
  <2>2. dbReq[r].row # NoDb => dbReq[r].row \in Shown
    BY DEF Shown, InFlight
  <2> QED BY <2>1, <2>2 DEF DbView, DbOwned, Holds, AccountsOwned
<1> QED BY <1>1, <1>2, <1>3, <1>4, <1>5 DEF DbInv

-----------------------------------------------------------------------------
(* What the parts of the actions do to the request.                         *)

DbSteps == {"idle"} \cup Making \cup {"alter", "flush", "save", "drop", "revoke", "forget",
  "next"}
LEMMA DbGoing ==
  ASSUME DbPending, NEW r \in DbRequests, OnlyDb(r), NEW pc \in DbSteps, DbGoTo(r, pc)
  PROVE  /\ DbPending' /\ OnlyDb(r)' /\ dbReq'[r].pc = pc /\ dbReq'[r].op = dbReq[r].op
         /\ dbReq'[r].id = dbReq[r].id /\ dbReq'[r].row = dbReq[r].row
         /\ dbReq'[r].rest = dbReq[r].rest
BY DEF DbPending, OnlyDb, DbSteps, DbGoTo, DbRequestStates

LEMMA Finishing ==
  ASSUME DbPending, NEW r \in DbRequests, OnlyDb(r), DbFinish(r)
  PROVE  DbPending' /\ OnlyDb(r)' /\ dbReq'[r] = NoDbReq /\ DbStage(r)'
<1>1. DbPending' /\ OnlyDb(r)' /\ dbReq'[r] = NoDbReq
  BY NoDbRequest DEF DbPending, OnlyDb, DbFinish
<1> QED BY <1>1, NoDbRequest DEF DbStage, DbRest, Making

LEMMA Starting ==
  ASSUME DbPending, NEW r \in DbRequests, OnlyDb(r),
         NEW op \in {"none", "create", "password", "delete", "site"}, NEW pc \in DbSteps,
         NEW id \in DbIds \cup {NoDb}, NEW row \in DbRow \cup {NoDb},
         NEW rest \in SUBSET (DbIds \X DbRow), DbStart(r, op, pc, id, row, rest)
  PROVE  /\ DbPending' /\ OnlyDb(r)'
         /\ dbReq'[r].pc = pc /\ dbReq'[r].op = op /\ dbReq'[r].id = id
         /\ dbReq'[r].row = row /\ dbReq'[r].rest = rest
         /\ UNCHANGED <<access, connections, nextDb, server, dbFailures>>
BY DEF DbPending, OnlyDb, DbStart, DbSteps, DbRequestStates, DbWorks

LEMMA DbCounting ==
  ASSUME DbNumbers, DbFault \/ DbWorks, nextDb' = nextDb
  PROVE  DbNumbers'
BY DatabasesAssumption DEF DbNumbers, DbFault, DbWorks

LEMMA DbBegins ==
  ASSUME NEW r \in DbRequests, DbView(r), dbReq[r].pc = "idle",
         BeginDb(r) \/ BeginDropDb(r) \/ BeginSiteDbs(r) \/ BeginDbPassword(r)
  PROVE  DbView(r)'
<1>a. /\ DbTyped /\ DbNumbers /\ DbPending /\ OnlyDb(r) /\ DbSettled(r) /\ DbOwned(r)
      /\ dbReq[r] = NoDbReq
  BY DEF DbView, DbStage
<1>b. \A i \in Connected : i \in DbIds /\ connections[i] \in DbRow
  BY <1>a DEF DbTyped, Connected
<1> DEFINE Same == UNCHANGED <<access, connections, nextDb, server, dbFailures, ghosts>>
<1>c. Same => DbTyped' /\ DbNumbers'
  BY <1>a DEF DbTyped, DbNumbers, server, ghosts
<1>1. CASE BeginDb(r)
  <2>1. PICK row \in DbRow : UserFree(row.user)
                             /\ DbStart(r, "create", FirstStatement, NoDb, row, {})
    BY <1>1 DEF BeginDb
  <2>2. FirstStatement \in DbSteps
    BY DEF FirstStatement, DbSteps, Making
  <2>3. /\ DbPending' /\ OnlyDb(r)' /\ Same
        /\ dbReq'[r].pc = FirstStatement /\ dbReq'[r].op = "create" /\ dbReq'[r].id = NoDb
        /\ dbReq'[r].row = row /\ dbReq'[r].rest = {}
    <3>1. /\ {} \in SUBSET (DbIds \X DbRow)
          /\ NoDb \in DbIds \cup {NoDb} /\ row \in DbRow \cup {NoDb}
      OBVIOUS
    <3>2. UNCHANGED ghosts
      BY <1>1 DEF BeginDb
    <3> QED BY <1>a, <2>1, <2>2, <3>1, <3>2, Starting
  <2>4. DbSettled(r)'
    BY <1>a, <1>b, <2>3, NoDbRequest, DbRowParts
    DEF DbSettled, Connected, Clear, Opens, HasPassword, HasRight, server, ghosts
  <2>5. DbOwned(r)'
    BY <1>a, <2>3, NoDbRequest DEF DbOwned, Holds, Connected, server, ghosts
  <2>6. Gone(row.user)
    BY <1>a, <2>1, DbRowParts, NoDbRequest DEF DbOwned, Holds, Gone, UserFree
  <2>7. Creating(r)'
    BY <2>1, <2>3, <2>6 DEF Creating, NewUser, UserFree, Connected, AccountAhead, BaseDone, Gone,
       FirstStatement, server, ghosts
  <2>8. DbStage(r)'
    BY <2>3, <2>7 DEF DbStage, FirstStatement, Making, DbRest
  <2> QED BY <1>c, <2>3, <2>4, <2>5, <2>8 DEF DbView
<1>2. CASE BeginDropDb(r)
  <2>1. PICK i \in Connected : DbStart(r, "delete", "drop", i, connections[i], {})
    BY <1>2 DEF BeginDropDb
  <2>2. i \in DbIds /\ connections[i] \in DbRow
    BY <1>b
  <2>3. /\ DbPending' /\ OnlyDb(r)' /\ Same
        /\ dbReq'[r].pc = "drop" /\ dbReq'[r].op = "delete" /\ dbReq'[r].id = i
        /\ dbReq'[r].row = connections[i] /\ dbReq'[r].rest = {}
    <3>1. /\ "drop" \in DbSteps /\ {} \in SUBSET (DbIds \X DbRow)
          /\ i \in DbIds \cup {NoDb} /\ connections[i] \in DbRow \cup {NoDb}
      BY <2>2 DEF DbSteps
    <3>2. UNCHANGED ghosts
      BY <1>2 DEF BeginDropDb
    <3> QED BY <1>a, <2>1, <3>1, <3>2, Starting
  <2>4. DbSettled(r)'
    BY <1>a, <1>b, <2>3, NoDbRequest, DbRowParts
    DEF DbSettled, Connected, Clear, Opens, HasPassword, HasRight, server, ghosts
  <2>5. DbOwned(r)'
    BY <1>a, <2>3, NoDbRequest DEF DbOwned, Holds, Connected, server, ghosts
  <2>6. DbStage(r)'
    BY <2>2, <2>3 DEF DbStage, Making, DbRest, Dropping
  <2> QED BY <1>c, <2>3, <2>4, <2>5, <2>6 DEF DbView
<1>3. CASE BeginSiteDbs(r)
  <2>1. PICK s \in DbSites :
          DbStart(r, "site", "next", NoDb, NoDb, {<<i, connections[i]>> : i \in OfSite(s)})
    BY <1>3 DEF BeginSiteDbs
  <2> DEFINE rest == {<<i, connections[i]>> : i \in OfSite(s)}
  <2>2. rest \in SUBSET (DbIds \X DbRow)
        /\ \A item \in rest : connections[item[1]] = item[2] /\ item[1] # NoDb
    BY <1>b, DbRowParts DEF OfSite
  <2> HIDE DEF rest
  <2>3. DbStart(r, "site", "next", NoDb, NoDb, rest)
    BY <2>1 DEF rest
  <2>4. /\ DbPending' /\ OnlyDb(r)' /\ Same
        /\ dbReq'[r].pc = "next" /\ dbReq'[r].op = "site" /\ dbReq'[r].id = NoDb
        /\ dbReq'[r].row = NoDb /\ dbReq'[r].rest = rest
    <3>1. /\ "next" \in DbSteps /\ rest \in SUBSET (DbIds \X DbRow)
          /\ NoDb \in DbIds \cup {NoDb} /\ NoDb \in DbRow \cup {NoDb}
      BY <2>2 DEF DbSteps
    <3>2. UNCHANGED ghosts
      BY <1>3 DEF BeginSiteDbs
    <3> QED BY <1>a, <2>3, <3>1, <3>2, Starting
  <2>5. DbSettled(r)'
    BY <1>a, <1>b, <2>4, NoDbRequest, DbRowParts
    DEF DbSettled, Connected, Clear, Opens, HasPassword, HasRight, server, ghosts
  <2>6. DbOwned(r)'
    BY <1>a, <2>4, NoDbRequest DEF DbOwned, Holds, Connected, server, ghosts
  <2>7. DbStage(r)'
    BY <2>2, <2>4 DEF DbStage, Making, DbRest, Listing
  <2> QED BY <1>c, <2>4, <2>5, <2>6, <2>7 DEF DbView
<1>4. CASE BeginDbPassword(r)
  <2>1. PICK i \in Connected, p \in DbPasswords :
          DbStart(r, "password", "alter", i, [connections[i] EXCEPT !.password = p], {})
    BY <1>4 DEF BeginDbPassword
  <2> DEFINE row == [connections[i] EXCEPT !.password = p]
  <2>2. /\ i \in DbIds /\ connections[i] \in DbRow /\ row \in DbRow
        /\ row.user = connections[i].user /\ row.name = connections[i].name
    BY <1>b DEF DbRow
  <2> HIDE DEF row
  <2>3. DbStart(r, "password", "alter", i, row, {})
    BY <2>1 DEF row
  <2>4. /\ DbPending' /\ OnlyDb(r)' /\ Same
        /\ dbReq'[r].pc = "alter" /\ dbReq'[r].op = "password" /\ dbReq'[r].id = i
        /\ dbReq'[r].row = row /\ dbReq'[r].rest = {}
    <3>1. /\ "alter" \in DbSteps /\ {} \in SUBSET (DbIds \X DbRow)
          /\ i \in DbIds \cup {NoDb} /\ row \in DbRow \cup {NoDb}
      BY <2>2 DEF DbSteps
    <3>2. UNCHANGED ghosts
      BY <1>4 DEF BeginDbPassword
    <3> QED BY <1>a, <2>3, <3>1, <3>2, Starting
  <2>5. DbSettled(r)'
    BY <1>a, <1>b, <2>4, NoDbRequest, DbRowParts
    DEF DbSettled, Connected, Clear, Opens, HasPassword, HasRight, server, ghosts
  <2>6. DbOwned(r)'
    BY <1>a, <2>4, NoDbRequest DEF DbOwned, Holds, Connected, server, ghosts
  <2>7. Altering(r)'
    BY <1>a, <2>1, <2>2, <2>4, NoDbRequest, DbRowParts
    DEF Altering, DbSettled, Connected, Clear, Opens, HasPassword, HasRight, server, ghosts
  <2>8. DbStage(r)'
    BY <2>4, <2>7 DEF DbStage, Making, DbRest
  <2> QED BY <1>c, <2>4, <2>5, <2>6, <2>8 DEF DbView
<1> QED BY <1>1, <1>2, <1>3, <1>4

\* A request that breaks off leaves its row, or its user, on record.
LEMMA Breaking ==
  ASSUME NEW r \in DbRequests, DbView(r), dbReq[r].row \in DbRow, DbFault, DbBreaks(r),
         UNCHANGED <<access, connections, nextDb>>, DbTyped',
         accounts' = accounts /\ grants' \subseteq grants,
         \A i \in Connected \ {dbReq[r].id} : Clear(i) =>
           /\ connections[i].name \in bases => connections[i].name \in bases'
           /\ HasRight(connections[i]) => HasRight(connections[i])'
  PROVE  DbView(r)'
<1>a. /\ DbTyped /\ DbNumbers /\ DbPending /\ OnlyDb(r) /\ DbSettled(r) /\ DbOwned(r)
      /\ leftUsers' = leftUsers \cup {dbReq[r].row.user} /\ taken' = taken
      /\ cutShort' = IF dbReq[r].id = NoDb THEN cutShort ELSE cutShort \cup {dbReq[r].id}
  BY DEF DbView, DbBreaks
<1>b. \A i \in Connected : i \in DbIds /\ connections[i] \in DbRow
  BY <1>a DEF DbTyped, Connected
<1>1. DbPending' /\ OnlyDb(r)' /\ dbReq'[r] = NoDbReq /\ DbStage(r)'
  BY <1>a, Finishing DEF DbBreaks
<1>2. DbNumbers'
  BY <1>a, DbCounting
<1>3. DbSettled(r)'
  BY <1>a, <1>b, <1>1, NoDbRequest, DbRowParts
  DEF DbSettled, Connected, Clear, Opens, HasPassword, HasRight
<1>4. DbOwned(r)'
  BY <1>a, <1>1, NoDbRequest, DbRowParts DEF DbOwned, Holds, Connected
<1> QED BY <1>1, <1>2, <1>3, <1>4 DEF DbView

\* The same when the server is as it was.
LEMMA BreakingStill ==
  ASSUME NEW r \in DbRequests, DbView(r), dbReq[r].row \in DbRow, DbFault, DbBreaks(r),
         UNCHANGED <<access, connections, nextDb, server>>
  PROVE  DbView(r)'
<1>a. DbTyped /\ dbReq[r].id \in DbIds \cup {NoDb} /\ dbReq[r].row.user \in DbUsers
  BY RequestParts, DbRowParts DEF DbView
<1>1. DbTyped'
  BY <1>a DEF DbTyped, DbBreaks, server
<1> QED BY <1>1, Breaking DEF server, HasRight

LEMMA CreatesBase ==
  ASSUME NEW r \in DbRequests, DbView(r), CreateBase(r)
  PROVE  DbView(r)'
<1> DEFINE row == dbReq[r].row
<1>a. /\ DbTyped /\ DbNumbers /\ DbPending /\ OnlyDb(r) /\ DbSettled(r) /\ DbOwned(r) /\ Creating(r)
      /\ dbReq[r].pc = "base" /\ row \in DbRow /\ row.user \in DbUsers /\ row.name \in DbNames
      /\ row # NoDb
  BY DbRowParts DEF DbView, DbStage, CreateBase, Making, Creating
<1>b. \A i \in Connected : i \in DbIds /\ connections[i] \in DbRow
  BY <1>a DEF DbTyped, Connected
<1>0. access = "mariadb" \/ accounts[row.user] # NoDb
  BY <1>a DEF Creating, AccountAhead
<1>1. CASE DbFault /\ DbBreaks(r) /\ UNCHANGED <<bases, grants>>
  BY <1>a, <1>1, BreakingStill DEF CreateBase, server
<1>2. CASE /\ bases' = bases \cup {row.name}
           /\ grants' = IF access = "mariadb" \/ row.name \in bases THEN grants
                        ELSE grants \cup {<<row.user, row.name>>}
           /\ taken' = IF Somebodys(row.name) THEN taken \cup {row.name} ELSE taken
           /\ DbGoTo(r, Later.base) /\ DbWorks /\ UNCHANGED <<cutShort, leftUsers>>
  <2>a. UNCHANGED <<access, connections, nextDb, accounts>>
    BY DEF CreateBase
  <2>1. Later.base = IF access = "mariadb" THEN "account" ELSE "insert"
    BY DEF Later
  <2>2. /\ DbPending' /\ OnlyDb(r)' /\ dbReq'[r].pc = Later.base /\ dbReq'[r].op = dbReq[r].op
        /\ dbReq'[r].id = dbReq[r].id /\ dbReq'[r].row = row /\ dbReq'[r].rest = dbReq[r].rest
    BY <1>a, <1>2, <2>1, DbGoing DEF DbSteps, Making
  <2>3. DbTyped'
    BY <1>a, <1>2, <2>a DEF DbTyped, Creating, AccountAhead
  <2>4. DbNumbers'
    BY <1>a, <1>2, <2>a, DbCounting
  <2>5. DbSettled(r)'
    BY <1>a, <1>b, <1>2, <2>a, <2>2
    DEF DbSettled, Creating, Connected, Clear, Opens, HasPassword, HasRight
  <2>6. DbOwned(r)'
    BY <1>a, <1>2, <2>a, <2>2 DEF DbOwned, Holds, Connected
  <2>7. Creating(r)'
    BY <1>a, <1>b, <1>2, <2>a, <2>1, <2>2
    DEF Creating, AccountAhead, BaseDone, NewUser, NewName, Gone, HasPassword, HasRight,
        Connected, Somebodys
  <2>8. DbStage(r)'
    BY <2>1, <2>2, <2>7 DEF DbStage, Making, DbRest, Creating
  <2> QED BY <2>2, <2>3, <2>4, <2>5, <2>6, <2>8 DEF DbView
<1> QED BY <1>0, <1>1, <1>2 DEF CreateBase

LEMMA CreatesAccount ==
  ASSUME NEW r \in DbRequests, DbView(r), CreateAccount(r)
  PROVE  DbView(r)'
<1> DEFINE row == dbReq[r].row
<1>a. /\ DbTyped /\ DbNumbers /\ DbPending /\ OnlyDb(r) /\ DbSettled(r) /\ DbOwned(r) /\ Creating(r)
      /\ dbReq[r].pc = "account" /\ row \in DbRow /\ row.user \in DbUsers
      /\ row.password \in DbPasswords /\ row # NoDb /\ NoDb \notin DbPasswords
  BY DbRowParts DEF DbView, DbStage, CreateAccount, Making, Creating
<1>b. \A i \in Connected : i \in DbIds /\ connections[i] \in DbRow
                         /\ connections[i].user # row.user
  BY <1>a DEF DbTyped, Connected, Creating, NewUser
<1>1. CASE DbFault /\ DbBreaks(r) /\ UNCHANGED accounts
  BY <1>a, <1>1, BreakingStill DEF CreateAccount, server
<1>2. CASE /\ accounts' = [accounts EXCEPT ![row.user] = PasswordAfter(@, row.password)]
           /\ DbGoTo(r, Later.account) /\ DbWorks /\ UNCHANGED ghosts
  <2>a. UNCHANGED <<access, connections, nextDb, bases, grants>>
    BY DEF CreateAccount
  <2>1. Later.account = IF access = "mariadb" THEN "grant" ELSE "base"
    BY DEF Later
  <2>2. /\ DbPending' /\ OnlyDb(r)' /\ dbReq'[r].pc = Later.account /\ dbReq'[r].op = dbReq[r].op
        /\ dbReq'[r].id = dbReq[r].id /\ dbReq'[r].row = row /\ dbReq'[r].rest = dbReq[r].rest
    BY <1>a, <1>2, <2>1, DbGoing DEF DbSteps, Making
  <2>3. /\ accounts' \in [DbUsers -> DbPasswords \cup {NoDb}] /\ accounts'[row.user] # NoDb
        /\ \A u \in DbUsers \ {row.user} : accounts'[u] = accounts[u]
        /\ accounts[row.user] = NoDb => accounts'[row.user] = row.password
    BY <1>a, <1>2 DEF DbTyped, PasswordAfter
  <2>4. DbTyped'
    BY <1>a, <1>2, <2>a, <2>3 DEF DbTyped, ghosts
  <2>5. DbNumbers'
    BY <1>a, <1>2, <2>a, DbCounting
  <2>6. DbSettled(r)'
    BY <1>a, <1>b, <1>2, <2>a, <2>2, <2>3, DbRowParts
    DEF DbSettled, Creating, Connected, Clear, Opens, HasPassword, HasRight, ghosts
  <2>7. DbOwned(r)'
    BY <1>a, <1>2, <2>a, <2>2, <2>3 DEF DbOwned, Holds, Connected, ghosts
  <2>8. Creating(r)'
    BY <1>a, <1>b, <1>2, <2>a, <2>1, <2>2, <2>3
    DEF Creating, AccountAhead, BaseDone, NewUser, NewName, Gone, HasPassword, HasRight,
        Connected, ghosts
  <2>9. DbStage(r)'
    BY <2>1, <2>2, <2>8 DEF DbStage, Making, DbRest, Creating
  <2> QED BY <2>2, <2>4, <2>5, <2>6, <2>7, <2>9 DEF DbView
<1> QED BY <1>1, <1>2 DEF CreateAccount

LEMMA Grants ==
  ASSUME NEW r \in DbRequests, DbView(r), GrantAll(r)
  PROVE  DbView(r)'
<1> DEFINE row == dbReq[r].row
<1>a. /\ DbTyped /\ DbNumbers /\ DbPending /\ OnlyDb(r) /\ DbSettled(r) /\ DbOwned(r) /\ Creating(r)
      /\ dbReq[r].pc = "grant" /\ row \in DbRow /\ row.user \in DbUsers /\ row.name \in DbNames
      /\ row # NoDb
  BY DbRowParts DEF DbView, DbStage, GrantAll, Making, Creating
<1>b. \A i \in Connected : i \in DbIds /\ connections[i] \in DbRow
  BY <1>a DEF DbTyped, Connected
<1>0. accounts[row.user] # NoDb
  BY <1>a DEF Creating, AccountAhead
<1>1. CASE DbFault /\ DbBreaks(r) /\ UNCHANGED grants
  BY <1>a, <1>1, BreakingStill DEF GrantAll, server
<1>2. CASE /\ grants' = grants \cup {<<row.user, row.name>>}
           /\ DbGoTo(r, Later.grant) /\ DbWorks /\ UNCHANGED ghosts
  <2>a. UNCHANGED <<access, connections, nextDb, bases, accounts>> /\ access = "mariadb"
    BY <1>a DEF GrantAll, Creating
  <2>1. Later.grant = "insert"
    BY <2>a DEF Later
  <2>2. /\ DbPending' /\ OnlyDb(r)' /\ dbReq'[r].pc = "insert" /\ dbReq'[r].op = dbReq[r].op
        /\ dbReq'[r].id = dbReq[r].id /\ dbReq'[r].row = row /\ dbReq'[r].rest = dbReq[r].rest
    BY <1>a, <1>2, <2>1, DbGoing DEF DbSteps, Making
  <2>3. DbTyped'
    BY <1>a, <1>2, <2>a DEF DbTyped, Creating, AccountAhead, ghosts
  <2>4. DbNumbers'
    BY <1>a, <1>2, <2>a, DbCounting
  <2>5. DbSettled(r)'
    BY <1>a, <1>b, <1>2, <2>a, <2>2
    DEF DbSettled, Connected, Clear, Opens, HasPassword, HasRight, ghosts
  <2>6. DbOwned(r)'
    BY <1>a, <1>2, <2>a, <2>2 DEF DbOwned, Holds, Connected, ghosts
  <2>7. Creating(r)'
    BY <1>a, <1>2, <2>a, <2>2
    DEF Creating, AccountAhead, BaseDone, NewUser, NewName, HasPassword, HasRight, Connected,
        ghosts
  <2>8. DbStage(r)'
    BY <2>2, <2>7 DEF DbStage, Making, DbRest, Creating
  <2> QED BY <2>2, <2>3, <2>4, <2>5, <2>6, <2>8 DEF DbView
<1> QED BY <1>0, <1>1, <1>2 DEF GrantAll

LEMMA Inserts ==
  ASSUME NEW r \in DbRequests, DbView(r), InsertConnection(r)
  PROVE  DbView(r)'
<1> DEFINE row == dbReq[r].row
<1>a. /\ DbTyped /\ DbNumbers /\ DbPending /\ OnlyDb(r) /\ DbSettled(r) /\ DbOwned(r) /\ Creating(r)
      /\ dbReq[r].pc = "insert" /\ row \in DbRow /\ row.user \in DbUsers /\ row.name \in DbNames
      /\ row # NoDb /\ dbReq[r].id = NoDb /\ NoDb \notin DbIds
  BY DbRowParts DEF DbView, DbStage, InsertConnection, Making, Creating
<1>b. \A i \in Connected : i \in DbIds /\ connections[i] \in DbRow
  BY <1>a DEF DbTyped, Connected
<1>c. UNCHANGED <<access, server, ghosts>>
  BY DEF InsertConnection
<1>1. CASE /\ nextDb \in DbIds
           /\ connections' = [connections EXCEPT ![nextDb] = row]
           /\ nextDb' = nextDb + 1 /\ DbFinish(r) /\ DbWorks
  <2>1. DbPending' /\ OnlyDb(r)' /\ dbReq'[r] = NoDbReq /\ DbStage(r)'
    BY <1>a, <1>1, Finishing
  <2>2. DbTyped'
    BY <1>a, <1>1, <1>c DEF DbTyped, server, ghosts
  <2>3. DbNumbers'
    BY <1>a, <1>1, DatabasesAssumption DEF DbNumbers, DbIds, DbWorks
  <2>4. nextDb \notin Connected /\ nextDb \in Nat
    BY <1>a, <1>1 DEF DbSettled, Connected, DbIds, DbNumbers
  <2>5. /\ Connected' = Connected \cup {nextDb} /\ connections'[nextDb] = row
        /\ \A i \in Connected : connections'[i] = connections[i]
    BY <1>a, <1>1, <2>4 DEF DbTyped, Connected
  <2>6. \A i \in Connected' : i < nextDb'
    BY <1>a, <1>1, <2>4, <2>5 DEF DbSettled, Connected, DbIds
  <2>7. \A i, j \in Connected' : i # j =>
          /\ connections'[i].user # connections'[j].user
          /\ connections'[i].name = connections'[j].name => connections'[i].name \in taken'
    BY <1>a, <1>c, <2>4, <2>5 DEF DbSettled, Creating, NewUser, NewName, BaseDone, ghosts
  <2>8. \A i \in Connected' : Clear(i)' => Opens(i)'
    BY <1>a, <1>b, <1>c, <2>4, <2>5
    DEF DbSettled, Creating, AccountAhead, BaseDone, Clear, Opens, HasPassword, HasRight, server,
        ghosts
  <2>9. DbSettled(r)'
    BY <2>6, <2>7, <2>8 DEF DbSettled
  <2>10. DbOwned(r)'
    BY <1>a, <1>c, <2>1, <2>5, NoDbRequest DEF DbOwned, Holds, server, ghosts
  <2> QED BY <2>1, <2>2, <2>3, <2>9, <2>10 DEF DbView
<1>2. CASE DbFault /\ DbGoTo(r, "drop") /\ UNCHANGED <<connections, nextDb>>
  <2>1. /\ DbPending' /\ OnlyDb(r)' /\ dbReq'[r].pc = "drop" /\ dbReq'[r].op = dbReq[r].op
        /\ dbReq'[r].id = dbReq[r].id /\ dbReq'[r].row = row /\ dbReq'[r].rest = dbReq[r].rest
    BY <1>a, <1>2, DbGoing DEF DbSteps
  <2>2. DbTyped'
    BY <1>a, <1>2, <1>c DEF DbTyped, server, ghosts
  <2>3. DbNumbers'
    BY <1>a, <1>2, DbCounting
  <2>4. DbSettled(r)'
    BY <1>a, <1>2, <1>c, <2>1
    DEF DbSettled, Connected, Clear, Opens, HasPassword, HasRight, server, ghosts
  <2>5. DbOwned(r)'
    BY <1>a, <1>2, <1>c, <2>1 DEF DbOwned, Holds, Connected, server, ghosts
  <2>6. DbStage(r)'
    BY <1>a, <1>2, <1>c, <2>1
    DEF DbStage, Making, DbRest, Creating, BaseDone, Dropping, NewUser, NewName, Connected, ghosts
  <2> QED BY <2>1, <2>2, <2>3, <2>4, <2>5, <2>6 DEF DbView
<1> QED BY <1>1, <1>2 DEF InsertConnection

-----------------------------------------------------------------------------
(* Deletions. *)

LEMMA Lists ==
  ASSUME NEW r \in DbRequests, DbView(r), NextDbOfSite(r)
  PROVE  DbView(r)'
<1>a. /\ DbTyped /\ DbNumbers /\ DbPending /\ OnlyDb(r) /\ DbSettled(r) /\ DbOwned(r) /\ Listing(r)
      /\ DbRest(r) /\ dbReq[r].pc = "next"
  BY DEF DbView, DbStage, NextDbOfSite
<1>b. \A i \in Connected : i \in DbIds /\ connections[i] \in DbRow
  BY <1>a DEF DbTyped, Connected
<1>c. DbWorks /\ UNCHANGED <<access, connections, nextDb, server, ghosts>>
  BY DEF NextDbOfSite
<1>1. DbTyped' /\ DbNumbers'
  BY <1>a, <1>c, DbCounting DEF DbTyped, server, ghosts
\* The row the request leaves behind has no account any more.
<1>2. \A u \in DbUsers : accounts[u] # NoDb /\ Holds(r, u) => u \in leftUsers
  BY <1>a DEF Listing, Holds, Gone
<1>3. \A u \in DbUsers : accounts[u] # NoDb =>
        u \in leftUsers \/ \E i \in Connected : connections[i].user = u
  BY <1>a, <1>2 DEF DbOwned
<1>4. \A g \in grants :
        g[1] \in leftUsers
        \/ \E i \in Connected : connections[i].user = g[1] /\ connections[i].name = g[2]
  BY <1>a, <1>2 DEF DbOwned, DbTyped
<1>5. DbOwned(r)'
  BY <1>c, <1>3, <1>4 DEF DbOwned, Connected, server, ghosts
<1>6. dbReq[r].id \notin Connected
  BY <1>a, DbRowParts DEF Listing, Connected
<1>7. CASE DbFinish(r)
  <2>1. DbPending' /\ OnlyDb(r)' /\ dbReq'[r] = NoDbReq /\ DbStage(r)'
    BY <1>a, <1>7, Finishing
  <2>2. DbSettled(r)'
    BY <1>a, <1>b, <1>c, <1>6, <2>1, NoDbRequest, DbRowParts
    DEF DbSettled, Connected, Clear, Opens, HasPassword, HasRight, server, ghosts
  <2> QED BY <1>1, <1>5, <2>1, <2>2 DEF DbView
<1>8. ASSUME NEW item \in dbReq[r].rest,
             dbReq' = [dbReq EXCEPT ![r].pc = "drop", ![r].id = item[1],
                         ![r].row = item[2], ![r].rest = @ \ {item}]
      PROVE  DbView(r)'
  <2>1. item[1] \in DbIds /\ item[2] \in DbRow /\ connections[item[1]] = item[2]
    BY <1>a, RequestParts DEF DbRest
  <2>2. /\ DbPending' /\ OnlyDb(r)' /\ dbReq'[r].pc = "drop" /\ dbReq'[r].op = dbReq[r].op
        /\ dbReq'[r].id = item[1] /\ dbReq'[r].row = item[2]
        /\ dbReq'[r].rest = dbReq[r].rest \ {item}
    BY <1>a, <1>8, <2>1 DEF DbPending, OnlyDb, DbRequestStates
  <2>3. \A other \in dbReq[r].rest \ {item} : other[1] # item[1]
    BY <1>a, <2>1, RequestParts DEF DbRest
  <2>4. DbStage(r)'
    BY <1>a, <1>c, <2>1, <2>2, <2>3 DEF DbStage, Making, DbRest, Listing, Dropping
  <2>5. DbSettled(r)'
    BY <1>a, <1>b, <1>c, <1>6, <2>2, DbRowParts
    DEF DbSettled, Connected, Clear, Opens, HasPassword, HasRight, server, ghosts
  <2> QED BY <1>1, <1>5, <2>2, <2>4, <2>5 DEF DbView
<1> QED BY <1>7, <1>8 DEF NextDbOfSite

LEMMA DropsBase ==
  ASSUME NEW r \in DbRequests, DbView(r), DropBase(r)
  PROVE  DbView(r)'
<1> DEFINE row == dbReq[r].row
<1>a. /\ DbTyped /\ DbNumbers /\ DbPending /\ OnlyDb(r) /\ DbSettled(r) /\ DbOwned(r) /\ Dropping(r)
      /\ DbRest(r) /\ dbReq[r].pc = "drop" /\ row \in DbRow /\ row # NoDb
  BY DbRowParts DEF DbView, DbStage, DropBase, Dropping
<1>b. \A i \in Connected : i \in DbIds /\ connections[i] \in DbRow
  BY <1>a DEF DbTyped, Connected
<1>c. UNCHANGED <<access, connections, nextDb, accounts>>
  BY DEF DropBase
<1>1. CASE DbFault /\ DbBreaks(r) /\ UNCHANGED <<bases, grants>>
  BY <1>a, <1>c, <1>1, BreakingStill DEF server
<1>2. CASE /\ bases' = bases \ {row.name}
           /\ grants' = IF access = "mariadb" THEN grants ELSE {g \in grants : g[2] # row.name}
           /\ DbGoTo(r, "revoke") /\ DbWorks /\ UNCHANGED ghosts
  <2>1. /\ DbPending' /\ OnlyDb(r)' /\ dbReq'[r].pc = "revoke" /\ dbReq'[r].op = dbReq[r].op
        /\ dbReq'[r].id = dbReq[r].id /\ dbReq'[r].row = row /\ dbReq'[r].rest = dbReq[r].rest
    BY <1>a, <1>2, DbGoing DEF DbSteps
  <2>2. DbTyped'
    BY <1>a, <1>2, <1>c DEF DbTyped, ghosts
  <2>3. DbNumbers'
    BY <1>a, <1>2, <1>c, DbCounting
  \* What the request drops is no clear connection's but its own.
  <2>4. \A i \in Connected : Clear(i) /\ i # dbReq[r].id => connections[i].name # row.name
    BY <1>a, <1>b, DbRowParts DEF Dropping, NewName, DbSettled, Clear, Connected
  <2>5. DbSettled(r)'
    BY <1>a, <1>2, <1>c, <2>1, <2>4
    DEF DbSettled, Connected, Clear, Opens, HasPassword, HasRight, ghosts
  <2>6. DbOwned(r)'
    BY <1>a, <1>2, <1>c, <2>1 DEF DbOwned, Holds, Connected, ghosts
  <2>7. DbStage(r)'
    BY <1>a, <1>2, <1>c, <2>1
    DEF DbStage, Making, DbRest, Dropping, NewUser, NewName, Connected, ghosts
  <2> QED BY <2>1, <2>2, <2>3, <2>5, <2>6, <2>7 DEF DbView
<1> QED BY <1>1, <1>2 DEF DropBase

LEMMA DropsAccount ==
  ASSUME NEW r \in DbRequests, DbView(r), DropAccount(r)
  PROVE  DbView(r)'
<1> DEFINE row  == dbReq[r].row
           user == dbReq[r].row.user
           go   == IF dbReq[r].op = "create" THEN DbFinish(r) ELSE DbGoTo(r, "forget")
           keep == UNCHANGED <<accounts, grants>>
           gone == user \in leftUsers' \/ accounts'[user] = NoDb
<1>a. /\ DbTyped /\ DbNumbers /\ DbPending /\ OnlyDb(r) /\ DbSettled(r) /\ DbOwned(r) /\ Dropping(r)
      /\ DbRest(r) /\ dbReq[r].pc = "revoke" /\ row \in DbRow /\ row # NoDb /\ user \in DbUsers
  BY DbRowParts DEF DbView, DbStage, DropAccount, Dropping
<1>b. \A i \in Connected : i \in DbIds /\ connections[i] \in DbRow
  BY <1>a DEF DbTyped, Connected
<1>c. UNCHANGED <<access, connections, nextDb, bases>>
  BY DEF DropAccount
\* No other connection has the user.
<1>d. \A i \in Connected \ {dbReq[r].id} : connections[i].user # user
  BY <1>a, <1>b, DbRowParts DEF Dropping, NewUser, DbSettled, Connected
<1>e. MayDropUser(r)
  BY <1>d DEF MayDropUser
<1>f. ASSUME go, DbTyped', DbNumbers', UNCHANGED <<cutShort, taken>>, gone,
             leftUsers \subseteq leftUsers',
             \A u \in DbUsers \ {user} : accounts'[u] = accounts[u],
             grants' \subseteq grants,
             \A g \in grants : g[1] # user => g \in grants'
      PROVE  DbView(r)'
  <2>1. /\ DbPending' /\ OnlyDb(r)'
        /\ dbReq[r].op = "create" => dbReq'[r] = NoDbReq /\ DbStage(r)'
        /\ dbReq[r].op # "create" =>
             /\ dbReq'[r].pc = "forget" /\ dbReq'[r].op = dbReq[r].op
             /\ dbReq'[r].id = dbReq[r].id /\ dbReq'[r].row = row
             /\ dbReq'[r].rest = dbReq[r].rest
    BY <1>a, <1>f, DbGoing, Finishing DEF DbSteps
  <2>2. DbSettled(r)'
    BY <1>a, <1>b, <1>c, <1>d, <1>f, <2>1, NoDbRequest, DbRowParts
    DEF DbSettled, Connected, Clear, Opens, HasPassword, HasRight, Dropping
  <2>3. DbOwned(r)'
    <3>1. \A u \in DbUsers : accounts'[u] # NoDb =>
            u \in leftUsers' \/ \E i \in Connected : connections[i].user = u
      BY <1>a, <1>f DEF DbOwned, Holds
    <3>2. \A g \in grants' :
            \/ g[1] \in leftUsers'
            \/ \E i \in Connected : connections[i].user = g[1] /\ connections[i].name = g[2]
      <4> SUFFICES ASSUME NEW g \in grants', g[1] \notin leftUsers'
                   PROVE \E i \in Connected :
                           connections[i].user = g[1] /\ connections[i].name = g[2]
        OBVIOUS
      <4>1. g \in grants /\ g[1] \in DbUsers /\ accounts'[g[1]] # NoDb
        BY <1>a, <1>f DEF DbTyped
      <4>2. g[1] # user
        BY <1>f, <4>1
      <4> QED BY <1>a, <1>f, <4>1, <4>2 DEF DbOwned, Holds
    <3> QED BY <1>c, <3>1, <3>2 DEF DbOwned, Connected
  <2>4. DbStage(r)'
    <3>1. CASE dbReq[r].op = "create"
      BY <2>1, <3>1
    <3>2. CASE dbReq[r].op # "create"
      BY <1>a, <1>c, <1>f, <2>1, <3>2 DEF DbStage, Making, DbRest, Dropping, Forgetting, Gone
    <3> QED BY <3>1, <3>2
  <2> QED BY <1>f, <2>1, <2>2, <2>3, <2>4 DEF DbView
<1>1. CASE /\ Droppable(user) /\ go /\ DbWorks /\ UNCHANGED ghosts
           /\ accounts' = [accounts EXCEPT ![user] = NoDb]
           /\ grants' = {g \in grants : g[1] # user}
  <2>1. /\ DbTyped' /\ gone /\ \A u \in DbUsers \ {user} : accounts'[u] = accounts[u]
    BY <1>a, <1>c, <1>1 DEF DbTyped, ghosts
  <2>2. DbNumbers'
    BY <1>a, <1>c, <1>1, DbCounting
  <2> QED BY <1>f, <1>1, <2>1, <2>2 DEF ghosts
<1>2. CASE /\ keep /\ (DbFault \/ DbWorks) /\ go
           /\ leftUsers' = leftUsers \cup {user} /\ UNCHANGED <<cutShort, taken>>
  <2>1. DbTyped' /\ gone
    BY <1>a, <1>c, <1>2 DEF DbTyped
  <2>2. DbNumbers'
    BY <1>a, <1>c, <1>2, DbCounting
  <2> QED BY <1>f, <1>2, <2>1, <2>2
<1>3. CASE keep /\ DbFault /\ DbBreaks(r)
  BY <1>a, <1>c, <1>3, BreakingStill DEF server
<1>4. CASE keep /\ DbWorks /\ DbBreaks(r)
  <2>1. DbPending' /\ OnlyDb(r)' /\ dbReq'[r] = NoDbReq /\ DbStage(r)'
    BY <1>a, <1>4, Finishing DEF DbBreaks
  <2>2. DbTyped'
    BY <1>a, <1>c, <1>4, RequestParts DEF DbTyped, DbBreaks
  <2>3. DbNumbers'
    BY <1>a, <1>c, <1>4, DbCounting
  <2>4. DbSettled(r)'
    BY <1>a, <1>b, <1>c, <1>4, <2>1, NoDbRequest, DbRowParts
    DEF DbSettled, Connected, Clear, Opens, HasPassword, HasRight, DbBreaks
  <2>5. DbOwned(r)'
    BY <1>a, <1>c, <1>4, <2>1, NoDbRequest DEF DbOwned, Holds, Connected, DbBreaks
  <2> QED BY <2>1, <2>2, <2>3, <2>4, <2>5 DEF DbView
<1> QED BY <1>e, <1>1, <1>2, <1>3, <1>4 DEF DropAccount

LEMMA Forgets ==
  ASSUME NEW r \in DbRequests, DbView(r), ForgetConnection(r)
  PROVE  DbView(r)'
<1> DEFINE row == dbReq[r].row
           i   == dbReq[r].id
<1>a. /\ DbTyped /\ DbNumbers /\ DbPending /\ OnlyDb(r) /\ DbSettled(r) /\ DbOwned(r)
      /\ Forgetting(r)
      /\ DbRest(r) /\ dbReq[r].pc = "forget" /\ row \in DbRow /\ row # NoDb /\ row.user \in DbUsers
      /\ i \in DbIds /\ connections[i] = row
  BY DbRowParts DEF DbView, DbStage, ForgetConnection, Forgetting
<1>b. \A j \in Connected : j \in DbIds /\ connections[j] \in DbRow
  BY <1>a DEF DbTyped, Connected
<1>c. UNCHANGED <<access, nextDb, server>>
  BY DEF ForgetConnection
<1>1. CASE /\ connections' = [connections EXCEPT ![i] = NoDb]
           /\ IF dbReq[r].op = "site" THEN DbGoTo(r, "next") ELSE DbFinish(r)
           /\ DbWorks /\ UNCHANGED ghosts
  <2>1. /\ DbPending' /\ OnlyDb(r)'
        /\ dbReq[r].op # "site" => dbReq'[r] = NoDbReq /\ DbStage(r)'
        /\ dbReq[r].op = "site" =>
             /\ dbReq'[r].pc = "next" /\ dbReq'[r].op = "site"
             /\ dbReq'[r].id = i /\ dbReq'[r].row = row
             /\ dbReq'[r].rest = dbReq[r].rest
    BY <1>a, <1>1, DbGoing, Finishing DEF DbSteps
  <2>2. DbTyped'
    BY <1>a, <1>c, <1>1 DEF DbTyped, server, ghosts
  <2>3. DbNumbers'
    BY <1>a, <1>c, <1>1, DbCounting
  <2>4. /\ Connected' = Connected \ {i} /\ connections'[i] = NoDb
        /\ \A j \in DbIds \ {i} : connections'[j] = connections[j]
    BY <1>a, <1>1 DEF DbTyped, Connected
  <2>5. DbSettled(r)'
    BY <1>a, <1>b, <1>c, <1>1, <2>1, <2>4
    DEF DbSettled, Clear, Opens, HasPassword, HasRight, server, ghosts
  <2>6. DbOwned(r)'
    <3>1. \A u \in DbUsers : accounts[u] # NoDb =>
            u \in leftUsers \/ \E j \in Connected' : connections'[j].user = u
      BY <1>a, <1>b, <2>4 DEF DbOwned, Holds, Forgetting, Gone
    <3>2. \A g \in grants :
            \/ g[1] \in leftUsers
            \/ \E j \in Connected' : connections'[j].user = g[1] /\ connections'[j].name = g[2]
      <4> SUFFICES ASSUME NEW g \in grants, g[1] \notin leftUsers
                   PROVE \E j \in Connected' :
                           connections'[j].user = g[1] /\ connections'[j].name = g[2]
        OBVIOUS
      <4>1. g[1] # row.user
        BY <1>a DEF DbTyped, Forgetting, Gone
      <4> QED BY <1>a, <1>b, <2>4, <4>1 DEF DbOwned, Holds
    <3> QED BY <1>c, <1>1, <3>1, <3>2 DEF DbOwned, server, ghosts
  <2>7. DbStage(r)'
    <3>1. CASE dbReq[r].op # "site"
      BY <2>1, <3>1
    <3>2. CASE dbReq[r].op = "site"
      <4>1. \A item \in dbReq[r].rest : item[1] \in DbIds \ {i}
        BY <1>a, RequestParts DEF DbRest
      <4>2. DbRest(r)'
        BY <1>a, <2>1, <2>4, <3>2, <4>1 DEF DbRest
      <4> QED BY <1>a, <1>c, <1>1, <2>1, <2>4, <3>2, <4>2
              DEF DbStage, Making, Listing, Forgetting, Gone, server, ghosts
    <3> QED BY <3>1, <3>2
  <2> QED BY <2>1, <2>2, <2>3, <2>5, <2>6, <2>7 DEF DbView
<1>2. CASE DbFault /\ DbBreaks(r) /\ UNCHANGED connections
  BY <1>a, <1>c, <1>2, BreakingStill
<1> QED BY <1>1, <1>2 DEF ForgetConnection

-----------------------------------------------------------------------------
(* A change of the password. *)

\* What an action of it may assume.
LEMMA Alters ==
  ASSUME NEW r \in DbRequests, DbView(r), dbReq[r].pc \in {"alter", "flush", "save"}
  PROVE  /\ DbTyped /\ DbNumbers /\ DbPending /\ OnlyDb(r) /\ DbSettled(r) /\ DbOwned(r)
         /\ Altering(r) /\ DbRest(r)
         /\ dbReq[r].row \in DbRow /\ dbReq[r].row # NoDb /\ dbReq[r].row.user \in DbUsers
         /\ dbReq[r].row.password \in DbPasswords
         /\ dbReq[r].id \in Connected /\ dbReq[r].id \in DbIds
         /\ \A i \in Connected : i \in DbIds /\ connections[i] \in DbRow
BY DbRowParts DEF DbView, DbStage, Altering, DbTyped, Connected

LEMMA AltersAccount ==
  ASSUME NEW r \in DbRequests, DbView(r), AlterAccount(r)
  PROVE  DbView(r)'
<1> DEFINE row == dbReq[r].row
           go  == DbGoTo(r, IF access = "mariadb" THEN "flush" ELSE "save")
<1>a. /\ DbTyped /\ DbNumbers /\ DbPending /\ OnlyDb(r) /\ DbSettled(r) /\ DbOwned(r) /\ Altering(r)
      /\ DbRest(r) /\ dbReq[r].pc = "alter" /\ row \in DbRow /\ row # NoDb /\ row.user \in DbUsers
      /\ row.password \in DbPasswords
      /\ dbReq[r].id \in Connected /\ dbReq[r].id \in DbIds
      /\ \A i \in Connected : i \in DbIds /\ connections[i] \in DbRow
  BY Alters DEF AlterAccount
<1>c. UNCHANGED <<access, connections, nextDb, bases, grants>>
  BY DEF AlterAccount
<1>d. \A i \in Connected \ {dbReq[r].id} : connections[i].user # row.user
  BY <1>a DEF Altering, DbSettled
<1>e. go => /\ DbPending' /\ OnlyDb(r)' /\ dbReq'[r].pc \in {"flush", "save"}
            /\ dbReq'[r].op = dbReq[r].op /\ dbReq'[r].id = dbReq[r].id /\ dbReq'[r].row = row
            /\ dbReq'[r].rest = dbReq[r].rest
  BY <1>a, DbGoing DEF DbSteps
<1>1. CASE /\ accounts[row.user] # NoDb
           /\ accounts' = [accounts EXCEPT ![row.user] = row.password]
           /\ go /\ DbWorks /\ UNCHANGED ghosts
  <2>1. /\ accounts' \in [DbUsers -> DbPasswords \cup {NoDb}] /\ accounts'[row.user] = row.password
        /\ \A u \in DbUsers \ {row.user} : accounts'[u] = accounts[u]
    BY <1>a, <1>1 DEF DbTyped
  <2>2. DbTyped'
    BY <1>a, <1>c, <1>1, <2>1, DbRowParts DEF DbTyped, ghosts
  <2>3. DbNumbers'
    BY <1>a, <1>c, <1>1, DbCounting
  <2>4. DbSettled(r)'
    BY <1>a, <1>c, <1>d, <1>e, <1>1, <2>1, DbRowParts
    DEF DbSettled, Connected, Clear, Opens, HasPassword, HasRight, ghosts
  <2>5. DbOwned(r)'
    BY <1>a, <1>c, <1>e, <1>1, <2>1 DEF DbOwned, Holds, Connected, ghosts
  <2>6. DbStage(r)'
    BY <1>a, <1>c, <1>e, <1>1, <2>1
    DEF DbStage, Making, DbRest, Altering, Connected, Clear, HasRight, ghosts
  <2> QED BY <1>e, <1>1, <2>2, <2>3, <2>4, <2>5, <2>6 DEF DbView
<1>2. CASE /\ UNCHANGED <<accounts, leftUsers, taken>> /\ go /\ (DbWorks \/ DbFault)
           /\ cutShort' = cutShort \cup {dbReq[r].id}
  <2>1. DbTyped'
    BY <1>a, <1>c, <1>2 DEF DbTyped
  <2>2. DbNumbers'
    BY <1>a, <1>c, <1>2, DbCounting
  <2>3. DbSettled(r)'
    BY <1>a, <1>c, <1>e, <1>2 DEF DbSettled, Connected, Clear, Opens, HasPassword, HasRight
  <2>4. DbOwned(r)'
    BY <1>a, <1>c, <1>e, <1>2 DEF DbOwned, Holds, Connected
  <2>5. DbStage(r)'
    BY <1>a, <1>c, <1>e, <1>2 DEF DbStage, Making, DbRest, Altering, Connected, Clear
  <2> QED BY <1>e, <1>2, <2>1, <2>2, <2>3, <2>4, <2>5 DEF DbView
<1>3. CASE /\ UNCHANGED <<accounts, ghosts>> /\ DbFinish(r) /\ (DbWorks \/ DbFault)
  <2>1. DbPending' /\ OnlyDb(r)' /\ dbReq'[r] = NoDbReq /\ DbStage(r)'
    BY <1>a, <1>3, Finishing
  <2>2. DbTyped'
    BY <1>a, <1>c, <1>3 DEF DbTyped, ghosts
  <2>3. DbNumbers'
    BY <1>a, <1>c, <1>3, DbCounting
  <2>4. DbSettled(r)'
    BY <1>a, <1>c, <1>3, <2>1, NoDbRequest
    DEF DbSettled, Connected, Clear, Opens, HasPassword, HasRight, Altering, ghosts
  <2>5. DbOwned(r)'
    BY <1>a, <1>c, <1>3, <2>1, NoDbRequest DEF DbOwned, Holds, Connected, Altering, ghosts
  <2> QED BY <2>1, <2>2, <2>3, <2>4, <2>5 DEF DbView
<1> QED BY <1>1, <1>2, <1>3 DEF AlterAccount

LEMMA Flushes ==
  ASSUME NEW r \in DbRequests, DbView(r), FlushPrivileges(r)
  PROVE  DbView(r)'
<1>a. /\ DbTyped /\ DbNumbers /\ DbPending /\ OnlyDb(r) /\ DbSettled(r) /\ DbOwned(r) /\ Altering(r)
      /\ DbRest(r) /\ dbReq[r].pc = "flush" /\ dbReq[r].row \in DbRow
  BY Alters DEF FlushPrivileges
<1>c. UNCHANGED <<access, connections, nextDb, server>>
  BY DEF FlushPrivileges
<1>1. CASE DbGoTo(r, "save") /\ DbWorks /\ UNCHANGED ghosts
  <2>1. /\ DbPending' /\ OnlyDb(r)' /\ dbReq'[r].pc = "save" /\ dbReq'[r].op = dbReq[r].op
        /\ dbReq'[r].id = dbReq[r].id /\ dbReq'[r].row = dbReq[r].row
        /\ dbReq'[r].rest = dbReq[r].rest
    BY <1>a, <1>1, DbGoing DEF DbSteps
  <2>2. DbTyped' /\ DbNumbers'
    BY <1>a, <1>c, <1>1, DbCounting DEF DbTyped, server, ghosts
  <2>3. DbSettled(r)'
    BY <1>a, <1>c, <1>1, <2>1
    DEF DbSettled, Connected, Clear, Opens, HasPassword, HasRight, server, ghosts
  <2>4. DbOwned(r)'
    BY <1>a, <1>c, <1>1, <2>1 DEF DbOwned, Holds, Connected, server, ghosts
  <2>5. DbStage(r)'
    BY <1>a, <1>c, <1>1, <2>1
    DEF DbStage, Making, DbRest, Altering, Connected, Clear, HasRight, server, ghosts
  <2> QED BY <2>1, <2>2, <2>3, <2>4, <2>5 DEF DbView
<1>2. CASE DbFault /\ DbBreaks(r)
  BY <1>a, <1>c, <1>2, BreakingStill
<1> QED BY <1>1, <1>2 DEF FlushPrivileges

LEMMA Saves ==
  ASSUME NEW r \in DbRequests, DbView(r), SaveConnection(r)
  PROVE  DbView(r)'
<1> DEFINE row == dbReq[r].row
           i   == dbReq[r].id
<1>a. /\ DbTyped /\ DbNumbers /\ DbPending /\ OnlyDb(r) /\ DbSettled(r) /\ DbOwned(r) /\ Altering(r)
      /\ dbReq[r].pc = "save" /\ row \in DbRow /\ row # NoDb /\ i \in Connected /\ i \in DbIds
      /\ \A j \in Connected : j \in DbIds /\ connections[j] \in DbRow
  BY Alters DEF SaveConnection
<1>c. UNCHANGED <<access, nextDb, server>>
  BY DEF SaveConnection
<1>1. CASE connections' = [connections EXCEPT ![i] = row] /\ DbFinish(r) /\ DbWorks
           /\ UNCHANGED ghosts
  <2>1. DbPending' /\ OnlyDb(r)' /\ dbReq'[r] = NoDbReq /\ DbStage(r)'
    BY <1>a, <1>1, Finishing
  <2>2. DbTyped' /\ DbNumbers'
    BY <1>a, <1>c, <1>1, DbCounting DEF DbTyped, server, ghosts
  <2>3. /\ Connected' = Connected /\ connections'[i] = row
        /\ row.user = connections[i].user /\ row.name = connections[i].name
        /\ \A j \in Connected \ {i} : connections'[j] = connections[j]
    BY <1>a, <1>1 DEF DbTyped, Connected, Altering
  <2>4. \A j \in Connected : Clear(j)' => Opens(j)'
    BY <1>a, <1>c, <1>1, <2>3
    DEF DbSettled, Clear, Opens, HasPassword, HasRight, Altering, server, ghosts
  <2>5. DbSettled(r)'
    BY <1>a, <1>c, <1>1, <2>3, <2>4 DEF DbSettled, ghosts
  <2>6. DbOwned(r)'
    BY <1>a, <1>c, <1>1, <2>1, <2>3, NoDbRequest DEF DbOwned, Holds, Altering, server, ghosts
  <2> QED BY <2>1, <2>2, <2>5, <2>6 DEF DbView
<1>2. CASE DbFault /\ DbBreaks(r) /\ UNCHANGED connections
  BY <1>a, <1>c, <1>2, BreakingStill
<1> QED BY <1>1, <1>2 DEF SaveConnection

-----------------------------------------------------------------------------
(* The whole. *)

\* The death of the panel is that of the one request under way.
LEMMA Dies ==
  ASSUME NEW r \in DbRequests, DbView(r), dbReq[r].pc # "idle", DbCrash
  PROVE  DbView(r)'
<1>a. /\ DbTyped /\ DbNumbers /\ DbPending /\ OnlyDb(r) /\ DbStage(r) /\ DbSettled(r) /\ DbOwned(r)
  BY DEF DbView
<1> DEFINE lost == {q \in DbRequests : dbReq[q].pc # "idle" /\ dbReq[q].row # NoDb}
<1>b. lost = IF dbReq[r].row = NoDb THEN {} ELSE {r}
  BY <1>a, NoDbRequest DEF OnlyDb
<1>c. /\ DbFault /\ dbReq' = [q \in DbRequests |-> NoDbReq]
      /\ UNCHANGED <<access, connections, nextDb, server, taken>>
      /\ cutShort' = cutShort \cup ({dbReq[q].id : q \in lost} \ {NoDb})
      /\ leftUsers' = leftUsers \cup {dbReq[q].row.user : q \in lost}
  BY DEF DbCrash
<1>1. DbPending' /\ OnlyDb(r)' /\ dbReq'[r] = NoDbReq
  BY <1>c, NoDbRequest DEF DbPending, OnlyDb
<1>2. DbStage(r)'
  BY <1>1, NoDbRequest DEF DbStage, DbRest, Making
<1>3. CASE dbReq[r].row = NoDb
  <2>1. cutShort' = cutShort /\ leftUsers' = leftUsers
    BY <1>b, <1>c, <1>3
  <2>2. DbTyped' /\ DbNumbers'
    BY <1>a, <1>c, <2>1, DbCounting DEF DbTyped, server
  <2>3. dbReq[r].id = NoDb
    BY <1>a, <1>3, DbRowParts
    DEF DbStage, Creating, Dropping, Forgetting, Listing, Altering, Making, DbPending,
        DbRequestStates
  <2>4. DbSettled(r)'
    BY <1>a, <1>c, <1>1, <2>1, <2>3, NoDbRequest
    DEF DbSettled, Connected, Clear, Opens, HasPassword, HasRight, server
  <2>5. DbOwned(r)'
    BY <1>a, <1>c, <1>1, <1>3, <2>1, NoDbRequest DEF DbOwned, Holds, Connected, server
  <2> QED BY <1>1, <1>2, <2>2, <2>4, <2>5 DEF DbView
<1>4. CASE dbReq[r].row # NoDb
  <2>1. cutShort' = cutShort \cup ({dbReq[r].id} \ {NoDb})
        /\ leftUsers' = leftUsers \cup {dbReq[r].row.user}
    BY <1>b, <1>c, <1>4
  <2>2. DbTyped' /\ DbNumbers'
    BY <1>a, <1>c, <1>4, <2>1, DbCounting, RequestParts, DbRowParts DEF DbTyped, server
  <2>3. DbSettled(r)'
    BY <1>a, <1>c, <1>1, <2>1, NoDbRequest, DbRowParts
    DEF DbSettled, Connected, Clear, Opens, HasPassword, HasRight, server
  <2>4. DbOwned(r)'
    BY <1>a, <1>c, <1>1, <2>1, NoDbRequest DEF DbOwned, Holds, Connected, server
  <2> QED BY <1>1, <1>2, <2>2, <2>3, <2>4 DEF DbView
<1> QED BY <1>3, <1>4

LEMMA DatabasesInitially == DbInit => DbInv
<1> SUFFICES ASSUME DbInit PROVE DbInv
  OBVIOUS
<1>1. \A r \in DbRequests : dbReq[r] = NoDbReq
  BY DEF DbInit
<1>2. DatabasesTypeOK
  <2>1. nextDb \in 1..(MaxDbRows + 1) /\ dbFailures \in 0..MaxDbFailures
    BY DatabasesAssumption DEF DbInit
  <2>2. dbReq \in [DbRequests -> DbRequestStates]
    BY NoDbRequest DEF DbInit
  <2> QED BY <2>1, <2>2, DatabasesAssumption DEF DbInit, DatabasesTypeOK
<1>3. DbTurns
  BY <1>1, NoDbRequest DEF DbTurns
<1>4. DbStages
  BY <1>1, NoDbRequest DEF DbStages, DbStage, DbRest, Making
<1>5. DbRowsFit
  BY DEF DbInit, DbRowsFit, Connected
<1>6. AccountsOwned
  BY DEF DbInit, AccountsOwned
<1> QED BY <1>2, <1>3, <1>4, <1>5, <1>6 DEF DbInv

\* What every step leaves is the invariant again.
LEMMA DbWidenAll == \A r \in DbRequests : DbView(r) => DbInv
BY DbWiden
LEMMA DbWidenNext == (\A r \in DbRequests : DbView(r) => DbInv)'
BY DbWidenAll, PTL

LEMMA DatabasesKeep == ~DbOverlapping /\ DbInv /\ [DbNext]_dbVars => DbInv'
<1> SUFFICES ASSUME ~DbOverlapping, DbInv, [DbNext]_dbVars PROVE DbInv'
  OBVIOUS
<1>1. CASE DbCrash
  <2>1. PICK r \in DbRequests : dbReq[r].pc # "idle"
    BY <1>1 DEF DbCrash
  <2>2. DbView(r)'
    BY <1>1, <2>1, DbFocus, Dies
  <2> QED BY <2>2, DbWidenNext
<1>2. CASE UNCHANGED dbVars
  BY <1>2 DEF dbVars, DbInv, DatabasesTypeOK, DbTurns, DbStages, DbStage, Creating, Dropping,
     Forgetting, Listing, Altering, DbRest, NewUser, NewName, Gone, HasRight, HasPassword, Clear,
     Opens, AccountAhead, BaseDone, DbRowsFit, AccountsOwned, Connected, AtConnection, Shown,
     InFlight
<1>3. ASSUME NEW r \in DbRequests, DbStep(r) PROVE DbInv'
  <2>1. CASE NotListed(r)
    BY <1>2, <2>1 DEF NotListed
  <2>2. CASE BeginDb(r) \/ BeginDropDb(r) \/ BeginSiteDbs(r) \/ BeginDbPassword(r)
    <3>1. \A q \in DbRequests : dbReq[q].pc = "idle"
      BY <2>2 DEF BeginDb, BeginDropDb, BeginSiteDbs, BeginDbPassword, DbIdle
    <3>2. DbView(r)'
      BY <2>2, <3>1, DbFocus, DbBegins
    <3> QED BY <3>2, DbWidenNext
  <2>3. CASE CreateBase(r) \/ CreateAccount(r) \/ GrantAll(r) \/ InsertConnection(r)
    <3>1. dbReq[r].pc # "idle"
      BY <2>3 DEF CreateBase, CreateAccount, GrantAll, InsertConnection
    <3>2. DbView(r)'
      BY <2>3, <3>1, DbFocus, CreatesBase, CreatesAccount, Grants, Inserts
    <3> QED BY <3>2, DbWidenNext
  <2>4. CASE NextDbOfSite(r) \/ DropBase(r) \/ DropAccount(r) \/ ForgetConnection(r)
    <3>1. dbReq[r].pc # "idle"
      BY <2>4 DEF NextDbOfSite, DropBase, DropAccount, ForgetConnection
    <3>2. DbView(r)'
      BY <2>4, <3>1, DbFocus, Lists, DropsBase, DropsAccount, Forgets
    <3> QED BY <3>2, DbWidenNext
  <2>5. CASE AlterAccount(r) \/ FlushPrivileges(r) \/ SaveConnection(r)
    <3>1. dbReq[r].pc # "idle"
      BY <2>5 DEF AlterAccount, FlushPrivileges, SaveConnection
    <3>2. DbView(r)'
      BY <2>5, <3>1, DbFocus, AltersAccount, Flushes, Saves
    <3> QED BY <3>2, DbWidenNext
  <2> QED BY <1>3, <2>1, <2>2, <2>3, <2>4, <2>5 DEF DbStep
<1> QED BY <1>1, <1>2, <1>3 DEF DbNext

LEMMA DatabasesAgree == DbInv => DatabasesKept
<1> SUFFICES ASSUME DbInv PROVE DatabasesKept
  OBVIOUS
<1>1. ConnectionsOpen
  BY DEF DbInv, DbRowsFit, ConnectionsOpen, Undisturbed, Clear, Opens, HasPassword, HasRight
<1> QED BY <1>1 DEF DbInv, DatabasesKept

-----------------------------------------------------------------------------
(* The types, whether requests take turns or not.  A request has the row,   *)
(* and the number, that the step it is at needs.                            *)

DbHeld(r) ==
  /\ dbReq[r].pc \in {"base", "account", "grant", "insert", "drop", "revoke", "alter", "flush",
                      "save", "forget"} => dbReq[r].row \in DbRow
  /\ dbReq[r].pc = "grant" => access = "mariadb"
  /\ dbReq[r].pc \in Making => dbReq[r].op = "create"
  /\ dbReq[r].pc \in {"drop", "revoke", "forget"} => dbReq[r].op = "create" \/ dbReq[r].id \in DbIds
  /\ dbReq[r].pc = "forget" => dbReq[r].op # "create"
  /\ dbReq[r].pc = "next" => dbReq[r].op = "site"
  /\ dbReq[r].pc \in {"alter", "flush", "save"} => dbReq[r].id \in DbIds
DbHands == \A r \in DbRequests : DbHeld(r)
DbAnyhow == DatabasesTypeOK /\ DbHands

LEMMA DbMoves ==
  ASSUME DbAnyhow, NEW r \in DbRequests, UNCHANGED access,
         NEW new \in DbRequestStates, dbReq' = [dbReq EXCEPT ![r] = new],
         DbHeld(r)', DbTyped', DbNumbers'
  PROVE  DbAnyhow'
<1>1. dbReq' \in [DbRequests -> DbRequestStates] /\ \A q \in DbRequests \ {r} : dbReq'[q] = dbReq[q]
  BY DEF DbAnyhow, DatabasesTypeOK
<1>2. DbHands'
  BY <1>1 DEF DbAnyhow, DbHands, DbHeld
<1> QED BY <1>1, <1>2 DEF DbAnyhow, DatabasesTypeOK, DbTyped, DbNumbers

\* A request that breaks off, or ends, keeps nothing.
LEMMA DbRests ==
  ASSUME DbAnyhow, NEW r \in DbRequests, UNCHANGED access, DbFinish(r), DbTyped', DbNumbers'
  PROVE  DbAnyhow'
<1>1. dbReq'[r] = NoDbReq
  BY DEF DbFinish, DbAnyhow, DatabasesTypeOK
<1>2. DbHeld(r)'
  BY <1>1, NoDbRequest DEF DbHeld, Making
<1> QED BY <1>2, NoDbRequest, DbMoves DEF DbFinish

LEMMA DbGhosts ==
  ASSUME DbAnyhow, NEW r \in DbRequests, DbBreaks(r), dbReq[r].row \in DbRow
  PROVE  cutShort' \subseteq DbIds /\ leftUsers' \subseteq DbUsers /\ taken' \subseteq DbNames
<1>1. dbReq[r].id \in DbIds \cup {NoDb} /\ dbReq[r].row.user \in DbUsers
  BY DbRowParts DEF DbAnyhow, DatabasesTypeOK, DbRequestStates
<1> QED BY <1>1 DEF DbBreaks, DbAnyhow, DatabasesTypeOK

LEMMA DbGoes ==
  ASSUME DbAnyhow, NEW r \in DbRequests, UNCHANGED access, NEW pc \in DbSteps, DbGoTo(r, pc),
         DbHeld(r)', DbTyped', DbNumbers'
  PROVE  DbAnyhow'
<1>1. dbReq' = [dbReq EXCEPT ![r] = [dbReq[r] EXCEPT !.pc = pc]]
  BY DEF DbGoTo
<1>2. [dbReq[r] EXCEPT !.pc = pc] \in DbRequestStates
  BY DEF DbAnyhow, DatabasesTypeOK, DbRequestStates, DbSteps
<1> HIDE DEF DbRequestStates
<1> QED BY <1>1, <1>2, DbMoves

\* What a request has in hand while it goes on.
LEMMA DbStays ==
  ASSUME DbAnyhow, NEW r \in DbRequests, NEW pc, DbGoTo(r, pc)
  PROVE  /\ dbReq'[r].pc = pc /\ dbReq'[r].op = dbReq[r].op /\ dbReq'[r].id = dbReq[r].id
         /\ dbReq'[r].row = dbReq[r].row
BY DEF DbAnyhow, DatabasesTypeOK, DbRequestStates, DbGoTo

LEMMA DbStartsTyped ==
  ASSUME DbAnyhow, NEW r \in DbRequests,
         BeginDb(r) \/ BeginDropDb(r) \/ BeginSiteDbs(r) \/ BeginDbPassword(r)
  PROVE  DbAnyhow'
<1>a. DbTyped /\ DbNumbers /\ \A i \in Connected : i \in DbIds /\ connections[i] \in DbRow
  BY DEF DbAnyhow, DatabasesTypeOK, DbTyped, DbNumbers, Connected
<1>b. ASSUME NEW op \in {"create", "password", "delete", "site"},
             NEW pc \in {"base", "account", "drop", "next", "alter"},
             NEW id \in DbIds \cup {NoDb}, NEW row \in DbRow \cup {NoDb},
             NEW rest \in SUBSET (DbIds \X DbRow), DbStart(r, op, pc, id, row, rest),
             UNCHANGED ghosts, pc # "next" => row \in DbRow,
             pc \in {"base", "account"} => op = "create", pc = "next" => op = "site",
             pc \in {"drop", "alter"} => id \in DbIds
      PROVE  DbAnyhow'
  <2> DEFINE new == [pc |-> pc, op |-> op, id |-> id, row |-> row, rest |-> rest]
  <2>1. new \in DbRequestStates
    BY <1>b DEF DbRequestStates, Making
  <2>2. dbReq' = [dbReq EXCEPT ![r] = new]
    BY <1>b DEF DbStart
  <2>3. dbReq'[r] = new
    BY <2>2 DEF DbAnyhow, DatabasesTypeOK
  <2>4. DbHeld(r)'
    BY <1>b, <2>3 DEF DbHeld, Making
  <2>5. DbTyped' /\ DbNumbers' /\ UNCHANGED access
    BY <1>a, <1>b DEF DbStart, DbWorks, DbTyped, DbNumbers, server, ghosts
  <2> HIDE DEF new
  <2> QED BY <2>1, <2>2, <2>4, <2>5, DbMoves
<1>1. CASE BeginDb(r)
  <2>1. PICK row \in DbRow : DbStart(r, "create", FirstStatement, NoDb, row, {})
    BY <1>1 DEF BeginDb
  <2>2. FirstStatement \in {"base", "account"} /\ {} \in SUBSET (DbIds \X DbRow)
        /\ NoDb \in DbIds \cup {NoDb} /\ UNCHANGED ghosts
    BY <1>1 DEF FirstStatement, BeginDb
  <2> QED BY <1>b, <2>1, <2>2
<1>2. CASE BeginDropDb(r)
  <2>1. PICK i \in Connected : DbStart(r, "delete", "drop", i, connections[i], {})
    BY <1>2 DEF BeginDropDb
  <2>2. i \in DbIds /\ connections[i] \in DbRow /\ {} \in SUBSET (DbIds \X DbRow)
        /\ UNCHANGED ghosts
    BY <1>2, <1>a DEF BeginDropDb
  <2> QED BY <1>b, <2>1, <2>2
<1>3. CASE BeginSiteDbs(r)
  <2>1. PICK s \in DbSites :
          DbStart(r, "site", "next", NoDb, NoDb, {<<i, connections[i]>> : i \in OfSite(s)})
    BY <1>3 DEF BeginSiteDbs
  <2> DEFINE rest == {<<i, connections[i]>> : i \in OfSite(s)}
  <2>2. rest \in SUBSET (DbIds \X DbRow)
    BY <1>a DEF OfSite
  <2>3. NoDb \in DbIds \cup {NoDb} /\ NoDb \in DbRow \cup {NoDb} /\ UNCHANGED ghosts
        /\ DbStart(r, "site", "next", NoDb, NoDb, rest)
    BY <1>3, <2>1 DEF BeginSiteDbs
  <2> HIDE DEF rest
  <2> QED BY <1>b, <2>2, <2>3
<1>4. CASE BeginDbPassword(r)
  <2>1. PICK i \in Connected, p \in DbPasswords :
          DbStart(r, "password", "alter", i, [connections[i] EXCEPT !.password = p], {})
    BY <1>4 DEF BeginDbPassword
  <2> DEFINE row == [connections[i] EXCEPT !.password = p]
  <2>2. i \in DbIds /\ row \in DbRow /\ {} \in SUBSET (DbIds \X DbRow) /\ UNCHANGED ghosts
        /\ DbStart(r, "password", "alter", i, row, {})
    BY <1>4, <1>a, <2>1 DEF BeginDbPassword, DbRow
  <2> HIDE DEF row
  <2> QED BY <1>b, <2>2
<1> QED BY <1>1, <1>2, <1>3, <1>4

LEMMA DbMakesTyped ==
  ASSUME DbAnyhow, NEW r \in DbRequests,
         CreateBase(r) \/ CreateAccount(r) \/ GrantAll(r) \/ InsertConnection(r)
  PROVE  DbAnyhow'
<1> DEFINE row == dbReq[r].row
<1>a. /\ DbTyped /\ DbNumbers /\ DbHeld(r) /\ dbReq[r].pc \in Making
      /\ row \in DbRow /\ row.user \in DbUsers /\ row.name \in DbNames /\ row # NoDb
      /\ row.password \in DbPasswords /\ dbReq[r].op = "create"
  BY DbRowParts DEF DbAnyhow, DbHands, DatabasesTypeOK, DbTyped, DbNumbers, DbHeld, Making,
     CreateBase, CreateAccount, GrantAll, InsertConnection
<1>b. \A pc \in DbSteps : DbGoTo(r, pc) =>
        dbReq'[r].pc = pc /\ dbReq'[r].row = row /\ dbReq'[r].op = "create"
  BY <1>a, DbStays
<1>f. ASSUME DbFault \/ DbWorks, DbBreaks(r),
             UNCHANGED <<access, connections, nextDb, bases, accounts, grants>>
      PROVE  DbAnyhow'
  <2>1. DbNumbers'
    BY <1>a, <1>f, DbCounting
  <2>2. DbTyped' /\ DbFinish(r)
    BY <1>a, <1>f, DbGhosts DEF DbTyped, DbBreaks
  <2> QED BY <1>f, <2>1, <2>2, DbRests
<1>1. CASE CreateBase(r)
  <2>1. CASE /\ access = "mariadb" \/ row.name \in bases \/ accounts[row.user] # NoDb
             /\ bases' = bases \cup {row.name}
             /\ grants' = IF access = "mariadb" \/ row.name \in bases THEN grants
                          ELSE grants \cup {<<row.user, row.name>>}
             /\ taken' = IF Somebodys(row.name) THEN taken \cup {row.name} ELSE taken
             /\ DbGoTo(r, Later.base) /\ DbWorks /\ UNCHANGED <<cutShort, leftUsers>>
    <3>a. UNCHANGED <<access, connections, nextDb, accounts>>
      BY <1>1 DEF CreateBase
    <3>1. Later.base \in {"account", "insert"} /\ Later.base \in DbSteps
      BY DEF Later, DbSteps, Making
    <3>2. DbTyped' /\ DbNumbers'
      BY <1>a, <2>1, <3>a DEF DbTyped, DbNumbers, DbWorks
    <3>3. DbHeld(r)'
      BY <1>a, <1>b, <2>1, <3>1 DEF DbHeld, Making
    <3> QED BY <2>1, <3>a, <3>1, <3>2, <3>3, DbGoes
  <2> QED BY <1>1, <1>f, <2>1 DEF CreateBase
<1>2. CASE CreateAccount(r)
  <2>1. CASE /\ accounts' = [accounts EXCEPT ![row.user] = PasswordAfter(@, row.password)]
             /\ DbGoTo(r, Later.account) /\ DbWorks /\ UNCHANGED ghosts
    <3>a. UNCHANGED <<access, connections, nextDb, bases, grants>>
      BY <1>2 DEF CreateAccount
    <3>1. /\ Later.account = IF access = "mariadb" THEN "grant" ELSE "base"
          /\ Later.account \in DbSteps
      BY DEF Later, DbSteps, Making
    <3>2. /\ accounts' \in [DbUsers -> DbPasswords \cup {NoDb}]
          /\ \A u \in DbUsers : accounts[u] # NoDb => accounts'[u] # NoDb
      BY <1>a, <2>1, DbRowParts DEF DbTyped, PasswordAfter
    <3>3. DbTyped' /\ DbNumbers'
      BY <1>a, <2>1, <3>a, <3>2 DEF DbTyped, DbNumbers, DbWorks, ghosts
    <3>4. DbHeld(r)'
      BY <1>a, <1>b, <2>1, <3>a, <3>1 DEF DbHeld, Making
    <3> QED BY <2>1, <3>a, <3>1, <3>3, <3>4, DbGoes
  <2> QED BY <1>2, <1>f, <2>1 DEF CreateAccount
<1>3. CASE GrantAll(r)
  <2>1. CASE /\ accounts[row.user] # NoDb /\ grants' = grants \cup {<<row.user, row.name>>}
             /\ DbGoTo(r, Later.grant) /\ DbWorks /\ UNCHANGED ghosts
    <3>a. /\ UNCHANGED <<access, connections, nextDb, bases, accounts>>
          /\ dbReq[r].pc = "grant" /\ access = "mariadb"
      BY <1>3, <1>a DEF GrantAll, DbHeld
    <3>1. Later.grant = "insert" /\ "insert" \in DbSteps
      BY <3>a DEF Later, DbSteps, Making
    <3>2. DbTyped' /\ DbNumbers'
      BY <1>a, <2>1, <3>a DEF DbTyped, DbNumbers, DbWorks, ghosts
    <3>3. DbHeld(r)'
      BY <1>a, <1>b, <2>1, <3>1 DEF DbHeld, Making
    <3> QED BY <2>1, <3>a, <3>1, <3>2, <3>3, DbGoes
  <2> QED BY <1>3, <1>f, <2>1 DEF GrantAll
<1>4. CASE InsertConnection(r)
  <2>a. UNCHANGED <<access, server, ghosts>>
    BY <1>4 DEF InsertConnection
  <2>1. CASE /\ nextDb \in DbIds /\ connections' = [connections EXCEPT ![nextDb] = row]
             /\ nextDb' = nextDb + 1 /\ DbFinish(r) /\ DbWorks
    <3>1. DbTyped'
      BY <1>a, <2>a, <2>1 DEF DbTyped, server, ghosts
    <3>2. DbNumbers'
      BY <1>a, <2>1, DatabasesAssumption DEF DbNumbers, DbWorks, DbIds
    <3> QED BY <2>a, <2>1, <3>1, <3>2, DbRests
  <2>2. CASE DbFault /\ DbGoTo(r, "drop") /\ UNCHANGED <<connections, nextDb>>
    <3>1. DbTyped' /\ DbNumbers'
      BY <1>a, <2>a, <2>2, DbCounting DEF DbTyped, server, ghosts
    <3>2. "drop" \in DbSteps /\ DbHeld(r)'
      BY <1>a, <1>b, <2>2 DEF DbHeld, Making, DbSteps
    <3> QED BY <2>a, <2>2, <3>1, <3>2, DbGoes
  <2> QED BY <1>4, <2>1, <2>2 DEF InsertConnection
<1> QED BY <1>1, <1>2, <1>3, <1>4

LEMMA DbDropsTyped ==
  ASSUME DbAnyhow, NEW r \in DbRequests,
         NextDbOfSite(r) \/ DropBase(r) \/ DropAccount(r) \/ ForgetConnection(r)
  PROVE  DbAnyhow'
<1> DEFINE row == dbReq[r].row
<1>a. /\ DbTyped /\ DbNumbers /\ DbHeld(r) /\ dbReq[r] \in DbRequestStates
  BY DEF DbAnyhow, DbHands, DatabasesTypeOK, DbTyped, DbNumbers
<1>b. dbReq[r].pc # "next" => /\ row \in DbRow /\ row.user \in DbUsers /\ row.name \in DbNames
                              /\ dbReq[r].pc \in {"drop", "revoke", "forget"}
  BY <1>a, DbRowParts DEF DbHeld, NextDbOfSite, DropBase, DropAccount, ForgetConnection
<1>c. \A pc \in DbSteps : DbGoTo(r, pc) =>
        dbReq'[r].pc = pc /\ dbReq'[r].row = row /\ dbReq'[r].op = dbReq[r].op
        /\ dbReq'[r].id = dbReq[r].id
  BY DbStays
<1>f. ASSUME DbFault \/ DbWorks, DbBreaks(r), dbReq[r].pc # "next",
             UNCHANGED <<access, connections, nextDb, bases, accounts, grants>>
      PROVE  DbAnyhow'
  <2>1. DbNumbers'
    BY <1>a, <1>f, DbCounting
  <2>2. DbTyped' /\ DbFinish(r)
    BY <1>a, <1>b, <1>f, DbGhosts DEF DbTyped, DbBreaks
  <2> QED BY <1>f, <2>1, <2>2, DbRests
<1>1. CASE NextDbOfSite(r)
  <2>1. DbTyped' /\ DbNumbers' /\ UNCHANGED access
    BY <1>a, <1>1 DEF NextDbOfSite, DbTyped, DbNumbers, DbWorks, server, ghosts
  <2>2. CASE DbFinish(r)
    BY <2>1, <2>2, DbRests
  <2>3. ASSUME NEW item \in dbReq[r].rest,
               dbReq' = [dbReq EXCEPT ![r].pc = "drop", ![r].id = item[1],
                         ![r].row = item[2], ![r].rest = @ \ {item}]
        PROVE  DbAnyhow'
    <3> DEFINE new == [pc |-> "drop", op |-> dbReq[r].op, id |-> item[1], row |-> item[2],
                       rest |-> dbReq[r].rest \ {item}]
    <3>1. item[1] \in DbIds /\ item[2] \in DbRow /\ new \in DbRequestStates
      BY <1>a DEF DbRequestStates
    <3>2. dbReq' = [dbReq EXCEPT ![r] = new]
      BY <1>a, <2>3 DEF DbAnyhow, DatabasesTypeOK, DbRequestStates
    <3>3. dbReq'[r] = new
      BY <3>2 DEF DbAnyhow, DatabasesTypeOK
    <3>4. DbHeld(r)'
      BY <3>1, <3>3 DEF DbHeld, Making
    <3> HIDE DEF new
    <3> QED BY <2>1, <3>1, <3>2, <3>4, DbMoves
  <2> QED BY <1>1, <2>2, <2>3 DEF NextDbOfSite
<1>2. CASE DropBase(r)
  <2>a. UNCHANGED <<access, connections, nextDb, accounts>> /\ dbReq[r].pc = "drop"
    BY <1>2 DEF DropBase
  <2>1. CASE /\ bases' = bases \ {row.name}
             /\ grants' = IF access = "mariadb" THEN grants
                          ELSE {g \in grants : g[2] # row.name}
             /\ DbGoTo(r, "revoke") /\ DbWorks /\ UNCHANGED ghosts
    <3>1. DbTyped' /\ DbNumbers'
      BY <1>a, <2>a, <2>1 DEF DbTyped, DbNumbers, DbWorks, ghosts
    <3>2. "revoke" \in DbSteps /\ DbHeld(r)'
      BY <1>a, <1>c, <2>a, <2>1 DEF DbHeld, Making, DbSteps
    <3> QED BY <2>a, <2>1, <3>1, <3>2, DbGoes
  <2> QED BY <1>2, <1>f, <2>a, <2>1 DEF DropBase
<1>3. CASE DropAccount(r)
  <2>a. UNCHANGED <<access, connections, nextDb, bases>> /\ dbReq[r].pc = "revoke"
    BY <1>3 DEF DropAccount
  <2>b. row.user \in DbUsers
    BY <1>b, <2>a
  \* The user stays or goes with his rights; what is left is known.
  <2>1. ASSUME \/ UNCHANGED <<accounts, grants>>
               \/ /\ accounts' = [accounts EXCEPT ![row.user] = NoDb]
                  /\ grants' = {g \in grants : g[1] # row.user},
               DbFault \/ DbWorks, UNCHANGED <<cutShort, taken>>,
               leftUsers' = leftUsers \/ leftUsers' = leftUsers \cup {row.user},
               IF dbReq[r].op = "create" THEN DbFinish(r) ELSE DbGoTo(r, "forget")
        PROVE  DbAnyhow'
    <3>1. DbNumbers'
      BY <1>a, <2>a, <2>1, DbCounting
    <3>2. DbTyped'
      BY <1>a, <2>a, <2>b, <2>1 DEF DbTyped
    <3>3. CASE dbReq[r].op = "create"
      BY <2>a, <2>1, <3>1, <3>2, <3>3, DbRests
    <3>4. CASE dbReq[r].op # "create"
      <4>1. "forget" \in DbSteps /\ DbGoTo(r, "forget")
        BY <2>1, <3>4 DEF DbSteps
      <4>2. DbHeld(r)'
        BY <1>a, <1>c, <2>a, <3>4, <4>1 DEF DbHeld, Making
      <4> QED BY <2>a, <3>1, <3>2, <4>1, <4>2, DbGoes
    <3> QED BY <3>3, <3>4
  <2>2. CASE /\ UNCHANGED <<accounts, grants>> /\ (DbFault \/ DbWorks) /\ DbBreaks(r)
    BY <1>f, <2>a, <2>2
  <2> QED BY <1>3, <2>1, <2>2 DEF DropAccount, ghosts
<1>4. CASE ForgetConnection(r)
  <2>a. UNCHANGED <<access, nextDb, server>> /\ dbReq[r].pc = "forget"
    BY <1>4 DEF ForgetConnection
  <2>b. dbReq[r].op # "create" /\ dbReq[r].id \in DbIds
    BY <1>a, <2>a DEF DbHeld
  <2>1. CASE /\ connections' = [connections EXCEPT ![dbReq[r].id] = NoDb]
             /\ IF dbReq[r].op = "site" THEN DbGoTo(r, "next") ELSE DbFinish(r)
             /\ DbWorks /\ UNCHANGED ghosts
    <3>1. DbTyped' /\ DbNumbers'
      BY <1>a, <2>a, <2>b, <2>1 DEF DbTyped, DbNumbers, DbWorks, server, ghosts
    <3>2. CASE dbReq[r].op = "site"
      <4>1. "next" \in DbSteps /\ DbGoTo(r, "next")
        BY <2>1, <3>2 DEF DbSteps
      <4>2. DbHeld(r)'
        BY <1>c, <3>2, <4>1 DEF DbHeld, Making
      <4> QED BY <2>a, <3>1, <4>1, <4>2, DbGoes
    <3>3. CASE dbReq[r].op # "site"
      BY <2>a, <2>1, <3>1, <3>3, DbRests
    <3> QED BY <3>2, <3>3
  <2> QED BY <1>4, <1>f, <2>a, <2>1 DEF ForgetConnection, server
<1> QED BY <1>1, <1>2, <1>3, <1>4

LEMMA DbAltersTyped ==
  ASSUME DbAnyhow, NEW r \in DbRequests, AlterAccount(r) \/ FlushPrivileges(r) \/ SaveConnection(r)
  PROVE  DbAnyhow'
<1> DEFINE row == dbReq[r].row
<1>a. /\ DbTyped /\ DbNumbers /\ DbHeld(r) /\ dbReq[r].pc \in {"alter", "flush", "save"}
      /\ row \in DbRow /\ row.user \in DbUsers /\ row.password \in DbPasswords
      /\ row.password # NoDb /\ dbReq[r].id \in DbIds
  BY DbRowParts DEF DbAnyhow, DbHands, DatabasesTypeOK, DbTyped, DbNumbers, DbHeld,
     AlterAccount, FlushPrivileges, SaveConnection
<1>b. ASSUME NEW pc \in {"flush", "save"}, DbGoTo(r, pc)
      PROVE  pc \in DbSteps /\ DbHeld(r)'
  BY <1>a, <1>b, DbStays DEF DbHeld, Making, DbSteps
<1>f. ASSUME DbFault \/ DbWorks, DbBreaks(r),
             UNCHANGED <<access, connections, nextDb, bases, accounts, grants>>
      PROVE  DbAnyhow'
  <2>1. DbNumbers'
    BY <1>a, <1>f, DbCounting
  <2>2. DbTyped' /\ DbFinish(r)
    BY <1>a, <1>f, DbGhosts DEF DbTyped, DbBreaks
  <2> QED BY <1>f, <2>1, <2>2, DbRests
<1>1. CASE AlterAccount(r)
  <2>a. UNCHANGED <<access, connections, nextDb, bases, grants>>
    BY <1>1 DEF AlterAccount
  <2>1. DbNumbers'
    BY <1>a, <1>1, <2>a, DbCounting DEF AlterAccount
  <2>2. accounts' = [accounts EXCEPT ![row.user] = row.password] \/ accounts' = accounts
    BY <1>1 DEF AlterAccount
  <2>3. cutShort' \subseteq DbIds /\ UNCHANGED <<leftUsers, taken>>
    BY <1>a, <1>1 DEF AlterAccount, DbTyped, ghosts
  <2>4. DbTyped'
    BY <1>a, <2>a, <2>2, <2>3 DEF DbTyped
  <2>5. DbFinish(r) \/ \E pc \in {"flush", "save"} : DbGoTo(r, pc)
    BY <1>1 DEF AlterAccount
  <2>6. CASE DbFinish(r)
    BY <2>a, <2>1, <2>4, <2>6, DbRests
  <2>7. ASSUME NEW pc \in {"flush", "save"}, DbGoTo(r, pc) PROVE DbAnyhow'
    BY <1>b, <2>a, <2>1, <2>4, <2>7, DbGoes
  <2> QED BY <2>5, <2>6, <2>7
<1>2. CASE FlushPrivileges(r)
  <2>1. CASE DbGoTo(r, "save") /\ DbWorks /\ UNCHANGED ghosts
    <3>1. DbTyped' /\ DbNumbers' /\ UNCHANGED access
      BY <1>a, <1>2, <2>1 DEF FlushPrivileges, DbTyped, DbNumbers, DbWorks, server, ghosts
    <3> QED BY <1>b, <2>1, <3>1, DbGoes
  <2> QED BY <1>2, <1>f, <2>1 DEF FlushPrivileges, server
<1>3. CASE SaveConnection(r)
  <2>1. CASE /\ connections' = [connections EXCEPT ![dbReq[r].id] = row]
             /\ DbFinish(r) /\ DbWorks /\ UNCHANGED ghosts
    <3>1. DbTyped' /\ DbNumbers' /\ UNCHANGED access
      BY <1>a, <1>3, <2>1 DEF SaveConnection, DbTyped, DbNumbers, DbWorks, server, ghosts
    <3> QED BY <2>1, <3>1, DbRests
  <2> QED BY <1>3, <1>f, <2>1 DEF SaveConnection, server
<1> QED BY <1>1, <1>2, <1>3

LEMMA DbStaysTyped == DbAnyhow /\ [DbNext]_dbVars => DbAnyhow'
<1> SUFFICES ASSUME DbAnyhow, [DbNext]_dbVars PROVE DbAnyhow'
  OBVIOUS
<1>1. CASE UNCHANGED dbVars
  BY <1>1 DEF dbVars, DbAnyhow, DatabasesTypeOK, DbHands, DbHeld
<1>2. CASE DbCrash
  <2>1. dbReq' \in [DbRequests -> DbRequestStates] /\ \A r \in DbRequests : dbReq'[r] = NoDbReq
    BY <1>2, NoDbRequest DEF DbCrash
  <2>2. \A r \in DbRequests : dbReq[r].row # NoDb => dbReq[r].row.user \in DbUsers
    BY DbRowParts DEF DbAnyhow, DatabasesTypeOK, DbRequestStates
  <2>3. \A r \in DbRequests : dbReq[r].id \in DbIds \cup {NoDb}
    BY DEF DbAnyhow, DatabasesTypeOK, DbRequestStates
  <2>4. cutShort' \subseteq DbIds /\ leftUsers' \subseteq DbUsers
    BY <1>2, <2>2, <2>3 DEF DbCrash, DbAnyhow, DatabasesTypeOK
  <2>5. dbFailures' \in 0..MaxDbFailures
    BY <1>2, DatabasesAssumption DEF DbCrash, DbFault, DbAnyhow, DatabasesTypeOK
  <2>6. DbHands'
    BY <2>1, NoDbRequest DEF DbHands, DbHeld, Making
  <2> QED BY <1>2, <2>1, <2>4, <2>5, <2>6 DEF DbCrash, server, DbAnyhow, DatabasesTypeOK
<1> QED
  BY <1>1, <1>2, DbStartsTyped, DbMakesTyped, DbDropsTyped, DbAltersTyped DEF DbNext, DbStep,
     NotListed

\* The types of the table, the server and the requests, whether these take turns or not: in
\* particular a right is that of an account there is and, on PostgreSQL, to a database there is
\* (provisionMariaDB, provisionPostgres and the two drops).
THEOREM DatabasesTypes == DbSpec => []DatabasesTypeOK
<1>1. DbInit => DbAnyhow
  <2> SUFFICES ASSUME DbInit PROVE DbAnyhow
    OBVIOUS
  <2>1. \A r \in DbRequests : dbReq[r] = NoDbReq
    BY DEF DbInit
  <2>2. DbHands
    BY <2>1, NoDbRequest DEF DbHands, DbHeld, Making
  <2> QED BY <2>2, DatabasesInitially DEF DbInv, DbAnyhow
<1>2. DbAnyhow => DatabasesTypeOK
  BY DEF DbAnyhow
<1> QED BY <1>1, <1>2, DbStaysTyped, PTL DEF DbSpec

\* When the panel's requests take turns, a password it shows opens the database it shows
\* unless something failed on that row or its user or the database has another owner, and
\* every account and right on the server is that of a row, a request or a failure
\* (CreateDatabase, DeleteDatabase, UpdateDatabasePassword).
THEOREM DatabasesKeptInTurns == ASSUME ~DbOverlapping PROVE DbSpec => []DatabasesKept
BY DatabasesAgree, DatabasesInitially, DatabasesKeep, PTL DEF DbSpec
=============================================================================

--------------------------- MODULE PlatformsProofs ---------------------------
(***************************************************************************)
(* Proofs about Platforms, for every value of its constants: the types for *)
(* any interleaving, and, when operators take turns, that domains, virtual *)
(* hosts and accounts belong to one platform or user, that a change of a   *)
(* sound platform succeeds, and that a deletion is complete.               *)
(***************************************************************************)
EXTENDS Platforms, TLAPS

Naming == {"name", "account", "saveUser", "undoAccount"}
Early  == Naming \cup {"domains", "insert"}
OnRow  == {"store", "home", "saveOwner", "share", "vhost", "scoped", "scopedRow",
           "removeTree", "deleteRow"}
Placed == OnRow \cup {"fetch", "load", "dropRow", "dropTree"}
OnName == {"userdel", "userRow", "scopedRow", "chpasswd", "relock", "setLock", "stamp"}
OnUser == OnName \cup {"findUser"}

\* What a handler holds when it comes to a step.
HoldsForm(step, q) ==
  /\ step \in Naming => q.name \in Usernames /\ q.home \in Domains /\ q.op \in {"create",
    "addUser"}
  /\ step = "domains" => q.op \in {"create", "addDomain"}
  /\ step = "insert" => q.op = "create"
  /\ step \in Early => q.owner = None
  /\ q.op = "create" => q.home \in Domains
  /\ q.op \in {"addUser", "deleteUser", "addDomain", "toggle", "delete"} => q.site \in Ids
HoldsRow(step, q) ==
  /\ step \in Placed => q.site \in Ids /\ q.op \notin {"reset", "setActive"}
  /\ step \in OnRow \/ (step = "load" /\ q.op \in {"create", "addDomain"}) => q.row \in Site
  /\ q.owner # None /\ q.op \notin {"reset", "setActive"} =>
       q.row \in Site /\ q.row.user \in UserIds
HoldsUser(step, q) ==
  /\ step \in OnUser \/ q.made => q.uid \in UserIds
  /\ step \in OnName => q.name \in Usernames
  /\ step \in {"chpasswd", "relock", "setLock", "stamp", "saveOwner"} => q.owner \in User
Holds(step, q) == HoldsForm(step, q) /\ HoldsRow(step, q) /\ HoldsUser(step, q)
ReqOK(q) == q \in RequestStates /\ Holds(q.pc, q)

TablesOK ==
  /\ sites \in [Ids -> Site \cup {None}]
  /\ users \in [UserIds -> User \cup {None}]
  /\ accounts \in [Usernames -> Account \cup {None}]
  /\ trees \subseteq Domains
  /\ vhosts \in [Names -> SUBSET Domains]
  /\ nextSite \in 1..(MaxSites + 1) /\ nextUser \in 1..(MaxUsers + 1)
  /\ faults \in 0..MaxFaults /\ crashes \in 0..MaxCrashes
  /\ scarred \subseteq Usernames /\ behind \subseteq Ids
ReqsOK == req \in [Requests -> RequestStates] /\ \A r \in Requests : ReqOK(req[r])
TypeInv == TablesOK /\ ReqsOK

\* The value that stands for nothing is none of the others.
LEMMA NoneFacts ==
  /\ None \notin Ids /\ None \notin UserIds /\ None \notin Usernames /\ None \notin Domains
  /\ None \notin Site /\ None \notin User /\ None \notin Account
  /\ 0 \notin Ids
BY PlatformsAssumption DEF Ids, UserIds, Site, User, Account

\* Every domain has a name of its file.
LEMMA NameFacts == \A d \in Domains : NameOf[d] \in Names
BY DEF Names

\* A request at rest holds nothing.
LEMMA RestOK ==
  ASSUME NEW result \in Resting
  PROVE  ReqOK([NoReq EXCEPT !.pc = result])
<1> DEFINE q == [NoReq EXCEPT !.pc = result]
<1>1. q \in RequestStates
  BY DEF RequestStates, NoReq, Resting, Phases, Ops
<1>2. /\ q.pc = result /\ q.op = "none" /\ q.made = FALSE /\ q.owner = None
  BY DEF NoReq
<1> HIDE DEF q
<1>3. Holds(q.pc, q)
  BY <1>2 DEF Resting, Holds, HoldsForm, HoldsRow, HoldsUser, Naming, Early, OnRow, Placed,
    OnName, OnUser
<1> QED BY <1>1, <1>3 DEF ReqOK, q

LEMMA NoReqOK == ReqOK(NoReq)
<1>1. NoReq \in RequestStates
  BY DEF RequestStates, NoReq, Phases, Resting, Ops
<1>2. NoReq.pc = "idle" /\ NoReq.op = "none" /\ NoReq.made = FALSE /\ NoReq.owner = None
  BY DEF NoReq
<1>3. Holds(NoReq.pc, NoReq)
  BY <1>2 DEF Holds, HoldsForm, HoldsRow, HoldsUser, Naming, Early, OnRow, Placed, OnName, OnUser
<1> QED BY <1>1, <1>3 DEF ReqOK

\* The count of faults stays within its bound.
LEMMA FaultType ==
  ASSUME TablesOK, Fault \/ NoFault
  PROVE  faults' \in 0..MaxFaults
BY PlatformsAssumption DEF TablesOK, Fault, NoFault

\* A step that changes one request leaves the others alone.
LEMMA OneRequest ==
  ASSUME ReqsOK, NEW r \in Requests, NEW new, req' = [req EXCEPT ![r] = new], ReqOK(new)
  PROVE  /\ ReqsOK'
         /\ req'[r] = new /\ \A q \in Requests \ {r} : req'[q] = req[q]
<1>1. /\ req' \in [Requests -> RequestStates]
      /\ req'[r] = new /\ \A q \in Requests \ {r} : req'[q] = req[q]
  BY DEF ReqsOK, ReqOK
<1>2. \A q \in Requests : ReqOK(req'[q])
  BY <1>1 DEF ReqsOK
<1> QED BY <1>1, <1>2 DEF ReqsOK, ReqOK, Holds, HoldsForm, HoldsRow, HoldsUser

\* A handler that goes on to a step whose needs it holds, and one that returns.
LEMMA GotoOK ==
  ASSUME TypeInv, NEW r \in Requests, NEW step \in Phases, Holds(step, req[r]), Goto(r, step)
  PROVE  ReqsOK'
<1> DEFINE new == [req[r] EXCEPT !.pc = step]
<1>1. req[r] \in RequestStates
  BY DEF TypeInv, ReqsOK
<1>2. new \in RequestStates
  BY <1>1 DEF RequestStates
<1>3. /\ new.pc = step /\ new.op = req[r].op /\ new.site = req[r].site
      /\ new.uid = req[r].uid /\ new.name = req[r].name /\ new.home = req[r].home
      /\ new.made = req[r].made /\ new.row = req[r].row /\ new.owner = req[r].owner
  BY <1>1 DEF RequestStates
<1>4. req' = [req EXCEPT ![r] = new]
  BY DEF Goto
<1> HIDE DEF new
<1>5. Holds(new.pc, new)
  BY <1>3 DEF Holds, HoldsForm, HoldsRow, HoldsUser
<1> QED BY <1>2, <1>4, <1>5, OneRequest DEF TypeInv, ReqOK

LEMMA FinishOK ==
  ASSUME TypeInv, NEW r \in Requests, NEW result \in Resting, Finish(r, result)
  PROVE  ReqsOK'
BY RestOK, OneRequest DEF TypeInv, Finish

-----------------------------------------------------------------------------
\* A creation begins with a user to be made.
LEMMA StartNamed ==
  ASSUME NEW d \in Domains, NEW n \in Usernames
  PROVE  ReqOK([NoReq EXCEPT !.pc = "name", !.op = "create", !.name = n,
                                !.home = d, !.domains = {d}])
<1> DEFINE q == [NoReq EXCEPT !.pc = "name", !.op = "create", !.name = n,
                                !.home = d, !.domains = {d}]
<1>1. q \in RequestStates
  BY DEF NoReq, RequestStates, Phases, Ops
<1>2. /\ q.pc = "name" /\ q.op = "create" /\ q.name = n /\ q.home = d
      /\ q.made = FALSE /\ q.owner = None
  BY DEF NoReq
<1> HIDE DEF q
<1>3. Holds(q.pc, q)
  BY <1>2, NoneFacts DEF Holds, HoldsForm, HoldsRow, HoldsUser, Naming, Early, OnRow,
        Placed, OnName, OnUser
<1> QED BY <1>1, <1>3 DEF ReqOK, q

\* A creation begins with a user the form names.
LEMMA StartOwned ==
  ASSUME NEW d \in Domains, NEW u \in UserIds
  PROVE  ReqOK([NoReq EXCEPT !.pc = "domains", !.op = "create", !.uid = u,
                                !.home = d, !.domains = {d}])
<1> DEFINE q == [NoReq EXCEPT !.pc = "domains", !.op = "create", !.uid = u,
                                !.home = d, !.domains = {d}]
<1>1. q \in RequestStates
  BY DEF NoReq, RequestStates, Phases, Ops
<1>2. /\ q.pc = "domains" /\ q.op = "create" /\ q.uid = u /\ q.home = d
      /\ q.made = FALSE /\ q.owner = None
  BY DEF NoReq
<1> HIDE DEF q
<1>3. Holds(q.pc, q)
  BY <1>2, NoneFacts DEF Holds, HoldsForm, HoldsRow, HoldsUser, Naming, Early, OnRow,
        Placed, OnName, OnUser
<1> QED BY <1>1, <1>3 DEF ReqOK, q

\* The making of a further user begins.
LEMMA StartAddUser ==
  ASSUME NEW i \in Ids, NEW n \in Usernames, NEW d \in Domains
  PROVE  ReqOK([NoReq EXCEPT !.pc = "name", !.op = "addUser", !.site = i, !.name = n,
                                !.home = d])
<1> DEFINE q == [NoReq EXCEPT !.pc = "name", !.op = "addUser", !.site = i, !.name = n,
                                !.home = d]
<1>1. q \in RequestStates
  BY DEF NoReq, RequestStates, Phases, Ops
<1>2. /\ q.pc = "name" /\ q.op = "addUser" /\ q.site = i /\ q.name = n /\ q.home = d
      /\ q.made = FALSE /\ q.owner = None
  BY DEF NoReq
<1> HIDE DEF q
<1>3. Holds(q.pc, q)
  BY <1>2, NoneFacts DEF Holds, HoldsForm, HoldsRow, HoldsUser, Naming, Early, OnRow,
        Placed, OnName, OnUser
<1> QED BY <1>1, <1>3 DEF ReqOK, q

\* The deletion of a user begins.
LEMMA StartDeleteUser ==
  ASSUME NEW i \in Ids, NEW u \in UserIds
  PROVE  ReqOK([NoReq EXCEPT !.pc = "findUser", !.op = "deleteUser", !.site = i, !.uid = u])
<1> DEFINE q == [NoReq EXCEPT !.pc = "findUser", !.op = "deleteUser", !.site = i, !.uid = u]
<1>1. q \in RequestStates
  BY DEF NoReq, RequestStates, Phases, Ops
<1>2. /\ q.pc = "findUser" /\ q.op = "deleteUser" /\ q.site = i /\ q.uid = u
      /\ q.made = FALSE /\ q.owner = None
  BY DEF NoReq
<1> HIDE DEF q
<1>3. Holds(q.pc, q)
  BY <1>2, NoneFacts DEF Holds, HoldsForm, HoldsRow, HoldsUser, Naming, Early, OnRow,
        Placed, OnName, OnUser
<1> QED BY <1>1, <1>3 DEF ReqOK, q

\* A new list of domains is to be saved.
LEMMA StartAddDomain ==
  ASSUME NEW i \in Ids, NEW ds \in SUBSET Domains
  PROVE  ReqOK([NoReq EXCEPT !.pc = "domains", !.op = "addDomain", !.site = i, !.domains = ds])
<1> DEFINE q == [NoReq EXCEPT !.pc = "domains", !.op = "addDomain", !.site = i, !.domains = ds]
<1>1. q \in RequestStates
  BY DEF NoReq, RequestStates, Phases, Ops
<1>2. /\ q.pc = "domains" /\ q.op = "addDomain" /\ q.site = i /\ q.made = FALSE /\ q.owner = None
  BY DEF NoReq
<1> HIDE DEF q
<1>3. Holds(q.pc, q)
  BY <1>2, NoneFacts DEF Holds, HoldsForm, HoldsRow, HoldsUser, Naming, Early, OnRow,
        Placed, OnName, OnUser
<1> QED BY <1>1, <1>3 DEF ReqOK, q

\* A platform's row is to be saved and served.
LEMMA StartToggle ==
  ASSUME NEW i \in Ids, NEW row \in Site, NEW o \in User \cup {None},
         o # None => row.user \in UserIds
  PROVE  ReqOK([NoReq EXCEPT !.pc = "store", !.op = "toggle", !.site = i,
                                !.domains = row.domains, !.row = row, !.owner = o])
<1> DEFINE q == [NoReq EXCEPT !.pc = "store", !.op = "toggle", !.site = i,
                                !.domains = row.domains, !.row = row, !.owner = o]
<1>1. q \in RequestStates
  BY DEF NoReq, RequestStates, Phases, Ops, Site
<1>2. /\ q.pc = "store" /\ q.op = "toggle" /\ q.site = i /\ q.row = row /\ q.owner = o
      /\ q.made = FALSE
  BY DEF NoReq
<1> HIDE DEF q
<1>3. Holds(q.pc, q)
  BY <1>2, NoneFacts DEF Holds, HoldsForm, HoldsRow, HoldsUser, Naming, Early, OnRow,
        Placed, OnName, OnUser
<1> QED BY <1>1, <1>3 DEF ReqOK, q

\* A platform is to be deleted, with its users.
LEMMA StartDelete ==
  ASSUME NEW i \in Ids, NEW row \in Site, NEW us \in SUBSET UserIds
  PROVE  ReqOK([NoReq EXCEPT !.pc = "scoped", !.op = "delete", !.site = i,
                                !.row = row, !.left = us])
<1> DEFINE q == [NoReq EXCEPT !.pc = "scoped", !.op = "delete", !.site = i,
                                !.row = row, !.left = us]
<1>1. q \in RequestStates
  BY DEF NoReq, RequestStates, Phases, Ops
<1>2. /\ q.pc = "scoped" /\ q.op = "delete" /\ q.site = i /\ q.row = row
      /\ q.made = FALSE /\ q.owner = None
  BY DEF NoReq
<1> HIDE DEF q
<1>3. Holds(q.pc, q)
  BY <1>2, NoneFacts DEF Holds, HoldsForm, HoldsRow, HoldsUser, Naming, Early, OnRow,
        Placed, OnName, OnUser
<1> QED BY <1>1, <1>3 DEF ReqOK, q

\* A user's password or its state is to change.
LEMMA StartUserChange ==
  ASSUME NEW u \in UserIds, NEW n \in Usernames, NEW o \in User,
         NEW step \in {"chpasswd", "setLock"}, NEW op \in {"reset", "setActive"}
  PROVE  ReqOK([NoReq EXCEPT !.pc = step, !.op = op, !.uid = u, !.name = n, !.owner = o])
<1> DEFINE q == [NoReq EXCEPT !.pc = step, !.op = op, !.uid = u, !.name = n, !.owner = o]
<1>1. q \in RequestStates
  BY DEF NoReq, RequestStates, Phases, Ops
<1>2. /\ q.pc = step /\ q.op = op /\ q.uid = u /\ q.name = n /\ q.owner = o
      /\ q.made = FALSE
  BY DEF NoReq
<1> HIDE DEF q
<1>3. Holds(q.pc, q)
  BY <1>2, NoneFacts DEF Holds, HoldsForm, HoldsRow, HoldsUser, Naming, Early, OnRow,
        Placed, OnName, OnUser
<1> QED BY <1>1, <1>3 DEF ReqOK, q

-----------------------------------------------------------------------------
\* The rows in the tables.
LEMMA RowFacts ==
  ASSUME TypeInv
  PROVE  /\ \A i \in Ids : sites[i] # None => sites[i] \in Site
         /\ \A u \in UserIds : users[u] # None => users[u] \in User
         /\ \A s \in Site : s.home \in Domains /\ s.domains \in SUBSET Domains
                            /\ s.user \in UserIds \cup {None}
         /\ \A u \in User : u.name \in Usernames /\ u.home \in Domains
         /\ \A s \in Site : /\ UserOf(s) \in User \cup {None}
                            /\ UserOf(s) # None => s.user \in UserIds
BY NoneFacts DEF TypeInv, TablesOK, Site, User, UserOf

\* A handler begins with a request that holds what its first step needs.
LEMMA BeginType ==
  ASSUME TypeInv, NEW r \in Requests, Begin(r)
  PROVE  TypeInv'
<1>1. ASSUME NEW new, Start(r, new), ReqOK(new)
      PROVE  TypeInv'
  <2>1. ReqsOK'
    BY <1>1, OneRequest DEF Start, TypeInv
  <2>2. TablesOK'
    BY <1>1 DEF Start, TypeInv, TablesOK, keys, ghosts
  <2> QED BY <2>1, <2>2 DEF TypeInv
<1>2. CASE NotFound(r)
  BY <1>2, <1>1, RestOK DEF NotFound, Resting
<1>3. CASE BeginCreate(r)
  <2>1. CASE \E d \in Domains, n \in Usernames :
            Start(r, [NoReq EXCEPT !.pc = "name", !.op = "create", !.name = n,
                                   !.home = d, !.domains = {d}])
    BY <2>1, <1>1, StartNamed
  <2>2. CASE \E d \in Domains, u \in UserIds :
            Start(r, [NoReq EXCEPT !.pc = "domains", !.op = "create", !.uid = u,
                                   !.home = d, !.domains = {d}])
    BY <2>2, <1>1, StartOwned
  <2> QED BY <1>3, <2>1, <2>2 DEF BeginCreate
<1>4. CASE BeginAddUser(r)
  <2>1. PICK i \in Known, n \in Usernames :
          Start(r, [NoReq EXCEPT !.pc = "name", !.op = "addUser", !.site = i, !.name = n,
                                 !.home = sites[i].home])
    BY <1>4 DEF BeginAddUser
  <2>2. i \in Ids /\ sites[i].home \in Domains
    BY RowFacts DEF Known
  <2> QED BY <2>1, <2>2, <1>1, StartAddUser
<1>5. CASE BeginDeleteUser(r)
  <2>1. PICK i \in Ids, u \in UserIds :
          Start(r, [NoReq EXCEPT !.pc = "findUser", !.op = "deleteUser", !.site = i, !.uid = u])
    BY <1>5 DEF BeginDeleteUser, Known
  <2> QED BY <2>1, <1>1, StartDeleteUser
<1>6. CASE BeginAddDomain(r)
  <2>1. PICK i \in Known, d \in Domains :
          Start(r, [NoReq EXCEPT !.pc = "domains", !.op = "addDomain", !.site = i,
                                 !.domains = sites[i].domains \cup {d}])
    BY <1>6 DEF BeginAddDomain
  <2>2. i \in Ids /\ sites[i].domains \cup {d} \in SUBSET Domains
    BY RowFacts DEF Known
  <2> QED BY <2>1, <2>2, <1>1, StartAddDomain
<1>7. CASE BeginToggle(r)
  <2>1. PICK i \in Known :
          Start(r, [NoReq EXCEPT !.pc = "store", !.op = "toggle", !.site = i,
                                 !.domains = sites[i].domains, !.row = sites[i],
                                 !.owner = UserOf(sites[i])])
    BY <1>7 DEF BeginToggle
  <2>2. /\ i \in Ids /\ sites[i] \in Site /\ UserOf(sites[i]) \in User \cup {None}
        /\ UserOf(sites[i]) # None => sites[i].user \in UserIds
    BY RowFacts DEF Known
  <2> QED BY <2>1, <2>2, <1>1, StartToggle
<1>8. CASE BeginDelete(r)
  <2>1. PICK i \in Known :
          Start(r, [NoReq EXCEPT !.pc = "scoped", !.op = "delete", !.site = i,
                                 !.row = sites[i], !.left = ScopedUsers(i)])
    BY <1>8 DEF BeginDelete
  <2>2. i \in Ids /\ sites[i] \in Site /\ ScopedUsers(i) \in SUBSET UserIds
    BY RowFacts DEF Known, ScopedUsers
  <2> QED BY <2>1, <2>2, <1>1, StartDelete
<1>9. CASE BeginUserChange(r)
  <2>1. PICK u \in UserIds :
          /\ users[u] # None
          /\ \/ Start(r, [NoReq EXCEPT !.pc = "chpasswd", !.op = "reset", !.uid = u,
                                       !.name = users[u].name, !.owner = users[u]])
             \/ \E on \in BOOLEAN :
                  Start(r, [NoReq EXCEPT !.pc = "setLock", !.op = "setActive", !.uid = u,
                                         !.name = users[u].name,
                                         !.owner = [users[u] EXCEPT !.active = on]])
    BY <1>9 DEF BeginUserChange
  <2>2. /\ users[u].name \in Usernames /\ users[u] \in User
        /\ \A on \in BOOLEAN : [users[u] EXCEPT !.active = on] \in User
    BY <2>1, RowFacts DEF User
  <2>3. CASE Start(r, [NoReq EXCEPT !.pc = "chpasswd", !.op = "reset", !.uid = u,
                                    !.name = users[u].name, !.owner = users[u]])
    BY <2>2, <2>3, <1>1, StartUserChange
  <2>4. CASE \E on \in BOOLEAN :
               Start(r, [NoReq EXCEPT !.pc = "setLock", !.op = "setActive", !.uid = u,
                                      !.name = users[u].name,
                                      !.owner = [users[u] EXCEPT !.active = on]])
    BY <2>2, <2>4, <1>1, StartUserChange
  <2> QED BY <2>1, <2>3, <2>4
<1> QED BY <1>2, <1>3, <1>4, <1>5, <1>6, <1>7, <1>8, <1>9 DEF Begin

-----------------------------------------------------------------------------
\* What a handler holds in mid-course.
LEMMA InHand ==
  ASSUME TypeInv, NEW r \in Requests
  PROVE  /\ req[r] \in RequestStates /\ Holds(req[r].pc, req[r])
         /\ req[r].pc \in Phases /\ req[r].op \in Ops
         /\ req[r].site \in Ids \cup {None} /\ req[r].uid \in UserIds \cup {None}
         /\ req[r].name \in Usernames \cup {None} /\ req[r].home \in Domains \cup {None}
         /\ req[r].domains \in SUBSET Domains /\ req[r].made \in BOOLEAN
         /\ req[r].row \in Site \cup {None} /\ req[r].owner \in User \cup {None}
         /\ req[r].left \in SUBSET UserIds
<1>1. req[r] \in RequestStates /\ Holds(req[r].pc, req[r])
  BY DEF TypeInv, ReqsOK, ReqOK
<1> QED BY <1>1 DEF RequestStates

\* A refusal leads to the user made for the platform, or ends the handler.
LEMMA RefuseOK ==
  ASSUME TypeInv, NEW r \in Requests, Refuse(r)
  PROVE  ReqsOK'
<1>1. Holds("findUser", req[r]) \/ ~req[r].made
  BY InHand
  DEF Holds, HoldsForm, HoldsRow, HoldsUser, Naming, Early, OnRow, Placed, OnName, OnUser
<1> QED BY <1>1, GotoOK, FinishOK DEF Refuse, Phases, Resting

\* The platforms left behind their rows are platforms.
LEMMA GiveUpOK ==
  ASSUME TypeInv, NEW r \in Requests, GiveUp(r)
  PROVE  ReqsOK' /\ behind' \subseteq Ids
BY InHand, FinishOK DEF GiveUp, Resting, TypeInv, TablesOK
LEMMA AbandonOK ==
  ASSUME TypeInv, NEW r \in Requests, Abandon(r), req[r].pc \in Placed
  PROVE  ReqsOK' /\ behind' \subseteq Ids
<1>1. req[r].site \in Ids /\ Holds("dropRow", req[r])
  BY InHand
  DEF Holds, HoldsForm, HoldsRow, HoldsUser, Naming, Early, OnRow, Placed, OnName, OnUser
<1> QED BY <1>1, GotoOK, FinishOK DEF Abandon, Phases, Resting, TypeInv, TablesOK

\* What the host's commands and the repositories do to their tables.
LEMMA HostFacts ==
  ASSUME TypeInv, NEW n \in Usernames
  PROVE  /\ Userdel(n) => accounts' \in [Usernames -> Account \cup {None}] /\ trees' \subseteq Domains
         /\ \A on \in BOOLEAN : accounts[n] # None /\ Lock(n, on) =>
              accounts' \in [Usernames -> Account \cup {None}]
         /\ \A d \in Domains : accounts[n] # None =>
              [accounts EXCEPT ![n].home = d] \in [Usernames -> Account \cup {None}]
         /\ \A d \in Domains, on \in BOOLEAN :
              [accounts EXCEPT ![n] = [home |-> d, locked |-> on]]
                \in [Usernames -> Account \cup {None}]
BY DEF TypeInv, TablesOK, Userdel, Lock, Account
LEMMA DatabaseFacts ==
  ASSUME TypeInv, NEW u \in UserIds, WithoutUser(u)
  PROVE  /\ users' \in [UserIds -> User \cup {None}]
         /\ sites' \in [Ids -> Site \cup {None}]
<1>1. users' \in [UserIds -> User \cup {None}]
  BY DEF WithoutUser, TypeInv, TablesOK
<1>2. \A i \in Ids : sites[i] # None => [sites[i] EXCEPT !.user = None] \in Site
  BY RowFacts DEF Site
<1> QED BY <1>1, <1>2 DEF WithoutUser, TypeInv, TablesOK
LEMMA VhostFacts ==
  ASSUME TypeInv, NEW row \in Site
  PROVE  VhostsWith(row) \in [Names -> SUBSET Domains]
BY RowFacts DEF VhostsWith, TypeInv, TablesOK

-----------------------------------------------------------------------------
\* The creation of a site user.
LEMMA CreateUserType ==
  ASSUME TypeInv, NEW r \in Requests,
         CheckName(r) \/ MakeAccount(r) \/ SaveUser(r) \/ UndoAccount(r)
  PROVE  TypeInv'
<1> USE NoneFacts
<1>0. req[r].pc \in Naming => req[r].name \in Usernames /\ req[r].home \in Domains
  BY InHand DEF Holds, HoldsForm
<1>1. CASE CheckName(r)
  <2>1. TablesOK'
    BY <1>1, FaultType DEF TypeInv, TablesOK, CheckName, keys, ghosts
  <2>2. Holds("account", req[r])
    BY <1>1, InHand DEF CheckName, Holds, HoldsForm, HoldsRow, HoldsUser, Naming, Early, OnRow,
      Placed, OnName, OnUser
  <2> QED BY <1>1, <2>1, <2>2, GotoOK, FinishOK DEF TypeInv, CheckName, Phases, Resting
<1>2. CASE MakeAccount(r)
  <2>0. req[r].name \in Usernames /\ req[r].home \in Domains
    BY <1>0, <1>2 DEF MakeAccount, Naming
  <2>1. accounts' \in [Usernames -> Account \cup {None}]
    <3> DEFINE n == req[r].name
               was == accounts[n]
               New(on) == [home |-> req[r].home, locked |-> on]
    <3>1. \A on \in BOOLEAN : [accounts EXCEPT ![n] = New(on)] \in [Usernames -> Account \cup {None}]
      BY <2>0, HostFacts
    <3>2. [accounts EXCEPT ![n] = was] \in [Usernames -> Account \cup {None}]
      BY <2>0 DEF TypeInv, TablesOK
    <3>3. (was = None \/ was.locked) \in BOOLEAN
      BY <2>0 DEF TypeInv, TablesOK, Account
    <3>4. \/ accounts' = [accounts EXCEPT ![n] = New(FALSE)]
          \/ \E a \in {was, New(was = None \/ was.locked), New(FALSE)} :
               accounts' = [accounts EXCEPT ![n] = a]
      BY <1>2 DEF MakeAccount
    <3> HIDE DEF n, was, New
    <3> QED BY <3>1, <3>2, <3>3, <3>4
  <2>2. TablesOK'
    BY <1>2, <2>0, <2>1, FaultType DEF TypeInv, TablesOK, MakeAccount, keys
  <2>3. Holds("saveUser", req[r])
    BY <1>2, InHand DEF MakeAccount, Holds, HoldsForm, HoldsRow, HoldsUser, Naming, Early, OnRow,
      Placed, OnName, OnUser
  <2> QED BY <1>2, <2>2, <2>3, GotoOK, FinishOK DEF TypeInv, MakeAccount, Phases, Resting
<1>3. CASE SaveUser(r)
  <2>0. req[r].name \in Usernames /\ req[r].home \in Domains
    BY <1>0, <1>3 DEF SaveUser, Naming
  <2>1. CASE nextUser \in UserIds /\ NoFault
          /\ users' = [users EXCEPT ![nextUser] =
                       [name |-> req[r].name, home |-> req[r].home,
                        site |-> req[r].site, active |-> TRUE]]
          /\ nextUser' = nextUser + 1
          /\ req' = [req EXCEPT ![r].pc = IF req[r].op = "create" THEN "domains" ELSE "load",
                                ![r].uid = nextUser, ![r].made = TRUE]
    <3>1. users' \in [UserIds -> User \cup {None}]
      BY <2>0, <2>1, InHand DEF TypeInv, TablesOK, User
    <3>2. TablesOK'
      BY <1>3, <2>1, <3>1, FaultType, PlatformsAssumption
      DEF TypeInv, TablesOK, SaveUser, ghosts, UserIds
    <3> DEFINE step == IF req[r].op = "create" THEN "domains" ELSE "load"
               new == [req[r] EXCEPT !.pc = step, !.uid = nextUser, !.made = TRUE]
    <3>0. step \in Phases /\ req[r] \in RequestStates /\ nextUser \in UserIds
      BY <2>1, InHand DEF Phases
    <3> HIDE DEF step
    <3>3. new \in RequestStates
      BY <3>0 DEF RequestStates
    <3>4. /\ new.pc = step /\ new.op = req[r].op /\ new.site = req[r].site
          /\ new.uid = nextUser /\ new.name = req[r].name /\ new.home = req[r].home
          /\ new.made /\ new.row = req[r].row /\ new.owner = req[r].owner
      BY InHand DEF RequestStates
    <3>5. req' = [req EXCEPT ![r] = new]
      BY <2>1 DEF TypeInv, ReqsOK, step
    <3>6. Holds(req[r].pc, req[r]) /\ req[r].pc = "saveUser"
      BY <1>3, InHand DEF SaveUser
    <3> HIDE DEF new
    <3>7. Holds(new.pc, new)
      BY <2>1, <3>4, <3>6 DEF step, Holds, HoldsForm, HoldsRow, HoldsUser, Naming, Early, OnRow,
        Placed, OnName, OnUser
    <3> QED BY <3>2, <3>3, <3>5, <3>7, OneRequest DEF TypeInv, ReqOK
  <2>2. CASE Unsaved(r) /\ (NoFault \/ Fault) /\ UNCHANGED <<users, nextUser>>
    <3>1. TablesOK'
      BY <1>3, <2>2, FaultType DEF TypeInv, TablesOK, SaveUser, ghosts
    <3>2. Holds("undoAccount", req[r])
      BY <1>3, InHand DEF SaveUser, Holds, HoldsForm, HoldsRow, HoldsUser, Naming, Early, OnRow,
        Placed, OnName, OnUser
    <3> QED BY <2>2, <3>1, <3>2, GotoOK DEF TypeInv, Unsaved, Phases
  <2> QED BY <1>3, <2>1, <2>2 DEF SaveUser
<1>4. CASE UndoAccount(r)
  <2>0. req[r].name \in Usernames
    BY <1>0, <1>4 DEF UndoAccount, Naming
  <2>1. accounts' \in [Usernames -> Account \cup {None}] /\ trees' \subseteq Domains
    BY <1>4, <2>0, HostFacts DEF UndoAccount, TypeInv, TablesOK
  <2>2. TablesOK'
    BY <1>4, <2>0, <2>1, FaultType DEF TypeInv, TablesOK, UndoAccount, keys
  <2> QED BY <1>4, <2>2, FinishOK DEF TypeInv, UndoAccount, Resting
<1> QED BY <1>1, <1>2, <1>3, <1>4

-----------------------------------------------------------------------------
\* The row of a platform: checked, inserted or read and saved, and read back.
LEMMA RowType ==
  ASSUME TypeInv, NEW r \in Requests,
         CheckDomains(r) \/ Insert(r) \/ Fetch(r) \/ Store(r) \/ Load(r)
  PROVE  TypeInv'
<1> USE NoneFacts
<1> DEFINE was == req[r]
<1>0. was \in RequestStates /\ Holds(was.pc, was)
  BY InHand
<1>1. CASE CheckDomains(r)
  <2>1. TablesOK'
    BY <1>1, FaultType DEF TypeInv, TablesOK, CheckDomains, keys, ghosts
  <2>2. Holds(IF was.op = "create" THEN "insert" ELSE "fetch", was)
    BY <1>1, <1>0 DEF CheckDomains, Holds, HoldsForm, HoldsRow, HoldsUser, Naming, Early, OnRow,
      Placed, OnName, OnUser
  <2> QED BY <1>1, <2>1, <2>2, GotoOK, RefuseOK DEF TypeInv, CheckDomains, Phases
<1>2. CASE Insert(r)
  <2>0. was.home \in Domains /\ was.op = "create"
    BY <1>2, <1>0 DEF Insert, Holds, HoldsForm
  <2>1. CASE Fault /\ Refuse(r) /\ UNCHANGED <<sites, nextSite>>
    <3>1. TablesOK'
      BY <1>2, <2>1, FaultType DEF TypeInv, TablesOK, Insert, ghosts
    <3> QED BY <2>1, <3>1, RefuseOK DEF TypeInv
  <2>2. CASE ~(Fault /\ Refuse(r) /\ UNCHANGED <<sites, nextSite>>)
    <3> DEFINE row == [home |-> was.home, domains |-> was.domains, user |-> was.uid]
               bare == [row EXCEPT !.domains = {}]
               new == [was EXCEPT !.pc = "load", !.site = nextSite, !.row = bare]
    <3>1. /\ nextSite \in Ids /\ NoFault /\ nextSite' = nextSite + 1
          /\ sites' = [sites EXCEPT ![nextSite] = row]
          /\ req' = [req EXCEPT ![r].pc = "load", ![r].site = nextSite, ![r].row = bare]
      BY <1>2, <2>2 DEF Insert
    <3>2. row \in Site /\ bare \in Site
      BY <2>0, InHand DEF Site
    <3>3. bare.user = was.uid
      OBVIOUS
    <3>4. req' = [req EXCEPT ![r] = new]
      BY <3>1 DEF TypeInv, ReqsOK
    <3> HIDE DEF row, bare
    <3>5. TablesOK'
      BY <1>2, <3>1, <3>2, FaultType, PlatformsAssumption
      DEF TypeInv, TablesOK, Insert, ghosts, Ids
    <3>6. new \in RequestStates
      BY <1>0, <3>1, <3>2 DEF RequestStates, Phases
    <3>7. /\ new.pc = "load" /\ new.op = was.op /\ new.site = nextSite
          /\ new.uid = was.uid /\ new.name = was.name /\ new.home = was.home
          /\ new.made = was.made /\ new.row = bare /\ new.owner = was.owner
      BY <1>0 DEF RequestStates
    <3>8. was.pc = "insert"
      BY <1>2 DEF Insert
    <3> HIDE DEF new, was
    <3>9. Holds(new.pc, new)
      BY <1>0, <2>0, <3>1, <3>2, <3>7, <3>8 DEF Holds, HoldsForm, HoldsRow, HoldsUser, Naming,
        Early, OnRow, Placed, OnName, OnUser
    <3> QED BY <3>4, <3>5, <3>6, <3>9, OneRequest DEF TypeInv, ReqOK, was
  <2> QED BY <2>1, <2>2
<1>3. CASE Fetch(r)
  <2>0. was.site \in Ids /\ was.pc = "fetch"
    BY <1>3, <1>0 DEF Fetch, Holds, HoldsRow, Placed
  <2> DEFINE row == sites[was.site]
             new == [was EXCEPT !.pc = "store", !.row = row, !.owner = UserOf(row)]
  <2>1. CASE GiveUp(r)
    <3>1. TablesOK'
      BY <1>3, <2>1, GiveUpOK, FaultType DEF TypeInv, TablesOK, Fetch, keys
    <3> QED BY <2>1, <3>1, GiveUpOK DEF TypeInv
  <2>2. CASE ~GiveUp(r)
    <3>1. /\ row # None /\ NoFault /\ UNCHANGED behind
          /\ req' = [req EXCEPT ![r].pc = "store", ![r].row = row, ![r].owner = UserOf(row)]
      BY <1>3, <2>2 DEF Fetch
    <3>2. /\ row \in Site /\ UserOf(row) \in User \cup {None}
          /\ UserOf(row) # None => row.user \in UserIds
      BY <2>0, <3>1, RowFacts
    <3>3. TablesOK'
      BY <1>3, <3>1, FaultType DEF TypeInv, TablesOK, Fetch, keys
    <3>4. req' = [req EXCEPT ![r] = new]
      BY <3>1 DEF TypeInv, ReqsOK
    <3> HIDE DEF row
    <3>5. new \in RequestStates
      BY <1>0, <3>2 DEF RequestStates, Phases
    <3>6. /\ new.pc = "store" /\ new.op = was.op /\ new.site = was.site
          /\ new.uid = was.uid /\ new.name = was.name /\ new.home = was.home
          /\ new.made = was.made /\ new.row = row /\ new.owner = UserOf(row)
      BY <1>0 DEF RequestStates
    <3> HIDE DEF new, was
    <3>7. Holds(new.pc, new)
      BY <1>0, <2>0, <3>2, <3>6 DEF Holds, HoldsForm, HoldsRow, HoldsUser, Naming,
        Early, OnRow, Placed, OnName, OnUser
    <3> QED BY <3>3, <3>4, <3>5, <3>7, OneRequest DEF TypeInv, ReqOK, was
  <2> QED BY <2>1, <2>2
<1>4. CASE Store(r)
  <2>0. /\ was.site \in Ids /\ was.row \in Site /\ was.domains \in SUBSET Domains
        /\ was.owner # None => was.owner \in User /\ was.row.user \in UserIds
    BY <1>4, <1>0, InHand DEF Store, Holds, HoldsRow, Placed, OnRow
  <2>1. CASE GiveUp(r) /\ UNCHANGED <<sites, users>>
    <3>1. TablesOK'
      BY <1>4, <2>1, GiveUpOK, FaultType DEF TypeInv, TablesOK, Store, keys
    <3> QED BY <2>1, <3>1, GiveUpOK DEF TypeInv
  <2>2. CASE ~(GiveUp(r) /\ UNCHANGED <<sites, users>>)
    <3> DEFINE step == IF was.op = "toggle" THEN "vhost" ELSE "load"
               kept == [was.row EXCEPT !.domains = was.domains]
    <3>1. /\ NoFault /\ behind' = behind \ {was.site}
          /\ sites' = [sites EXCEPT ![was.site] = kept]
          /\ users' = IF was.owner = None THEN users
                      ELSE [users EXCEPT ![was.row.user] = IF @ = None THEN was.owner ELSE @]
          /\ Goto(r, step)
      BY <1>4, <2>2 DEF Store, Goto
    <3>2. kept \in Site
      BY <2>0 DEF Site
    <3> HIDE DEF kept
    <3>3. users' \in [UserIds -> User \cup {None}]
      BY <2>0, <3>1 DEF TypeInv, TablesOK
    <3>4. TablesOK'
      BY <1>4, <2>0, <3>1, <3>2, <3>3, FaultType DEF TypeInv, TablesOK, Store, keys
    <3>5. Holds(step, was)
      BY <1>4, <1>0 DEF Store, Holds, HoldsForm, HoldsRow, HoldsUser, Naming, Early, OnRow,
        Placed, OnName, OnUser
    <3> QED BY <3>1, <3>4, <3>5, GotoOK DEF TypeInv, Phases
  <2> QED BY <2>1, <2>2
<1>5. CASE Load(r)
  <2>0. was.site \in Ids /\ was.pc = "load"
    BY <1>5, <1>0 DEF Load, Holds, HoldsRow, Placed
  <2> DEFINE row == sites[was.site]
             new == [was EXCEPT !.pc = "home", !.row = row, !.owner = UserOf(row)]
  <2>1. CASE /\ row # None /\ NoFault /\ behind' = behind \ {was.site}
             /\ req' = [req EXCEPT ![r].pc = "home", ![r].row = row, ![r].owner = UserOf(row)]
    <3>1. /\ row \in Site /\ UserOf(row) \in User \cup {None}
          /\ UserOf(row) # None => row.user \in UserIds
      BY <2>0, <2>1, RowFacts
    <3>2. TablesOK'
      BY <1>5, <2>1, FaultType DEF TypeInv, TablesOK, Load, keys
    <3>3. req' = [req EXCEPT ![r] = new]
      BY <2>1 DEF TypeInv, ReqsOK
    <3> HIDE DEF row
    <3>4. new \in RequestStates
      BY <1>0, <3>1 DEF RequestStates, Phases
    <3>5. /\ new.pc = "home" /\ new.op = was.op /\ new.site = was.site
          /\ new.uid = was.uid /\ new.name = was.name /\ new.home = was.home
          /\ new.made = was.made /\ new.row = row /\ new.owner = UserOf(row)
      BY <1>0 DEF RequestStates
    <3> HIDE DEF new, was
    <3>6. Holds(new.pc, new)
      BY <1>0, <2>0, <3>1, <3>5 DEF Holds, HoldsForm, HoldsRow, HoldsUser, Naming,
        Early, OnRow, Placed, OnName, OnUser
    <3> QED BY <3>2, <3>3, <3>4, <3>6, OneRequest DEF TypeInv, ReqOK, was
  <2>2. CASE /\ NoFault \/ Fault
             /\ behind' \in {behind, behind \cup {was.site}}
             /\ IF was.op \in {"create", "addDomain"} THEN Goto(r, "home") ELSE Finish(r, "ok")
    <3>1. TablesOK'
      BY <1>5, <2>0, <2>2, FaultType DEF TypeInv, TablesOK, Load, keys
    <3>2. was.op \in {"create", "addDomain"} => Holds("home", was)
      BY <1>0, <2>0 DEF Holds, HoldsForm, HoldsRow, HoldsUser, Naming, Early, OnRow,
        Placed, OnName, OnUser
    <3> QED BY <2>2, <3>1, <3>2, GotoOK, FinishOK DEF TypeInv, Phases, Resting
  <2> QED BY <1>5, <2>1, <2>2 DEF Load, NoFault
<1> QED BY <1>1, <1>2, <1>3, <1>4, <1>5

-----------------------------------------------------------------------------
\* What the host is given of a platform, and what a failed creation takes back.
LEMMA ServeType ==
  ASSUME TypeInv, NEW r \in Requests,
         \/ Home(r) \/ SaveOwner(r) \/ Share(r)
         \/ Vhost(r) \/ DropRow(r) \/ DropTree(r)
  PROVE  TypeInv'
<1> USE NoneFacts
<1> DEFINE was == req[r]
<1>0. was \in RequestStates /\ Holds(was.pc, was)
  BY InHand
<1>1. CASE Home(r)
  <2> DEFINE o    == was.owner
             home == was.row.home
             moves == o # None /\ o.home # home
  <2>0. /\ was.pc = "home" /\ was.row \in Site /\ home \in Domains /\ was.pc \in Placed
        /\ o # None => o \in User /\ o.name \in Usernames
    BY <1>1, <1>0, InHand, RowFacts DEF Home, Holds, HoldsRow, Placed, OnRow
  <2>1. CASE ~moves /\ NoFault /\ Goto(r, "share") /\ trees' = trees \cup {home}
             /\ UNCHANGED <<accounts, ghosts>>
    <3>1. TablesOK'
      BY <1>1, <2>0, <2>1, FaultType DEF TypeInv, TablesOK, Home, keys, ghosts
    <3>2. Holds("share", was)
      BY <1>0, <2>0 DEF Holds, HoldsForm, HoldsRow, HoldsUser, Naming, Early, OnRow,
        Placed, OnName, OnUser
    <3> QED BY <2>1, <3>1, <3>2, GotoOK DEF TypeInv, Phases
  <2>2. CASE /\ moves /\ accounts[o.name] # None /\ NoFault
             /\ accounts' = [accounts EXCEPT ![o.name].home = home]
             /\ req' = [req EXCEPT ![r].pc = "saveOwner", ![r].owner.home = home]
             /\ trees' = trees \cup {home} /\ UNCHANGED ghosts
    <3> DEFINE moved == [o EXCEPT !.home = home]
               new   == [was EXCEPT !.pc = "saveOwner", !.owner = moved]
    <3>1. TablesOK'
      BY <1>1, <2>0, <2>2, FaultType, HostFacts DEF TypeInv, TablesOK, Home, keys, ghosts
    <3>2. moved \in User
      BY <2>0, <2>2 DEF User
    <3>3. req' = [req EXCEPT ![r] = new]
      BY <2>2 DEF TypeInv, ReqsOK
    <3> HIDE DEF moved
    <3>4. new \in RequestStates
      BY <1>0, <3>2 DEF RequestStates, Phases
    <3>5. /\ new.pc = "saveOwner" /\ new.op = was.op /\ new.site = was.site
          /\ new.uid = was.uid /\ new.name = was.name /\ new.home = was.home
          /\ new.made = was.made /\ new.row = was.row /\ new.owner = moved
      BY <1>0 DEF RequestStates
    <3>6. o # None
      BY <2>2
    <3> HIDE DEF new
    <3>7. Holds(new.pc, new)
      BY <1>0, <2>0, <3>2, <3>5, <3>6 DEF Holds, HoldsForm, HoldsRow, HoldsUser, Naming,
        Early, OnRow, Placed, OnName, OnUser
    <3> QED BY <3>1, <3>3, <3>4, <3>7, OneRequest DEF TypeInv, ReqOK
  <2>3. CASE /\ Abandon(r) /\ (NoFault \/ Fault)
             /\ trees' \in {trees, trees \cup {home}}
             /\ \/ UNCHANGED accounts
                \/ /\ moves /\ accounts[o.name] # None
                   /\ accounts' = [accounts EXCEPT ![o.name].home = home]
             /\ UNCHANGED scarred
    <3>1. accounts' \in [Usernames -> Account \cup {None}]
      BY <2>0, <2>3, HostFacts DEF TypeInv, TablesOK
    <3>2. Abandon(r) /\ (NoFault \/ Fault)
      BY <2>3
    <3> HIDE DEF home, moves
    <3>3. TablesOK'
      BY <1>1, <2>0, <2>3, <3>1, <3>2, FaultType, AbandonOK DEF TypeInv, TablesOK, Home, keys
    <3> QED BY <2>0, <3>2, <3>3, AbandonOK DEF TypeInv
  <2> QED BY <1>1, <2>1, <2>2, <2>3 DEF Home
<1>2. CASE SaveOwner(r)
  <2>0. /\ was.row.user \in UserIds /\ was.owner \in User /\ was.owner.name \in Usernames
        /\ was.pc = "saveOwner" /\ was.pc \in Placed
    BY <1>2, <1>0, RowFacts DEF SaveOwner, Holds, HoldsUser, HoldsRow, Placed, OnRow
  <2>1. CASE users' = [users EXCEPT ![was.row.user] = was.owner] /\ NoFault
             /\ Goto(r, "share") /\ UNCHANGED ghosts
    <3>1. TablesOK'
      BY <1>2, <2>0, <2>1, FaultType DEF TypeInv, TablesOK, SaveOwner, keys, ghosts
    <3>2. Holds("share", was)
      BY <1>0, <2>0 DEF Holds, HoldsForm, HoldsRow, HoldsUser, Naming, Early, OnRow,
        Placed, OnName, OnUser
    <3> QED BY <2>1, <3>1, <3>2, GotoOK DEF TypeInv, Phases
  <2>2. CASE Fault /\ Abandon(r) /\ UNCHANGED users
             /\ scarred' = scarred \cup {was.owner.name}
    <3>1. TablesOK'
      BY <1>2, <2>0, <2>2, FaultType, AbandonOK DEF TypeInv, TablesOK, SaveOwner, keys
    <3> QED BY <2>0, <2>2, <3>1, AbandonOK DEF TypeInv
  <2> QED BY <1>2, <2>1, <2>2 DEF SaveOwner
<1>3. CASE Share(r)
  <2>0. was.pc = "share" /\ was.row.home \in Domains /\ was.pc \in Placed
    BY <1>3, <1>0, RowFacts DEF Share, Holds, HoldsRow, Placed, OnRow
  <2>1. trees' \subseteq Domains /\ (Abandon(r) \/ (Goto(r, "vhost") /\ UNCHANGED behind))
        /\ (NoFault \/ Fault)
    BY <1>3, <2>0 DEF Share, TypeInv, TablesOK
  <2>2. TablesOK'
    BY <1>3, <2>0, <2>1, FaultType, AbandonOK DEF TypeInv, TablesOK, Share, keys
  <2>3. Holds("vhost", was)
    BY <1>0, <2>0 DEF Holds, HoldsForm, HoldsRow, HoldsUser, Naming, Early, OnRow,
      Placed, OnName, OnUser
  <2> QED BY <2>0, <2>1, <2>2, <2>3, AbandonOK, GotoOK DEF TypeInv, Phases
<1>4. CASE Vhost(r)
  <2>0. was.pc = "vhost" /\ was.row \in Site /\ was.pc \in Placed
    BY <1>4, <1>0 DEF Vhost, Holds, HoldsRow, Placed, OnRow
  <2>1. TablesOK'
    BY <1>4, <2>0, FaultType, AbandonOK, VhostFacts DEF TypeInv, TablesOK, Vhost, keys
  <2> QED BY <1>4, <2>0, <2>1, AbandonOK, FinishOK DEF TypeInv, Vhost, Resting
<1>5. CASE DropRow(r)
  <2>0. was.pc = "dropRow" /\ was.site \in Ids
    BY <1>5, <1>0 DEF DropRow, Holds, HoldsRow, Placed
  <2>1. TablesOK'
    BY <1>5, <2>0, FaultType DEF TypeInv, TablesOK, DropRow, keys
  <2>2. Holds("dropTree", was)
    BY <1>0, <2>0 DEF Holds, HoldsForm, HoldsRow, HoldsUser, Naming, Early, OnRow,
      Placed, OnName, OnUser
  <2> QED BY <1>5, <2>1, <2>2, GotoOK DEF TypeInv, DropRow, Phases
<1>6. CASE DropTree(r)
  <2>1. TablesOK'
    BY <1>6, FaultType DEF TypeInv, TablesOK, DropTree, keys, ghosts
  <2> QED BY <1>6, <2>1, RefuseOK DEF TypeInv, DropTree
<1> QED BY <1>1, <1>2, <1>3, <1>4, <1>5, <1>6

-----------------------------------------------------------------------------
\* The deletion of a site user.
LEMMA DeleteUserType ==
  ASSUME TypeInv, NEW r \in Requests, FindUser(r) \/ DeleteAccount(r) \/ DeleteUserRow(r)
  PROVE  TypeInv'
<1> USE NoneFacts
<1> DEFINE was == req[r]
<1>0. was \in RequestStates /\ Holds(was.pc, was)
  BY InHand
<1>1. CASE FindUser(r)
  <2>0. was.pc = "findUser" /\ was.uid \in UserIds
    BY <1>1, <1>0 DEF FindUser, Holds, HoldsUser, OnUser
  <2>1. TablesOK'
    BY <1>1, FaultType DEF TypeInv, TablesOK, FindUser, keys, ghosts
  <2>2. CASE users[was.uid] # None
             /\ req' = [req EXCEPT ![r].pc = "userdel", ![r].name = users[was.uid].name]
    <3> DEFINE n == users[was.uid].name
               new == [was EXCEPT !.pc = "userdel", !.name = n]
    <3>1. n \in Usernames
      BY <2>0, <2>2, RowFacts
    <3>2. req' = [req EXCEPT ![r] = new]
      BY <2>2 DEF TypeInv, ReqsOK
    <3> HIDE DEF n
    <3>3. new \in RequestStates
      BY <1>0, <3>1 DEF RequestStates, Phases
    <3>4. /\ new.pc = "userdel" /\ new.op = was.op /\ new.site = was.site
          /\ new.uid = was.uid /\ new.name = n /\ new.home = was.home
          /\ new.made = was.made /\ new.row = was.row /\ new.owner = was.owner
      BY <1>0 DEF RequestStates
    <3> HIDE DEF new, was
    <3>5. Holds(new.pc, new)
      BY <1>0, <2>0, <3>1, <3>4 DEF Holds, HoldsForm, HoldsRow, HoldsUser, Naming,
        Early, OnRow, Placed, OnName, OnUser
    <3> QED BY <2>1, <3>2, <3>3, <3>5, OneRequest DEF TypeInv, ReqOK, was
  <2> QED BY <1>1, <2>1, <2>2, FinishOK DEF FindUser, TypeInv, Resting
<1>2. CASE DeleteAccount(r)
  <2>0. was.pc = "userdel" /\ was.name \in Usernames
    BY <1>2, <1>0 DEF DeleteAccount, Holds, HoldsUser, OnName
  <2>1. TablesOK'
    BY <1>2, <2>0, HostFacts, FaultType DEF TypeInv, TablesOK, DeleteAccount, keys, ghosts
  <2>2. Holds("userRow", was)
    BY <1>0, <2>0 DEF Holds, HoldsForm, HoldsRow, HoldsUser, Naming, Early, OnRow,
      Placed, OnName, OnUser
  <2> QED BY <1>2, <2>1, <2>2, GotoOK, FinishOK DEF TypeInv, DeleteAccount, Phases, Resting
<1>3. CASE DeleteUserRow(r)
  <2>0. was.pc = "userRow" /\ was.name \in Usernames /\ was.uid \in UserIds
    BY <1>3, <1>0 DEF DeleteUserRow, Holds, HoldsUser, OnName, OnUser
  <2>1. TablesOK'
    BY <1>3, <2>0, DatabaseFacts, FaultType DEF TypeInv, TablesOK, DeleteUserRow, keys
  <2>2. was.op = "deleteUser" => Holds("load", was)
    BY <1>0, <2>0 DEF Holds, HoldsForm, HoldsRow, HoldsUser, Naming, Early, OnRow,
      Placed, OnName, OnUser
  <2> QED BY <1>3, <2>1, <2>2, GotoOK, FinishOK DEF TypeInv, DeleteUserRow, Phases, Resting
<1> QED BY <1>1, <1>2, <1>3

-----------------------------------------------------------------------------
\* The deletion of a platform.
LEMMA DeleteType ==
  ASSUME TypeInv, NEW r \in Requests,
         \/ ScopedUser(r) \/ ScopedUserRow(r) \/ DeleteFails(r)
         \/ Unserve(r) \/ RemoveTree(r) \/ DeleteRow(r)
  PROVE  TypeInv'
<1> USE NoneFacts
<1> DEFINE was == req[r]
<1>0. was \in RequestStates /\ Holds(was.pc, was)
  BY InHand
<1>1. CASE ScopedUser(r)
  <2>0. was.pc = "scoped" /\ was.left \in SUBSET UserIds
    BY <1>1, InHand DEF ScopedUser
  <2>1. PICK u \in was.left :
       \/ /\ req' = [req EXCEPT ![r].left = @ \ {u}]
          /\ NoFault /\ UNCHANGED <<accounts, trees, ghosts>>
       \/ /\ users[u] # None
          /\ req' = [req EXCEPT ![r].pc = "scopedRow", ![r].uid = u,
                                ![r].name = users[u].name, ![r].left = @ \ {u}]
          /\ LET n == users[u].name
             IN \/ accounts[n] # None /\ Userdel(n) /\ NoFault /\ UNCHANGED scarred
                \/ accounts[n] = None /\ NoFault /\ UNCHANGED <<accounts, trees, scarred>>
                \/ /\ accounts[n] # None /\ Fault /\ scarred' = scarred \cup {n}
                   /\ UNCHANGED <<accounts, trees>>
          /\ UNCHANGED behind
       \/ NoFault /\ GiveUp(r) /\ UNCHANGED <<accounts, trees, scarred>>
    BY <1>1 DEF ScopedUser
  <2>2. u \in UserIds
    BY <2>0
  <2> DEFINE rest == was.left \ {u}
  <2>3. CASE /\ req' = [req EXCEPT ![r].left = @ \ {u}]
             /\ NoFault /\ UNCHANGED <<accounts, trees, ghosts>>
    <3> DEFINE new == [was EXCEPT !.left = rest]
    <3>1. TablesOK'
      BY <1>1, <2>3, FaultType DEF TypeInv, TablesOK, ScopedUser, keys, ghosts
    <3>2. req' = [req EXCEPT ![r] = new]
      BY <2>3 DEF TypeInv, ReqsOK
    <3>3. new \in RequestStates
      BY <1>0 DEF RequestStates
    <3>4. /\ new.pc = was.pc /\ new.op = was.op /\ new.site = was.site
          /\ new.uid = was.uid /\ new.name = was.name /\ new.home = was.home
          /\ new.made = was.made /\ new.row = was.row /\ new.owner = was.owner
      BY <1>0 DEF RequestStates
    <3> HIDE DEF new
    <3>5. Holds(new.pc, new)
      BY <1>0, <3>4 DEF Holds, HoldsForm, HoldsRow, HoldsUser
    <3> QED BY <3>1, <3>2, <3>3, <3>5, OneRequest DEF TypeInv, ReqOK
  <2>4. CASE /\ users[u] # None
             /\ req' = [req EXCEPT ![r].pc = "scopedRow", ![r].uid = u,
                                   ![r].name = users[u].name, ![r].left = @ \ {u}]
             /\ LET n == users[u].name
                IN \/ accounts[n] # None /\ Userdel(n) /\ NoFault /\ UNCHANGED scarred
                   \/ accounts[n] = None /\ NoFault /\ UNCHANGED <<accounts, trees, scarred>>
                   \/ /\ accounts[n] # None /\ Fault /\ scarred' = scarred \cup {n}
                      /\ UNCHANGED <<accounts, trees>>
             /\ UNCHANGED behind
    <3> DEFINE n == users[u].name
               new == [was EXCEPT !.pc = "scopedRow", !.uid = u, !.name = n, !.left = rest]
    <3>1. n \in Usernames
      BY <2>2, <2>4, RowFacts
    <3>2. TablesOK'
      BY <1>1, <2>4, <3>1, HostFacts, FaultType DEF TypeInv, TablesOK, ScopedUser, keys
    <3>3. req' = [req EXCEPT ![r] = new]
      BY <2>4 DEF TypeInv, ReqsOK
    <3>4. rest \in SUBSET UserIds
      BY <2>0
    <3> HIDE DEF n, rest
    <3>5. new \in RequestStates
      BY <1>0, <2>2, <3>1, <3>4 DEF RequestStates, Phases
    <3>6. /\ new.pc = "scopedRow" /\ new.op = was.op /\ new.site = was.site
          /\ new.uid = u /\ new.name = n /\ new.home = was.home
          /\ new.made = was.made /\ new.row = was.row /\ new.owner = was.owner
      BY <1>0 DEF RequestStates
    <3> HIDE DEF new, was
    <3>7. Holds(new.pc, new)
      BY <1>0, <2>0, <2>2, <3>1, <3>6 DEF Holds, HoldsForm, HoldsRow, HoldsUser, Naming,
        Early, OnRow, Placed, OnName, OnUser
    <3> QED BY <3>2, <3>3, <3>5, <3>7, OneRequest DEF TypeInv, ReqOK, was
  <2>5. CASE NoFault /\ GiveUp(r) /\ UNCHANGED <<accounts, trees, scarred>>
    <3>1. TablesOK'
      BY <1>1, <2>5, GiveUpOK, FaultType DEF TypeInv, TablesOK, ScopedUser, keys
    <3> QED BY <2>5, <3>1, GiveUpOK DEF TypeInv
  <2> QED BY <2>1, <2>3, <2>4, <2>5
<1>2. CASE ScopedUserRow(r)
  <2>0. was.pc = "scopedRow" /\ was.uid \in UserIds /\ was.name \in Usernames
    BY <1>2, <1>0 DEF ScopedUserRow, Holds, HoldsUser, OnName, OnUser
  <2>1. TablesOK'
    BY <1>2, <2>0, DatabaseFacts, GiveUpOK, FaultType
    DEF TypeInv, TablesOK, ScopedUserRow, keys, ghosts
  <2>2. Holds("scoped", was)
    BY <1>0, <2>0 DEF Holds, HoldsForm, HoldsRow, HoldsUser, Naming, Early, OnRow,
      Placed, OnName, OnUser
  <2> QED BY <1>2, <2>1, <2>2, GotoOK, GiveUpOK DEF TypeInv, ScopedUserRow, Phases
<1>3. CASE DeleteFails(r)
  <2>1. TablesOK'
    BY <1>3, GiveUpOK, FaultType DEF TypeInv, TablesOK, DeleteFails, keys
  <2> QED BY <1>3, <2>1, GiveUpOK DEF TypeInv, DeleteFails
<1>4. CASE Unserve(r)
  <2>0. was.pc = "scoped" /\ Unserved(r) \in [Names -> SUBSET Domains]
    BY <1>4 DEF Unserve, Unserved, TypeInv, TablesOK
  <2>1. TablesOK'
    BY <1>4, <2>0, GiveUpOK, FaultType DEF TypeInv, TablesOK, Unserve, keys
  <2>2. Holds("removeTree", was)
    BY <1>0, <2>0 DEF Holds, HoldsForm, HoldsRow, HoldsUser, Naming, Early, OnRow,
      Placed, OnName, OnUser
  <2> QED BY <1>4, <2>1, <2>2, GotoOK, GiveUpOK DEF TypeInv, Unserve, Phases
<1>5. CASE RemoveTree(r)
  <2>0. was.pc = "removeTree"
    BY <1>5 DEF RemoveTree
  <2>1. TablesOK'
    BY <1>5, GiveUpOK, FaultType DEF TypeInv, TablesOK, RemoveTree, keys
  <2>2. Holds("deleteRow", was)
    BY <1>0, <2>0 DEF Holds, HoldsForm, HoldsRow, HoldsUser, Naming, Early, OnRow,
      Placed, OnName, OnUser
  <2> QED BY <1>5, <2>1, <2>2, GotoOK, GiveUpOK DEF TypeInv, RemoveTree, Phases
<1>6. CASE DeleteRow(r)
  <2>1. TablesOK'
    BY <1>6, GiveUpOK, FaultType DEF TypeInv, TablesOK, DeleteRow, keys
  <2> QED BY <1>6, <2>1, FinishOK, GiveUpOK DEF TypeInv, DeleteRow, Resting
<1> QED BY <1>1, <1>2, <1>3, <1>4, <1>5, <1>6

-----------------------------------------------------------------------------
\* A user's password, and whether it may log in.
LEMMA ChangeUserType ==
  ASSUME TypeInv, NEW r \in Requests,
         SetPassword(r) \/ Relock(r) \/ SetActive(r) \/ Stamp(r)
  PROVE  TypeInv'
<1> USE NoneFacts
<1> DEFINE was == req[r]
<1>0. was \in RequestStates /\ Holds(was.pc, was)
  BY InHand
<1>1. was.name \in Usernames /\ was.uid \in UserIds /\ was.owner \in User
      /\ was.owner.active \in BOOLEAN
  BY <1>0 DEF SetPassword, Relock, SetActive, Stamp, Holds, HoldsUser, OnUser, OnName, User
<1>2. ASSUME NEW on \in BOOLEAN, NEW step \in {"stamp", "relock"}, SetLockThen(r, on, step),
             was.pc \in {"chpasswd", "relock", "setLock"},
             UNCHANGED <<sites, users, trees, vhosts, keys, crashes, behind>>
      PROVE  TypeInv'
  <2>1. /\ accounts' = accounts \/ (accounts[was.name] # None /\ Lock(was.name, on))
        /\ NoFault \/ Fault
        /\ scarred' \in {scarred, scarred \cup {was.name}}
        /\ Goto(r, step) \/ Finish(r, "failed")
    BY <1>2 DEF SetLockThen
  <2>2. TablesOK'
    BY <1>1, <1>2, <2>1, HostFacts, FaultType DEF TypeInv, TablesOK, keys
  <2>3. Holds(step, was)
    BY <1>0, <1>2 DEF Holds, HoldsForm, HoldsRow, HoldsUser, Naming, Early, OnRow,
      Placed, OnName, OnUser
  <2> QED BY <2>1, <2>2, <2>3, GotoOK, FinishOK DEF TypeInv, Phases, Resting
<1>3. CASE SetPassword(r)
  BY <1>2, <1>3 DEF SetPassword, AfterPassword
<1>4. CASE Relock(r)
  BY <1>2, <1>4 DEF Relock
<1>5. CASE SetActive(r)
  BY <1>1, <1>2, <1>5 DEF SetActive
<1>6. CASE Stamp(r)
  <2>1. TablesOK'
    BY <1>1, <1>6, FaultType DEF TypeInv, TablesOK, Stamp, keys
  <2> QED BY <1>6, <2>1, FinishOK DEF TypeInv, Stamp, Resting
<1> QED BY <1>3, <1>4, <1>5, <1>6

-----------------------------------------------------------------------------
\* A crash empties every handler's hands.
LEMMA CrashType ==
  ASSUME TypeInv, Crash
  PROVE  TypeInv'
<1>1. TablesOK'
  BY InHand, PlatformsAssumption DEF TypeInv, TablesOK, Crash, keys
<1>2. ReqOK(NoReq) /\ NoReq \in RequestStates
  BY NoReqOK DEF ReqOK
<1> QED BY <1>1, <1>2 DEF TypeInv, ReqsOK, Crash

\* The panel begins with nothing.
LEMMA InitType == Init => TypeInv
<1> SUFFICES ASSUME Init PROVE TypeInv
  OBVIOUS
<1>1. TablesOK
  BY PlatformsAssumption DEF Init, TablesOK
<1>2. ReqOK(NoReq) /\ NoReq \in RequestStates
  BY NoReqOK DEF ReqOK
<1> QED BY <1>1, <1>2 DEF TypeInv, ReqsOK, Init

\* Every step keeps the types.
LEMMA NextType == TypeInv /\ [Next]_vars => TypeInv'
<1> SUFFICES ASSUME TypeInv, [Next]_vars PROVE TypeInv'
  OBVIOUS
<1>1. CASE UNCHANGED vars
  <2>1. TablesOK' /\ req' = req
    BY <1>1 DEF vars, keys, ghosts, TypeInv, TablesOK
  <2> QED BY <2>1 DEF TypeInv, ReqsOK
<1>2. CASE Crash
  BY <1>2, CrashType
<1>3. ASSUME NEW r \in Requests, Begin(r) PROVE TypeInv'
  BY <1>3, BeginType
<1>4. ASSUME NEW r \in Requests, Step(r) PROVE TypeInv'
  BY <1>4, CreateUserType, RowType, ServeType, DeleteUserType, DeleteType, ChangeUserType DEF Step
<1> QED BY <1>1, <1>2, <1>3, <1>4 DEF Next

\* However handlers interleave, fail and crash, the tables, the accounts and what
\* each handler holds keep their types, and each handler holds what the step it has
\* come to needs: no nil row, user or name is followed.
THEOREM PlatformsTypeCorrect == Spec => []TypeOK
<1>1. TypeInv => TypeOK
  BY DEF TypeInv, TablesOK, ReqsOK, TypeOK
<1> QED BY <1>1, InitType, NextType, PTL DEF Spec

-----------------------------------------------------------------------------
(***************************************************************************)
(* What holds of Platforms when operators take turns, for every value of   *)
(* the other constants, every number of failing commands and every crash:  *)
(* no domain belongs to two platforms.                                     *)
(***************************************************************************)

\* At most one request is under way.
Turns == \A r, q \in Requests : r # q => req[r].pc \in Resting \/ req[q].pc \in Resting

\* The steps before the row of a platform is written, from the first on.
Checked == Early \cup {"fetch", "store"}
\* What ensureDomainsAvailable has established for a handler still holds when the
\* handler writes the row.
Fresh(q) ==
  /\ q.pc \in Early /\ q.op = "create" => q.site = None
  /\ q.pc = "insert" => ~Clash(0, q.domains)
  /\ q.pc \in {"fetch", "store"} => ~Clash(q.site, q.domains)
SerialInv == TypeInv /\ Turns /\ DomainsOwned /\ \A r \in Requests : Fresh(req[r])

\* A step is taken by a request under way, and leaves the others as they are.
OneMoves(r) == req[r].pc \notin Resting /\ \A q \in Requests \ {r} : req'[q] = req[q]
\* No platform gains a domain.
NoneGained ==
  \A i \in Ids : sites'[i] # None => sites[i] # None /\ sites'[i].domains = sites[i].domains

\* Where a handler is after each way of ending a step.
LEMMA Moves ==
  ASSUME TypeInv, NEW r \in Requests
  PROVE  LET Kept == \A q \in Requests \ {r} : req'[q] = req[q]
         IN /\ \A step \in Phases : Goto(r, step) => Kept /\ req'[r].pc = step
            /\ \A result \in Resting : Finish(r, result) => Kept /\ req'[r].pc = result
            /\ GiveUp(r) => Kept /\ req'[r].pc = "failed"
            /\ Refuse(r) => Kept /\ req'[r].pc \in {"findUser", "failed"}
            /\ Abandon(r) => Kept /\ req'[r].pc \in {"dropRow", "ok", "failed"}
<1> DEFINE Kept == \A q \in Requests \ {r} : req'[q] = req[q]
<1>0. req \in [Requests -> RequestStates] /\ req[r] \in RequestStates
  BY DEF TypeInv, ReqsOK
<1>1. ASSUME NEW step \in Phases, Goto(r, step) PROVE Kept /\ req'[r].pc = step
  <2>1. Kept /\ req'[r] = [req[r] EXCEPT !.pc = step]
    BY <1>0, <1>1 DEF Goto
  <2>2. [req[r] EXCEPT !.pc = step].pc = step
    BY <1>0 DEF RequestStates
  <2> QED BY <2>1, <2>2
<1>2. ASSUME NEW result \in Resting, Finish(r, result) PROVE Kept /\ req'[r].pc = result
  <2>1. Kept /\ req'[r] = [NoReq EXCEPT !.pc = result]
    BY <1>0, <1>2 DEF Finish
  <2>2. [NoReq EXCEPT !.pc = result].pc = result
    BY DEF NoReq
  <2> QED BY <2>1, <2>2
<1> HIDE DEF Kept
<1>3. GiveUp(r) => Kept /\ req'[r].pc = "failed"
  BY <1>2 DEF GiveUp, Resting
<1>4. Refuse(r) => Kept /\ req'[r].pc \in {"findUser", "failed"}
  BY <1>1, <1>2 DEF Refuse, Resting, Phases
<1>5. Abandon(r) => Kept /\ req'[r].pc \in {"dropRow", "ok", "failed"}
  BY <1>1, <1>2 DEF Abandon, Resting, Phases
<1> QED BY <1>1, <1>2, <1>3, <1>4, <1>5 DEF Kept

\* Every step is one request's.
LEMMA OneStep ==
  ASSUME TypeInv, NEW r \in Requests, Step(r)
  PROVE  OneMoves(r)
<1>0. req \in [Requests -> RequestStates]
  BY DEF TypeInv, ReqsOK
<1>1. CASE CheckName(r)
  BY <1>0, <1>1, Moves DEF CheckName, OneMoves, Phases, Resting
<1>2. CASE MakeAccount(r)
  BY <1>0, <1>2, Moves DEF MakeAccount, OneMoves, Phases, Resting
<1>3. CASE SaveUser(r)
  BY <1>0, <1>3, Moves DEF SaveUser, OneMoves, Phases, Resting, Unsaved
<1>4. CASE UndoAccount(r)
  BY <1>0, <1>4, Moves DEF UndoAccount, OneMoves, Phases, Resting
<1>5. CASE CheckDomains(r)
  BY <1>0, <1>5, Moves DEF CheckDomains, OneMoves, Phases, Resting
<1>6. CASE Insert(r)
  BY <1>0, <1>6, Moves DEF Insert, OneMoves, Phases, Resting
<1>7. CASE Fetch(r)
  BY <1>0, <1>7, Moves DEF Fetch, OneMoves, Phases, Resting
<1>8. CASE Store(r)
  BY <1>0, <1>8, Moves DEF Store, OneMoves, Phases, Resting
<1>9. CASE Load(r)
  BY <1>0, <1>9, Moves DEF Load, OneMoves, Phases, Resting
<1>10. CASE Home(r)
  BY <1>0, <1>10, Moves DEF Home, OneMoves, Phases, Resting
<1>11. CASE SaveOwner(r)
  BY <1>0, <1>11, Moves DEF SaveOwner, OneMoves, Phases, Resting
<1>12. CASE Share(r)
  BY <1>0, <1>12, Moves DEF Share, OneMoves, Phases, Resting
<1>13. CASE Vhost(r)
  BY <1>0, <1>13, Moves DEF Vhost, OneMoves, Phases, Resting
<1>14. CASE DropRow(r)
  BY <1>0, <1>14, Moves DEF DropRow, OneMoves, Phases, Resting
<1>15. CASE DropTree(r)
  BY <1>0, <1>15, Moves DEF DropTree, OneMoves, Phases, Resting
<1>16. CASE FindUser(r)
  BY <1>0, <1>16, Moves DEF FindUser, OneMoves, Phases, Resting
<1>17. CASE DeleteAccount(r)
  BY <1>0, <1>17, Moves DEF DeleteAccount, OneMoves, Phases, Resting
<1>18. CASE DeleteUserRow(r)
  BY <1>0, <1>18, Moves DEF DeleteUserRow, OneMoves, Phases, Resting
<1>19. CASE ScopedUser(r)
  BY <1>0, <1>19, Moves DEF ScopedUser, OneMoves, Phases, Resting
<1>20. CASE ScopedUserRow(r)
  BY <1>0, <1>20, Moves DEF ScopedUserRow, OneMoves, Phases, Resting
<1>21. CASE DeleteFails(r)
  BY <1>0, <1>21, Moves DEF DeleteFails, OneMoves, Phases, Resting
<1>22. CASE Unserve(r)
  BY <1>0, <1>22, Moves DEF Unserve, OneMoves, Phases, Resting
<1>23. CASE RemoveTree(r)
  BY <1>0, <1>23, Moves DEF RemoveTree, OneMoves, Phases, Resting
<1>24. CASE DeleteRow(r)
  BY <1>0, <1>24, Moves DEF DeleteRow, OneMoves, Phases, Resting
<1>25. CASE SetPassword(r)
  BY <1>0, <1>25, Moves DEF SetPassword, OneMoves, Phases, Resting, SetLockThen, AfterPassword
<1>26. CASE Relock(r)
  BY <1>0, <1>26, Moves DEF Relock, OneMoves, Phases, Resting, SetLockThen
<1>27. CASE SetActive(r)
  BY <1>0, <1>27, Moves DEF SetActive, OneMoves, Phases, Resting, SetLockThen
<1>28. CASE Stamp(r)
  BY <1>0, <1>28, Moves DEF Stamp, OneMoves, Phases, Resting
<1> QED BY <1>1, <1>2, <1>3, <1>4, <1>5, <1>6, <1>7, <1>8, <1>9, <1>10, <1>11, <1>12, <1>13,
  <1>14, <1>15, <1>16, <1>17, <1>18, <1>19, <1>20, <1>21, <1>22, <1>23, <1>24, <1>25, <1>26,
    <1>27, <1>28
DEF Step

\* Once the row is written, no step leads back to those before.
LEMMA LaterStep ==
  ASSUME TypeInv, NEW r \in Requests,
         \/ UndoAccount(r) \/ Insert(r) \/ Store(r) \/ Load(r) \/ Home(r)
         \/ SaveOwner(r) \/ Share(r) \/ Vhost(r) \/ DropRow(r) \/ DropTree(r)
         \/ FindUser(r) \/ DeleteAccount(r) \/ DeleteUserRow(r) \/ ScopedUser(r) \/ ScopedUserRow(r)
         \/ DeleteFails(r) \/ Unserve(r) \/ RemoveTree(r) \/ DeleteRow(r) \/ SetPassword(r)
         \/ Relock(r) \/ SetActive(r) \/ Stamp(r)
  PROVE  req'[r].pc \notin Checked
<1>0. req \in [Requests -> RequestStates] /\ req[r] \in RequestStates
  BY DEF TypeInv, ReqsOK
<1>1. CASE UndoAccount(r)
  BY <1>0, <1>1, Moves DEF UndoAccount, Checked, Early, Naming, Phases, Resting
<1>2. CASE Insert(r)
  BY <1>0, <1>2, Moves DEF Insert, Checked, Early, Naming, Phases, Resting, RequestStates
<1>3. CASE Store(r)
  <2>1. Goto(r, "vhost") \/ Goto(r, "load") \/ GiveUp(r)
    BY <1>3 DEF Store, Goto
  <2> QED BY <2>1, Moves DEF Checked, Early, Naming, Phases
<1>4. CASE Load(r)
  BY <1>0, <1>4, Moves DEF Load, Checked, Early, Naming, Phases, Resting, RequestStates
<1>5. CASE Home(r)
  BY <1>0, <1>5, Moves DEF Home, Checked, Early, Naming, Phases, Resting, RequestStates
<1>6. CASE SaveOwner(r)
  BY <1>0, <1>6, Moves DEF SaveOwner, Checked, Early, Naming, Phases, Resting
<1>7. CASE Share(r)
  BY <1>0, <1>7, Moves DEF Share, Checked, Early, Naming, Phases, Resting
<1>8. CASE Vhost(r)
  BY <1>0, <1>8, Moves DEF Vhost, Checked, Early, Naming, Phases, Resting
<1>9. CASE DropRow(r)
  BY <1>0, <1>9, Moves DEF DropRow, Checked, Early, Naming, Phases, Resting
<1>10. CASE DropTree(r)
  BY <1>0, <1>10, Moves DEF DropTree, Checked, Early, Naming, Phases, Resting
<1>11. CASE FindUser(r)
  BY <1>0, <1>11, Moves DEF FindUser, Checked, Early, Naming, Phases, Resting, RequestStates
<1>12. CASE DeleteAccount(r)
  BY <1>0, <1>12, Moves DEF DeleteAccount, Checked, Early, Naming, Phases, Resting
<1>13. CASE DeleteUserRow(r)
  BY <1>0, <1>13, Moves DEF DeleteUserRow, Checked, Early, Naming, Phases, Resting
<1>14. CASE ScopedUser(r)
  <2>1. req[r].pc = "scoped"
    BY <1>14 DEF ScopedUser
  <2>2. \/ \E u \in UserIds : req' = [req EXCEPT ![r].left = @ \ {u}]
        \/ \E u \in UserIds : req' = [req EXCEPT ![r].pc = "scopedRow", ![r].uid = u,
                                   ![r].name = users[u].name, ![r].left = @ \ {u}]
        \/ GiveUp(r)
    BY <1>0, <1>14 DEF ScopedUser, RequestStates
  <2>3. CASE \E u \in UserIds : req' = [req EXCEPT ![r].left = @ \ {u}]
    <3>1. req'[r].pc = req[r].pc
      BY <1>0, <2>3 DEF RequestStates
    <3> QED BY <2>1, <3>1 DEF Checked, Early, Naming
  <2>4. CASE \E u \in UserIds : req' = [req EXCEPT ![r].pc = "scopedRow", ![r].uid = u,
                                   ![r].name = users[u].name, ![r].left = @ \ {u}]
    <3>1. req'[r].pc = "scopedRow"
      BY <1>0, <2>4 DEF RequestStates
    <3> QED BY <3>1 DEF Checked, Early, Naming
  <2>5. CASE GiveUp(r)
    BY <2>5, Moves DEF Checked, Early, Naming
  <2> QED BY <2>2, <2>3, <2>4, <2>5
<1>15. CASE ScopedUserRow(r)
  BY <1>0, <1>15, Moves DEF ScopedUserRow, Checked, Early, Naming, Phases, Resting
<1>16. CASE DeleteFails(r)
  BY <1>0, <1>16, Moves DEF DeleteFails, Checked, Early, Naming, Phases, Resting
<1>17. CASE Unserve(r)
  BY <1>0, <1>17, Moves DEF Unserve, Checked, Early, Naming, Phases, Resting
<1>18. CASE RemoveTree(r)
  BY <1>0, <1>18, Moves DEF RemoveTree, Checked, Early, Naming, Phases, Resting
<1>19. CASE DeleteRow(r)
  BY <1>0, <1>19, Moves DEF DeleteRow, Checked, Early, Naming, Phases, Resting
<1>20. CASE SetPassword(r)
  <2>1. Goto(r, "stamp") \/ Goto(r, "relock") \/ Finish(r, "failed")
    BY <1>20 DEF SetPassword, SetLockThen, AfterPassword
  <2> QED BY <2>1, Moves DEF Checked, Early, Naming, Phases, Resting
<1>21. CASE Relock(r)
  <2>1. Goto(r, "stamp") \/ Goto(r, "relock") \/ Finish(r, "failed")
    BY <1>21 DEF Relock, SetLockThen
  <2> QED BY <2>1, Moves DEF Checked, Early, Naming, Phases, Resting
<1>22. CASE SetActive(r)
  BY <1>0, <1>22, Moves DEF SetActive, Checked, Early, Naming, Phases, Resting, SetLockThen
<1>23. CASE Stamp(r)
  BY <1>0, <1>23, Moves DEF Stamp, Checked, Early, Naming, Phases, Resting
<1> QED BY <1>1, <1>2, <1>3, <1>4, <1>5, <1>6, <1>7, <1>8, <1>9, <1>10, <1>11, <1>12, <1>13,
  <1>14, <1>15, <1>16, <1>17, <1>18, <1>19, <1>20, <1>21, <1>22, <1>23

-----------------------------------------------------------------------------
\* Only Create and Update give a platform domains.
LEMMA StepGains ==
  ASSUME TypeInv, NEW r \in Requests, Step(r), ~Insert(r), ~Store(r)
  PROVE  NoneGained
<1>1. UNCHANGED sites => NoneGained
  BY DEF NoneGained
<1>2. ASSUME NEW i \in Ids \cup {None}, sites' = [sites EXCEPT ![i] = None]
      PROVE  NoneGained
  BY <1>2 DEF NoneGained, TypeInv, TablesOK
<1>3. ASSUME NEW u, WithoutUser(u) PROVE NoneGained
  <2>1. \A i \in Ids : sites[i] # None =>
          /\ [sites[i] EXCEPT !.user = None].domains = sites[i].domains
    BY RowFacts DEF Site
  <2> QED BY <1>3, <2>1 DEF WithoutUser, NoneGained
<1>4. CASE CheckName(r)
  BY <1>1, <1>4 DEF CheckName
<1>5. CASE MakeAccount(r)
  BY <1>1, <1>5 DEF MakeAccount
<1>6. CASE SaveUser(r)
  BY <1>1, <1>6 DEF SaveUser
<1>7. CASE UndoAccount(r)
  BY <1>1, <1>7 DEF UndoAccount
<1>8. CASE CheckDomains(r)
  BY <1>1, <1>8 DEF CheckDomains
<1>9. CASE Fetch(r)
  BY <1>1, <1>9 DEF Fetch
<1>10. CASE Load(r)
  BY <1>1, <1>10 DEF Load
<1>11. CASE Home(r)
  BY <1>1, <1>11 DEF Home
<1>12. CASE SaveOwner(r)
  BY <1>1, <1>12 DEF SaveOwner
<1>13. CASE Share(r)
  BY <1>1, <1>13 DEF Share
<1>14. CASE Vhost(r)
  BY <1>1, <1>14 DEF Vhost
<1>15. CASE DropRow(r)
  BY <1>1, <1>2, <1>15, InHand DEF DropRow
<1>16. CASE DropTree(r)
  BY <1>1, <1>16 DEF DropTree
<1>17. CASE FindUser(r)
  BY <1>1, <1>17 DEF FindUser
<1>18. CASE DeleteAccount(r)
  BY <1>1, <1>18 DEF DeleteAccount
<1>19. CASE DeleteUserRow(r)
  BY <1>1, <1>3, <1>19 DEF DeleteUserRow
<1>20. CASE ScopedUser(r)
  BY <1>1, <1>20 DEF ScopedUser
<1>21. CASE ScopedUserRow(r)
  BY <1>1, <1>3, <1>21 DEF ScopedUserRow
<1>22. CASE DeleteFails(r)
  BY <1>1, <1>22 DEF DeleteFails
<1>23. CASE Unserve(r)
  BY <1>1, <1>23 DEF Unserve
<1>24. CASE RemoveTree(r)
  BY <1>1, <1>24 DEF RemoveTree
<1>25. CASE DeleteRow(r)
  BY <1>1, <1>2, <1>25, InHand DEF DeleteRow
<1>26. CASE SetPassword(r)
  BY <1>1, <1>26 DEF SetPassword
<1>27. CASE Relock(r)
  BY <1>1, <1>27 DEF Relock
<1>28. CASE SetActive(r)
  BY <1>1, <1>28 DEF SetActive
<1>29. CASE Stamp(r)
  BY <1>1, <1>29 DEF Stamp
<1> QED
  BY <1>4, <1>5, <1>6, <1>7, <1>8, <1>9, <1>10, <1>11, <1>12, <1>13, <1>14, <1>15, <1>16,
     <1>17, <1>18, <1>19, <1>20, <1>21, <1>22, <1>23, <1>24, <1>25, <1>26, <1>27, <1>28, <1>29
     DEF Step

\* What nobody else holds stays so while no platform gains a domain.
LEMMA GainsFacts ==
  ASSUME TypeInv, TypeInv', NoneGained
  PROVE  /\ DomainsOwned => DomainsOwned'
         /\ \A i, ds : Clash(i, ds)' => Clash(i, ds)
<1>1. DomainsOwned => DomainsOwned'
  BY DEF NoneGained, DomainsOwned, Known
<1>2. ASSUME NEW i, NEW ds, Clash(i, ds)' PROVE Clash(i, ds)
  <2>1. PICK j \in Ids \ {i} : sites'[j] # None /\ ds \cap sites'[j].domains # {}
    BY <1>2 DEF Clash, OthersOf
  <2>2. sites[j] # None /\ ds \cap sites[j].domains # {}
    BY <2>1 DEF NoneGained
  <2> QED BY <2>2 DEF Clash, OthersOf
<1> QED BY <1>1, <1>2

\* A platform whose domains are nobody else's joins the others.
LEMMA ClashFacts ==
  ASSUME TypeInv, NEW i \in Ids, NEW ds
  PROVE  /\ ~Clash(0, ds) => ~Clash(i, ds)
         /\ ~Clash(i, ds) => \A j \in Known \ {i} : ds \cap sites[j].domains = {}
         /\ DomainsOwned /\ i \in Known => ~Clash(i, sites[i].domains)
<1>1. \A k : Clash(k,
  ds) <=> \E j \in Ids \ {k} : sites[j] # None /\ ds \cap sites[j].domains # {}
  BY DEF Clash, OthersOf
<1>2. ~Clash(0, ds) => ~Clash(i, ds)
  BY <1>1, NoneFacts
<1>3. ~Clash(i, ds) => \A j \in Known \ {i} : ds \cap sites[j].domains = {}
  BY <1>1 DEF Known
<1>4. DomainsOwned /\ i \in Known => ~Clash(i, sites[i].domains)
  BY DEF DomainsOwned, Known, Clash, OthersOf
<1> QED BY <1>2, <1>3, <1>4

-----------------------------------------------------------------------------
\* What a handler begins with.
Opening(q) ==
  \/ q.pc = "failed" /\ q.op = "none" /\ q.uid = None
  \/ q.pc = "findUser" /\ q.op = "deleteUser" /\ q.uid < nextUser
  \/ q.pc = "name" /\ q.op = "addUser" /\ q.site \in Known /\ q.uid = None
  \/ /\ q.pc \in {"name", "domains"} /\ q.op = "create" /\ q.site = None
     /\ q.domains = {q.home} /\ (q.uid = None \/ q.uid < nextUser)
  \/ /\ q.pc = "domains" /\ q.op = "addDomain" /\ q.site \in Known
     /\ sites[q.site].domains \subseteq q.domains /\ q.uid = None
  \/ /\ q.pc = "store" /\ q.op = "toggle" /\ q.site \in Known /\ q.row = sites[q.site]
     /\ q.domains = q.row.domains /\ q.owner = UserOf(q.row) /\ q.uid = None
  \/ /\ q.pc = "scoped" /\ q.op = "delete" /\ q.site \in Known /\ q.row = sites[q.site]
     /\ q.left = ScopedUsers(q.site) /\ q.uid = None
  \/ /\ q.pc \in {"chpasswd", "setLock"} /\ q.uid \in UserIds /\ users[q.uid] # None
     /\ q.op \in {"reset", "setActive"} /\ q.name = users[q.uid].name
     /\ q.owner.name = q.name /\ q.owner.site = users[q.uid].site
     /\ q.pc = "chpasswd" => q.owner = users[q.uid]
LEMMA BeginOpens ==
  ASSUME ~Overlapping, TypeInv, NEW r \in Requests, Begin(r)
  PROVE  /\ \A q \in Requests : req[q].pc \in Resting
         /\ \A q \in Requests \ {r} : req'[q] = req[q]
         /\ UNCHANGED <<sites, users, accounts, vhosts, keys, ghosts>>
         /\ Opening(req'[r])
<1> DEFINE new == req'[r]
<1>0. req \in [Requests -> RequestStates]
  BY DEF TypeInv, ReqsOK
<1>1. /\ \A q \in Requests : req[q].pc \in Resting
      /\ \A q \in Requests \ {r} : req'[q] = req[q]
      /\ UNCHANGED <<sites, users, accounts, vhosts, keys, ghosts>>
  BY <1>0 DEF Begin, NotFound, BeginCreate, BeginAddUser, BeginDeleteUser, BeginAddDomain,
    BeginToggle, BeginDelete, BeginUserChange, Idle, Start
<1>2. ASSUME NEW rec, Start(r, rec) PROVE new = rec
  BY <1>0, <1>2 DEF Start
<1>3. CASE NotFound(r)
  <2>1. new = [NoReq EXCEPT !.pc = "failed"]
    BY <1>2, <1>3 DEF NotFound
  <2>2. new.pc = "failed" /\ new.op = "none" /\ new.uid = None
    BY <2>1 DEF NoReq
  <2> QED BY <1>1, <2>2 DEF Opening
<1>4. CASE BeginCreate(r)
  <2> DEFINE Made(d, n) == [NoReq EXCEPT !.pc = "name", !.op = "create", !.name = n,
                                         !.home = d, !.domains = {d}]
             Named(d, u) == [NoReq EXCEPT !.pc = "domains", !.op = "create", !.uid = u,
                                          !.home = d, !.domains = {d}]
  <2>1. PICK d \in Domains : \/ \E n \in Usernames : Start(r, Made(d, n))
                             \/ \E u \in UserIds : u < nextUser /\ Start(r, Named(d, u))
    BY <1>4 DEF BeginCreate
  <2>2. /\ \A n : Made(d, n).pc = "name" /\ Made(d, n).op = "create" /\ Made(d, n).home = d
                  /\ Made(d, n).domains = {d} /\ Made(d, n).site = None /\ Made(d, n).uid = None
        /\ \A u : Named(d, u).pc = "domains" /\ Named(d, u).op = "create" /\ Named(d, u).home = d
                  /\ Named(d, u).domains = {d} /\ Named(d, u).site = None /\ Named(d, u).uid = u
    BY DEF NoReq
  <2> HIDE DEF Made, Named
  <2> QED BY <1>1, <1>2, <2>1, <2>2 DEF Opening
<1>5. CASE BeginAddUser(r)
  <2>1. PICK i \in Known, n \in Usernames :
          Start(r, [NoReq EXCEPT !.pc = "name", !.op = "addUser", !.site = i,
                                 !.name = n, !.home = sites[i].home])
    BY <1>5 DEF BeginAddUser
  <2>2. new = [NoReq EXCEPT !.pc = "name", !.op = "addUser", !.site = i,
                            !.name = n, !.home = sites[i].home]
    BY <1>2, <2>1
  <2>3. new.pc = "name" /\ new.op = "addUser" /\ new.site = i /\ new.uid = None
    BY <2>2 DEF NoReq
  <2> QED BY <1>1, <2>3 DEF Opening
<1>6. CASE BeginDeleteUser(r)
  <2>1. PICK i \in Known, u \in UserIds :
          /\ u < nextUser
          /\ Start(r, [NoReq EXCEPT !.pc = "findUser", !.op = "deleteUser", !.site = i,
                                   !.uid = u])
    BY <1>6 DEF BeginDeleteUser
  <2>2. new = [NoReq EXCEPT !.pc = "findUser", !.op = "deleteUser", !.site = i, !.uid = u]
    BY <1>2, <2>1
  <2>3. new.pc = "findUser" /\ new.op = "deleteUser" /\ new.uid = u
    BY <2>2 DEF NoReq
  <2> QED BY <1>1, <2>1, <2>3 DEF Opening
<1>7. CASE BeginAddDomain(r)
  <2>1. PICK i \in Known, d \in Domains :
          Start(r, [NoReq EXCEPT !.pc = "domains", !.op = "addDomain", !.site = i,
                                 !.domains = sites[i].domains \cup {d}])
    BY <1>7 DEF BeginAddDomain
  <2>2. new = [NoReq EXCEPT !.pc = "domains", !.op = "addDomain", !.site = i,
                            !.domains = sites[i].domains \cup {d}]
    BY <1>2, <2>1
  <2>3. /\ new.pc = "domains" /\ new.op = "addDomain" /\ new.site = i
        /\ new.domains = sites[i].domains \cup {d} /\ new.uid = None
    BY <2>2 DEF NoReq
  <2> QED BY <1>1, <2>3 DEF Opening
<1>8. CASE BeginToggle(r)
  <2>1. PICK i \in Known :
          Start(r, [NoReq EXCEPT !.pc = "store", !.op = "toggle", !.site = i,
                                 !.domains = sites[i].domains, !.row = sites[i],
                                 !.owner = UserOf(sites[i])])
    BY <1>8 DEF BeginToggle
  <2>2. new = [NoReq EXCEPT !.pc = "store", !.op = "toggle", !.site = i,
                            !.domains = sites[i].domains, !.row = sites[i],
                            !.owner = UserOf(sites[i])]
    BY <1>2, <2>1
  <2>3. /\ new.pc = "store" /\ new.op = "toggle" /\ new.site = i /\ new.row = sites[i]
        /\ new.domains = sites[i].domains /\ new.owner = UserOf(sites[i]) /\ new.uid = None
    BY <2>2 DEF NoReq
  <2> QED BY <1>1, <2>3 DEF Opening
<1>9. CASE BeginDelete(r)
  <2>1. PICK i \in Known :
          Start(r, [NoReq EXCEPT !.pc = "scoped", !.op = "delete", !.site = i,
                                 !.row = sites[i], !.left = ScopedUsers(i)])
    BY <1>9 DEF BeginDelete
  <2>2. new = [NoReq EXCEPT !.pc = "scoped", !.op = "delete", !.site = i,
                            !.row = sites[i], !.left = ScopedUsers(i)]
    BY <1>2, <2>1
  <2>3. /\ new.pc = "scoped" /\ new.op = "delete" /\ new.site = i /\ new.row = sites[i]
        /\ new.left = ScopedUsers(i) /\ new.uid = None
    BY <2>2 DEF NoReq
  <2> QED BY <1>1, <2>3 DEF Opening
<1>10. CASE BeginUserChange(r)
  <2>1. PICK u \in UserIds :
          /\ users[u] # None
          /\ \/ Start(r, [NoReq EXCEPT !.pc = "chpasswd", !.op = "reset", !.uid = u,
                                       !.name = users[u].name, !.owner = users[u]])
             \/ \E on \in BOOLEAN :
                  Start(r, [NoReq EXCEPT !.pc = "setLock", !.op = "setActive", !.uid = u,
                                         !.name = users[u].name,
                                         !.owner = [users[u] EXCEPT !.active = on]])
    BY <1>10 DEF BeginUserChange
  <2>2. \A on \in BOOLEAN : /\ [users[u] EXCEPT !.active = on].name = users[u].name
                            /\ [users[u] EXCEPT !.active = on].site = users[u].site
    BY <2>1, RowFacts DEF User
  <2>3. CASE new = [NoReq EXCEPT !.pc = "chpasswd", !.op = "reset", !.uid = u,
                                 !.name = users[u].name, !.owner = users[u]]
    <3>1. /\ new.pc = "chpasswd" /\ new.uid = u /\ new.name = users[u].name
          /\ new.owner = users[u] /\ new.op = "reset"
      BY <2>3 DEF NoReq
    <3> QED BY <1>1, <2>1, <3>1 DEF Opening
  <2>4. ASSUME NEW on \in BOOLEAN,
               new = [NoReq EXCEPT !.pc = "setLock", !.op = "setActive", !.uid = u,
                                   !.name = users[u].name,
                                   !.owner = [users[u] EXCEPT !.active = on]]
        PROVE  Opening(new)
    <3>1. /\ new.pc = "setLock" /\ new.uid = u /\ new.name = users[u].name
          /\ new.owner = [users[u] EXCEPT !.active = on] /\ new.op = "setActive"
      BY <2>4 DEF NoReq
    <3> QED BY <2>1, <2>2, <3>1 DEF Opening
  <2> QED BY <1>1, <1>2, <2>1, <2>3, <2>4
<1> QED BY <1>1, <1>3, <1>4, <1>5, <1>6, <1>7, <1>8, <1>9, <1>10 DEF Begin

-----------------------------------------------------------------------------
\* What one request holds is all there is to check: the others are at rest.
LEMMA OneFresh ==
  ASSUME SerialInv, TypeInv', NEW r \in Requests,
         \A q \in Requests \ {r} : req[q].pc \in Resting /\ req'[q] = req[q],
         DomainsOwned', Fresh(req[r])'
  PROVE  SerialInv'
<1>1. Turns'
  BY DEF Turns
<1>2. ASSUME NEW q \in Requests \ {r} PROVE Fresh(req[q])'
  <2>1. req'[q].pc \in Resting
    OBVIOUS
  <2> QED BY <2>1 DEF Fresh, Resting, Early, Naming
<1>3. (\A q \in Requests : Fresh(req[q]))'
  BY <1>2
<1> QED BY <1>1, <1>3 DEF SerialInv

\* A handler begins when the others are at rest, and asks for nothing it may not have.
LEMMA BeginSerial ==
  ASSUME ~Overlapping, SerialInv, TypeInv', NEW r \in Requests, Begin(r)
  PROVE  SerialInv'
<1> DEFINE new == req'[r]
<1>1. /\ TypeInv /\ DomainsOwned /\ sites' = sites /\ Opening(new)
      /\ \A q \in Requests \ {r} : req[q].pc \in Resting /\ req'[q] = req[q]
  BY BeginOpens DEF SerialInv
<1>2. new.pc = "store" => ~Clash(new.site, new.domains)
  BY <1>1, ClashFacts DEF Opening, Known
<1>3. Fresh(req[r])'
  BY <1>1, <1>2 DEF Fresh, Opening, Early, Naming, Clash, OthersOf
<1>4. DomainsOwned'
  BY <1>1 DEF DomainsOwned, Known
<1> QED BY <1>1, <1>3, <1>4, OneFresh

-----------------------------------------------------------------------------
\* Going to a step changes where a handler is and nothing that it holds.
LEMMA GotoKeeps ==
  ASSUME TypeInv, NEW r \in Requests, NEW step, Goto(r, step)
  PROVE  /\ req'[r].pc = step /\ req'[r].op = req[r].op /\ req'[r].site = req[r].site
         /\ req'[r].uid = req[r].uid /\ req'[r].name = req[r].name
         /\ req'[r].domains = req[r].domains /\ req'[r].home = req[r].home
         /\ req'[r].row = req[r].row /\ req'[r].owner = req[r].owner
         /\ req'[r].left = req[r].left /\ req'[r].made = req[r].made
<1>1. req'[r] = [req[r] EXCEPT !.pc = step] /\ req[r] \in RequestStates
  BY DEF Goto, TypeInv, ReqsOK
<1> QED BY <1>1 DEF RequestStates

\* Every step of a handler keeps what its checks have established.
LEMMA StepSerial ==
  ASSUME SerialInv, TypeInv', NEW r \in Requests, Step(r)
  PROVE  SerialInv'
<1> DEFINE was == req[r]
<1>0. TypeInv /\ DomainsOwned /\ Turns /\ Fresh(was)
      /\ was \in RequestStates /\ Holds(was.pc, was)
  BY InHand DEF SerialInv
<1>1. was.pc \notin Resting /\ \A q \in Requests \ {r} : req'[q] = req[q]
  BY <1>0, OneStep DEF OneMoves
<1>2. \A q \in Requests \ {r} : req[q].pc \in Resting
  BY <1>0, <1>1 DEF Turns
<1>3. SUFFICES DomainsOwned' /\ Fresh(req[r])'
  BY <1>1, <1>2, OneFresh
<1>4. ASSUME req'[r].pc \notin Checked PROVE Fresh(req[r])'
  BY <1>4 DEF Fresh, Checked, Early, Naming
<1>5. ASSUME ~Insert(r), ~Store(r)
      PROVE  DomainsOwned' /\ \A i, ds : Clash(i, ds)' => Clash(i, ds)
  BY <1>0, <1>5, StepGains, GainsFacts
<1>6. ASSUME NEW step \in Early, Goto(r, step), step # "insert", was.pc \in Early
      PROVE  Fresh(req[r])'
  <2>1. /\ req'[r].pc = step /\ req'[r].op = was.op /\ req'[r].site = was.site
    BY <1>0, <1>6, GotoKeeps
  <2> QED BY <1>0, <1>6, <2>1 DEF Fresh, Early, Naming
<1>7. CASE \/ UndoAccount(r) \/ Load(r) \/ Home(r) \/ SaveOwner(r) \/ Share(r) \/ Vhost(r)
           \/ DropRow(r) \/ DropTree(r) \/ FindUser(r) \/ DeleteAccount(r) \/ DeleteUserRow(r)
           \/ ScopedUser(r) \/ ScopedUserRow(r) \/ DeleteFails(r) \/ Unserve(r)
           \/ RemoveTree(r) \/ DeleteRow(r) \/ SetPassword(r) \/ Relock(r) \/ SetActive(r)
           \/ Stamp(r)
  <2>1. was.pc \notin {"insert", "store"}
    BY <1>7 DEF UndoAccount, Load, Home, SaveOwner, Share, Vhost, DropRow, DropTree, FindUser,
      DeleteAccount, DeleteUserRow, ScopedUser, ScopedUserRow, DeleteFails, Unserve, RemoveTree,
      DeleteRow, SetPassword, Relock, SetActive, Stamp
  <2>2. ~Insert(r) /\ ~Store(r)
    BY <2>1 DEF Insert, Store
  <2> QED BY <1>0, <1>4, <1>5, <1>7, <2>2, LaterStep
<1>8. CASE CheckName(r)
  <2>1. was.pc = "name" /\ (Goto(r, "account") \/ Finish(r, "failed"))
    BY <1>8 DEF CheckName
  <2>2. ~Insert(r) /\ ~Store(r)
    BY <2>1 DEF Insert, Store
  <2>3. CASE Goto(r, "account")
    BY <1>5, <1>6, <2>1, <2>2, <2>3 DEF Early, Naming
  <2>4. CASE Finish(r, "failed")
    BY <1>0, <1>4, <1>5, <2>2, <2>4, Moves DEF Checked, Early, Naming, Resting
  <2> QED BY <2>1, <2>3, <2>4
<1>9. CASE MakeAccount(r)
  <2>1. was.pc = "account" /\ (Goto(r, "saveUser") \/ Finish(r, "failed"))
    BY <1>9 DEF MakeAccount
  <2>2. ~Insert(r) /\ ~Store(r)
    BY <2>1 DEF Insert, Store
  <2>3. CASE Goto(r, "saveUser")
    BY <1>5, <1>6, <2>1, <2>2, <2>3 DEF Early, Naming
  <2>4. CASE Finish(r, "failed")
    BY <1>0, <1>4, <1>5, <2>2, <2>4, Moves DEF Checked, Early, Naming, Resting
  <2> QED BY <2>1, <2>3, <2>4
<1>10. CASE SaveUser(r)
  <2>1. was.pc = "saveUser" /\ was.pc \in Early
    BY <1>10 DEF SaveUser, Early, Naming
  <2>2. ~Insert(r) /\ ~Store(r)
    BY <2>1 DEF Insert, Store
  <2>3. CASE Goto(r, "undoAccount")
    BY <1>5, <1>6, <2>1, <2>2, <2>3 DEF Early, Naming
  <2>4. CASE req' = [req EXCEPT ![r].pc = IF was.op = "create" THEN "domains" ELSE "load",
                                ![r].uid = nextUser, ![r].made = TRUE]
    <3>1. /\ req'[r].pc \in {"domains", "load"} /\ req'[r].op = was.op
          /\ req'[r].site = was.site
      BY <1>0, <2>4 DEF RequestStates, TypeInv, ReqsOK
    <3> QED BY <1>0, <1>5, <2>1, <2>2, <3>1 DEF Fresh, Early, Naming
  <2> QED BY <1>10, <2>3, <2>4 DEF SaveUser, Unsaved
<1>11. CASE CheckDomains(r)
  <2>1. was.pc = "domains" /\ was.op \in {"create", "addDomain"}
        /\ (was.op = "create" => was.site = None) /\ (was.op # "create" => was.site # None)
    BY <1>0, <1>11, NoneFacts DEF CheckDomains, Holds, HoldsForm, Fresh, Early
  <2>2. ~Insert(r) /\ ~Store(r) /\ sites' = sites
    BY <1>11, <2>1 DEF CheckDomains, Insert, Store
  <2>3. CASE Refuse(r)
    BY <1>0, <1>4, <1>5, <2>2, <2>3, Moves DEF Checked, Early, Naming
  <2>4. CASE ~Refuse(r)
    <3> DEFINE step == IF was.op = "create" THEN "insert" ELSE "fetch"
    <3>1. Goto(r, step) /\ ~Clash(IF was.site = None THEN 0 ELSE was.site, was.domains)
      BY <1>11, <2>4 DEF CheckDomains
    <3>2. /\ req'[r].pc = step /\ req'[r].op = was.op /\ req'[r].site = was.site
          /\ req'[r].domains = was.domains
      BY <1>0, <3>1, GotoKeeps
    <3>3. \A i, ds : ~Clash(i, ds) => ~Clash(i, ds)'
      BY <1>5, <2>2
    <3>4. Fresh(req[r])'
      BY <2>1, <3>1, <3>2, <3>3 DEF Fresh
    <3> QED BY <1>5, <2>2, <3>4
  <2> QED BY <2>3, <2>4
<1>12. CASE Fetch(r)
  <2>1. was.pc = "fetch" /\ sites' = sites
    BY <1>12 DEF Fetch
  <2>2. ~Insert(r) /\ ~Store(r)
    BY <2>1 DEF Insert, Store
  <2>3. CASE GiveUp(r)
    BY <1>0, <1>4, <1>5, <2>2, <2>3, Moves DEF Checked, Early, Naming
  <2>4. CASE ~GiveUp(r)
    <3> DEFINE row == sites[was.site]
    <3>1. req' = [req EXCEPT ![r].pc = "store", ![r].row = row, ![r].owner = UserOf(row)]
      BY <1>12, <2>4 DEF Fetch
    <3> HIDE DEF row
    <3>2. req'[r].pc = "store" /\ req'[r].site = was.site /\ req'[r].domains = was.domains
      BY <1>0, <3>1 DEF RequestStates, TypeInv, ReqsOK
    <3>3. ~Clash(was.site, was.domains)
      BY <1>0, <2>1 DEF Fresh
    <3>4. Fresh(req[r])'
      BY <1>5, <2>2, <3>2, <3>3 DEF Fresh, Early, Naming
    <3> QED BY <1>5, <2>2, <3>4
  <2> QED BY <2>3, <2>4
<1>13. CASE Insert(r)
  <2>1. was.pc = "insert"
    BY <1>13 DEF Insert
  <2>2. Fresh(req[r])'
    BY <1>0, <1>4, <1>13, LaterStep
  <2>3. CASE sites' = sites
    BY <1>0, <2>2, <2>3 DEF DomainsOwned, Known
  <2>4. CASE sites' # sites
    <3> DEFINE row == [home |-> was.home, domains |-> was.domains, user |-> was.uid]
    <3>1. nextSite \in Ids /\ sites' = [sites EXCEPT ![nextSite] = row]
      BY <1>13, <2>4 DEF Insert
    <3>2. row.domains = was.domains
      OBVIOUS
    <3> HIDE DEF row
    <3>3. \A j \in Known \ {nextSite} : was.domains \cap sites[j].domains = {}
      BY <1>0, <2>1, <3>1, ClashFacts DEF Fresh
    <3>4. DomainsOwned'
      BY <1>0, <3>1, <3>2, <3>3 DEF DomainsOwned, Known, TypeInv, TablesOK
    <3> QED BY <2>2, <3>4
  <2> QED BY <2>3, <2>4
<1>14. CASE Store(r)
  <2>1. was.pc = "store" /\ was.site \in Ids /\ was.row \in Site
    BY <1>0, <1>14 DEF Store, Holds, HoldsRow, Placed, OnRow
  <2>2. Fresh(req[r])'
    BY <1>0, <1>4, <1>14, LaterStep
  <2>3. CASE sites' = sites
    BY <1>0, <2>2, <2>3 DEF DomainsOwned, Known
  <2>4. CASE sites' # sites
    <3> DEFINE row == [was.row EXCEPT !.domains = was.domains]
    <3>1. sites' = [sites EXCEPT ![was.site] = row]
      BY <1>14, <2>4 DEF Store
    <3>2. row.domains = was.domains
      BY <2>1 DEF Site
    <3> HIDE DEF row
    <3>3. \A j \in Known \ {was.site} : was.domains \cap sites[j].domains = {}
      BY <1>0, <2>1, ClashFacts DEF Fresh
    <3>4. DomainsOwned'
      BY <1>0, <2>1, <3>1, <3>2, <3>3 DEF DomainsOwned, Known, TypeInv, TablesOK
    <3> QED BY <2>2, <3>4
  <2> QED BY <2>3, <2>4
<1> QED BY <1>3, <1>7, <1>8, <1>9, <1>10, <1>11, <1>12, <1>13, <1>14 DEF Step

-----------------------------------------------------------------------------
\* What the turns rest on holds at first, and every step keeps it.
LEMMA InitSerial == Init => SerialInv
<1> SUFFICES ASSUME Init PROVE SerialInv
  OBVIOUS
<1>1. \A r \in Requests : req[r].pc = "idle"
  BY DEF Init, NoReq
<1>2. Turns /\ \A r \in Requests : Fresh(req[r])
  BY <1>1 DEF Turns, Fresh, Resting, Early, Naming
<1>3. DomainsOwned
  BY DEF Init, DomainsOwned, Known
<1> QED BY <1>2, <1>3, InitType DEF SerialInv
LEMMA NextSerial ==
  ASSUME ~Overlapping
  PROVE  SerialInv /\ [Next]_vars => SerialInv'
<1> SUFFICES ASSUME SerialInv, [Next]_vars PROVE SerialInv'
  OBVIOUS
<1>1. TypeInv'
  BY NextType DEF SerialInv
<1>2. CASE UNCHANGED vars
  <2>1. req' = req /\ sites' = sites
    BY <1>2 DEF vars
  <2>2. Turns' /\ DomainsOwned'
    BY <2>1 DEF SerialInv, Turns, DomainsOwned, Known
  <2>3. (\A r \in Requests : Fresh(req[r]))'
    BY <2>1 DEF SerialInv, Fresh, Clash, OthersOf
  <2> QED BY <1>1, <2>2, <2>3 DEF SerialInv
<1>3. CASE Crash
  <2>1. sites' = sites /\ \A r \in Requests : req'[r].pc = "idle"
    BY <1>3 DEF Crash, NoReq
  <2>2. Turns' /\ DomainsOwned'
    BY <2>1 DEF SerialInv, Turns, DomainsOwned, Known, Resting
  <2>3. (\A r \in Requests : Fresh(req[r]))'
    BY <2>1 DEF Fresh, Early, Naming
  <2> QED BY <1>1, <2>2, <2>3 DEF SerialInv
<1>4. ASSUME NEW r \in Requests, Begin(r) PROVE SerialInv'
  BY <1>1, <1>4, BeginSerial
<1>5. ASSUME NEW r \in Requests, Step(r) PROVE SerialInv'
  BY <1>1, <1>5, StepSerial
<1> QED BY <1>2, <1>3, <1>4, <1>5 DEF Next

\* No domain belongs to two platforms, as long as operators take turns: the look of
\* ensureDomainsAvailable still holds when Create and Update come to write, through
\* every failure and crash, and no other write of a platform's row gives it domains.
THEOREM SerialDomainsOwned ==
  ASSUME ~Overlapping
  PROVE  Spec => []DomainsOwned
<1>1. SerialInv => DomainsOwned
  BY DEF SerialInv
<1> QED BY <1>1, InitSerial, NextSerial, PTL DEF Spec

-----------------------------------------------------------------------------
(***************************************************************************)
(* The accounts of the host, when operators take turns.  A handler has one *)
(* account in hand, between a command on it and the write of its row; of   *)
(* every other name the panel and the host agree.                          *)
(***************************************************************************)

\* No two users have one name, and no key to come is in use.
OneName ==
  /\ \A u, v \in UserIds : users[u] # None /\ users[v] # None /\ users[u].name = users[v].name
                             => u = v
  /\ \A u \in UserIds : users[u] # None => u < nextUser
\* The account of that name belongs to a user, and lets no disabled user in.
Sound(n) ==
  \/ n \in scarred
  \/ /\ accounts[n] # None => Taken(n)
     /\ \A u \in UserIds : users[u] # None /\ users[u].name = n /\ ~users[u].active =>
          accounts[n] = None \/ accounts[n].locked
Handling == {"saveUser", "undoAccount", "relock", "stamp"}
HasInHand(q, n) == q.name = n /\ q.pc \in Handling

\* What a handler has read of the users is still so when it uses it.
Current(q) ==
  /\ q.pc \in {"account", "saveUser", "undoAccount"} => ~Taken(q.name)
  /\ q.pc \in {"store", "home", "share"} \/ (q.pc = "load" /\ q.op \in {"create", "addDomain"})
       => q.owner = None \/ q.owner = UserOf(q.row)
  /\ q.pc = "saveOwner" => /\ users[q.row.user] # None
                           /\ q.owner = [users[q.row.user] EXCEPT !.home = q.row.home]
  /\ q.pc \in {"userdel", "userRow", "scopedRow"} =>
       users[q.uid] # None /\ users[q.uid].name = q.name
  /\ q.pc = "userRow" => accounts[q.name] = None
  /\ q.pc = "scopedRow" => accounts[q.name] = None \/ q.name \in scarred
  /\ q.pc \in {"chpasswd", "setLock", "relock", "stamp"} =>
       users[q.uid] # None /\ users[q.uid].name = q.name /\ q.owner.name = q.name
  /\ q.pc \in {"chpasswd", "relock"} => q.owner = users[q.uid]
  /\ q.pc = "relock" => ~q.owner.active
  /\ q.pc = "stamp" => accounts[q.name] # None /\ (~q.owner.active => accounts[q.name].locked)
Reading == {"account", "saveUser", "undoAccount", "store", "home", "share", "load", "saveOwner",
            "userdel", "userRow", "scopedRow", "chpasswd", "setLock", "relock", "stamp"}

AccountInv ==
  /\ SerialInv /\ OneName
  /\ \A n \in Usernames : Sound(n) \/ \E r \in Requests : HasInHand(req[r], n)
  /\ \A r \in Requests : Current(req[r])
\* The same after a step of one request.
AccountsAfter(r) ==
  /\ OneName' /\ Current(req[r])'
  /\ \A n \in Usernames : Sound(n)' \/ HasInHand(req'[r], n)

\* What a handler finds: the others are at rest, and have nothing in hand.
LEMMA AccountFocus ==
  ASSUME AccountInv, NEW r \in Requests,
         \A q \in Requests \ {r} : req[q].pc \in Resting
  PROVE  /\ TypeInv /\ OneName /\ Current(req[r])
         /\ \A n \in Usernames : Sound(n) \/ HasInHand(req[r], n)
         /\ req[r].pc \notin Handling => \A n \in Usernames : Sound(n)
BY DEF AccountInv, SerialInv, HasInHand, Handling, Resting

LEMMA OthersRest ==
  ASSUME AccountInv, NEW r \in Requests, req[r].pc \notin Resting
  PROVE  \A q \in Requests \ {r} : req[q].pc \in Resting
BY DEF AccountInv, SerialInv, Turns

LEMMA OneCurrent ==
  ASSUME AccountInv, SerialInv', NEW r \in Requests, AccountsAfter(r),
         \A q \in Requests \ {r} : req[q].pc \in Resting /\ req'[q] = req[q]
  PROVE  AccountInv'
<1>1. ASSUME NEW q \in Requests \ {r} PROVE Current(req[q])'
  <2>1. req'[q].pc \in Resting
    OBVIOUS
  <2> QED BY <2>1 DEF Current, Resting
<1>2. (\A q \in Requests : Current(req[q]))'
  BY <1>1 DEF AccountsAfter
<1> QED BY <1>2 DEF AccountInv, AccountsAfter

\* A step that reads nothing of the users has nothing to keep.
LEMMA NothingRead ==
  ASSUME NEW r \in Requests, req'[r].pc \notin Reading
  PROVE  Current(req[r])'
BY DEF Current, Reading

\* Users keep their names and accounts their locks: an account may go, and one more may
\* be out of step.
Alike ==
  /\ nextUser' = nextUser /\ scarred \subseteq scarred'
  /\ \A u \in UserIds : /\ users'[u] = None <=> users[u] = None
                        /\ users[u] # None => /\ users'[u].name = users[u].name
                                              /\ users'[u].active = users[u].active
  /\ \A n \in Usernames : \/ accounts'[n] = None
                          \/ /\ accounts[n] # None
                             /\ accounts'[n].locked = accounts[n].locked
LEMMA AlikeSound ==
  ASSUME TypeInv, Alike
  PROVE  /\ OneName => OneName'
         /\ \A n \in Usernames : Sound(n) => Sound(n)'
         /\ \A n : Taken(n)' <=> Taken(n)
<1>1. OneName => OneName'
  BY DEF Alike, OneName
<1>2. \A n : Taken(n)' <=> Taken(n)
  BY DEF Alike, Taken
<1>3. \A n \in Usernames : Sound(n) => Sound(n)'
  BY <1>2 DEF Alike, Sound
<1> QED BY <1>1, <1>2, <1>3

\* A handler with nothing in hand, at a step that leaves users and accounts alike.
LEMMA AlikeAfter ==
  ASSUME AccountInv, NEW r \in Requests, req[r].pc \notin Resting \cup Handling, Alike,
         Current(req[r])'
  PROVE  AccountsAfter(r)
BY AccountFocus, OthersRest, AlikeSound DEF AccountsAfter, AccountInv, SerialInv


-----------------------------------------------------------------------------
\* A handler begins with what it has just read.
LEMMA BeginAccounts ==
  ASSUME ~Overlapping, AccountInv, NEW r \in Requests, Begin(r)
  PROVE  /\ \A q \in Requests \ {r} : req[q].pc \in Resting /\ req'[q] = req[q]
         /\ AccountsAfter(r)
<1>1. /\ TypeInv /\ \A q \in Requests : req[q].pc \in Resting
      /\ \A q \in Requests \ {r} : req'[q] = req[q]
      /\ UNCHANGED <<sites, users, accounts, vhosts, keys, ghosts>>
      /\ Opening(req'[r])
  BY BeginOpens DEF AccountInv, SerialInv
<1>2. Alike /\ \A n \in Usernames : Sound(n)
  BY <1>1, AccountFocus DEF Alike, Handling, Resting, keys, ghosts, TypeInv, TablesOK
<1>3. Current(req[r])'
  BY <1>1 DEF Current, Opening, UserOf
<1>4. OneName' /\ \A n \in Usernames : Sound(n)'
  BY <1>1, <1>2, AlikeSound DEF AccountInv
<1> QED BY <1>1, <1>3, <1>4 DEF AccountsAfter

-----------------------------------------------------------------------------
\* The steps that only read the users, or keep them and their accounts alike.
LEMMA ReadingSteps ==
  ASSUME AccountInv, NEW r \in Requests,
         \/ CheckName(r) \/ CheckDomains(r) \/ Insert(r) \/ Fetch(r) \/ Load(r) \/ Share(r)
         \/ Vhost(r) \/ DropRow(r) \/ DropTree(r) \/ FindUser(r) \/ DeleteFails(r)
         \/ Unserve(r) \/ RemoveTree(r) \/ DeleteRow(r)
  PROVE  AccountsAfter(r)
<1> DEFINE was == req[r]
           new == req'[r]
<1>0. TypeInv /\ was \in RequestStates /\ Holds(was.pc, was) /\ Current(was)
      /\ req \in [Requests -> RequestStates]
  BY InHand DEF AccountInv, SerialInv, TypeInv, ReqsOK
<1>1. /\ was.pc \notin Resting \cup Handling
      /\ UNCHANGED <<users, accounts, nextUser, scarred>>
  BY DEF CheckName, CheckDomains, Insert, Fetch, Load, Share, Vhost, DropRow, DropTree, FindUser,
    DeleteFails, Unserve, RemoveTree, DeleteRow, keys, ghosts, Resting, Handling
<1>2. Alike
  BY <1>0, <1>1 DEF Alike
<1>3. SUFFICES Current(req[r])'
  BY <1>1, <1>2, AlikeAfter
<1>4. CASE CheckName(r)
  <2>1. CASE Finish(r, "failed")
    BY <1>0, <2>1, Moves, NothingRead DEF Resting, Reading
  <2>2. CASE Goto(r, "account") /\ ~Taken(was.name)
    <3>1. new.pc = "account" /\ new.name = was.name
      BY <1>0, <2>2, GotoKeeps
    <3> QED BY <1>0, <1>2, <2>2, <3>1, AlikeSound DEF Current
  <2> QED BY <1>4, <2>1, <2>2 DEF CheckName
<1>5. CASE CheckDomains(r)
  <2>1. new.pc \in {"insert", "fetch", "findUser", "failed"}
    BY <1>0, <1>5, Moves DEF CheckDomains, Phases, Resting
  <2> QED BY <2>1, NothingRead DEF Reading
<1>6. CASE Insert(r)
  <2>1. CASE Refuse(r)
    BY <1>0, <2>1, Moves, NothingRead DEF Reading
  <2>2. CASE ~Refuse(r)
    <3> DEFINE row == [home |-> was.home, domains |-> was.domains, user |-> was.uid]
    <3>1. req' = [req EXCEPT ![r].pc = "load", ![r].site = nextSite,
                             ![r].row = [row EXCEPT !.domains = {}]]
      BY <1>6, <2>2 DEF Insert
    <3>2. was.owner = None
      BY <1>0, <1>6 DEF Insert, Holds, HoldsForm, Early
    <3>3. new.pc = "load" /\ new.owner = None
      BY <1>0, <3>1, <3>2 DEF RequestStates
    <3> QED BY <3>3 DEF Current
  <2> QED BY <2>1, <2>2
<1>7. CASE Fetch(r)
  <2>1. CASE GiveUp(r)
    BY <1>0, <2>1, Moves, NothingRead DEF Reading
  <2>2. CASE ~GiveUp(r)
    <3> DEFINE row == sites[was.site]
    <3>1. req' = [req EXCEPT ![r].pc = "store", ![r].row = row, ![r].owner = UserOf(row)]
      BY <1>7, <2>2 DEF Fetch
    <3> HIDE DEF row
    <3>2. new.pc = "store" /\ new.row = row /\ new.owner = UserOf(row)
      BY <1>0, <3>1 DEF RequestStates
    <3> QED BY <1>1, <3>2 DEF Current, UserOf
  <2> QED BY <2>1, <2>2
<1>8. CASE Load(r)
  <2> DEFINE row == sites[was.site]
  <2>1. CASE req' = [req EXCEPT ![r].pc = "home", ![r].row = row, ![r].owner = UserOf(row)]
    <3> HIDE DEF row
    <3>2. new.pc = "home" /\ new.row = row /\ new.owner = UserOf(row)
      BY <1>0, <2>1 DEF RequestStates
    <3> QED BY <1>1, <3>2 DEF Current, UserOf
  <2>2. CASE IF was.op \in {"create", "addDomain"} THEN Goto(r, "home") ELSE Finish(r, "ok")
    <3>1. CASE Finish(r, "ok")
      BY <1>0, <3>1, Moves, NothingRead DEF Resting, Reading
    <3>2. CASE was.op \in {"create", "addDomain"} /\ Goto(r, "home")
      <4>1. new.pc = "home" /\ new.row = was.row /\ new.owner = was.owner /\ was.pc = "load"
        BY <1>0, <1>8, <3>2, GotoKeeps DEF Load
      <4>2. was.owner = None \/ was.owner = UserOf(was.row)
        BY <1>0, <3>2, <4>1 DEF Current
      <4> QED BY <1>1, <4>1, <4>2 DEF Current, UserOf
    <3> QED BY <2>2, <3>1, <3>2
  <2> QED BY <1>8, <2>1, <2>2 DEF Load
<1>9. CASE FindUser(r)
  <2>1. CASE Finish(r, "failed")
    BY <1>0, <2>1, Moves, NothingRead DEF Resting, Reading
  <2>2. CASE ~Finish(r, "failed")
    <3> DEFINE u == users[was.uid]
    <3>1. u # None /\ req' = [req EXCEPT ![r].pc = "userdel", ![r].name = u.name]
      BY <1>9, <2>2 DEF FindUser
    <3>2. new.pc = "userdel" /\ new.name = users[was.uid].name /\ new.uid = was.uid
      BY <1>0, <3>1 DEF RequestStates
    <3> QED BY <1>1, <3>1, <3>2 DEF Current
  <2> QED BY <2>1, <2>2
<1>10. CASE Share(r) \/ Vhost(r) \/ DropRow(r) \/ DropTree(r) \/ DeleteFails(r) \/ Unserve(r)
            \/ RemoveTree(r) \/ DeleteRow(r)
  <2>1. new.pc \in {"vhost", "dropRow", "dropTree", "findUser", "removeTree", "deleteRow"}
                   \cup Resting
    BY <1>0, <1>10, Moves DEF Share, Vhost, DropRow, DropTree, DeleteFails, Unserve,
      RemoveTree, DeleteRow, Phases, Resting
  <2> QED BY <2>1, NothingRead DEF Reading, Resting
<1> QED BY <1>4, <1>5, <1>6, <1>7, <1>8, <1>9, <1>10

\* The whole row of a platform is saved with its owner's, which has not changed.
LEMMA StoreAccounts ==
  ASSUME AccountInv, NEW r \in Requests, Store(r)
  PROVE  AccountsAfter(r)
<1> DEFINE was == req[r]
           new == req'[r]
<1>0. TypeInv /\ was \in RequestStates /\ Holds(was.pc, was) /\ Current(was)
  BY InHand DEF AccountInv, SerialInv
<1>1. was.pc = "store" /\ was.row \in Site
  BY <1>0 DEF Store, Holds, HoldsRow, Placed, OnRow
<1>2. UNCHANGED <<users, accounts, nextUser, scarred>>
  <2>1. was.owner = None \/ was.owner = UserOf(was.row)
    BY <1>0, <1>1 DEF Current
  <2>2. was.owner # None => was.row.user \in UserIds /\ users[was.row.user] # None
    BY <1>0, <1>1, <2>1 DEF Holds, HoldsRow, Placed, OnRow, UserOf
  <2> QED BY <1>0, <2>2 DEF Store, keys, TypeInv, TablesOK
<1>3. Alike
  BY <1>0, <1>2 DEF Alike
<1>4. Current(req[r])'
  <2>1. CASE GiveUp(r)
    BY <1>0, <2>1, Moves, NothingRead DEF Reading
  <2>2. CASE ~GiveUp(r)
    <3> DEFINE step == IF was.op = "toggle" THEN "vhost" ELSE "load"
    <3>1. Goto(r, step)
      BY <2>2 DEF Store, Goto
    <3>2. new.pc = step /\ new.row = was.row /\ new.owner = was.owner
      BY <1>0, <3>1, GotoKeeps
    <3> QED BY <1>0, <1>1, <1>2, <3>2 DEF Current, UserOf
  <2> QED BY <2>1, <2>2
<1> QED BY <1>1, <1>3, <1>4, AlikeAfter DEF Resting, Handling

\* The owner's home is moved to the platform's, on the host and then in its row.
LEMMA HomeAccounts ==
  ASSUME AccountInv, NEW r \in Requests, Home(r)
  PROVE  AccountsAfter(r)
<1> DEFINE was == req[r]
           new == req'[r]
           o == was.owner
           home == was.row.home
           moves == o # None /\ o.home # home
<1>0. TypeInv /\ was \in RequestStates /\ Holds(was.pc, was) /\ Current(was)
      /\ req \in [Requests -> RequestStates]
  BY InHand DEF AccountInv, SerialInv, TypeInv, ReqsOK
<1>1. /\ was.pc = "home" /\ was.row \in Site /\ o \in User \cup {None} /\ home \in Domains
      /\ o # None => o.name \in Usernames
  BY <1>0, InHand, RowFacts DEF Home, Holds, HoldsRow, Placed, OnRow
<1>2. o = None \/ o = UserOf(was.row)
  BY <1>0, <1>1 DEF Current
<1>3. /\ users' = users /\ nextUser' = nextUser /\ scarred' = scarred
      /\ \/ accounts' = accounts
         \/ o # None /\ accounts[o.name] # None
            /\ accounts' = [accounts EXCEPT ![o.name].home = home]
  BY DEF Home, keys, ghosts
<1>4. Alike
  <2>1. \A n \in Usernames : accounts[n] # None => [accounts[n] EXCEPT !.home = home].locked = accounts[n].locked
    BY <1>0 DEF TypeInv, TablesOK, Account
  <2> QED BY <1>0, <1>1, <1>3, <2>1 DEF Alike, TypeInv, TablesOK
<1>5. Current(req[r])'
  <2>1. CASE Abandon(r)
    BY <1>0, <2>1, Moves, NothingRead DEF Reading
  <2>2. CASE Goto(r, "share")
    <3>1. new.pc = "share" /\ new.row = was.row /\ new.owner = o
      BY <1>0, <2>2, GotoKeeps
    <3> QED BY <1>2, <1>3, <3>1 DEF Current, UserOf
  <2>3. CASE moves /\ req' = [req EXCEPT ![r].pc = "saveOwner", ![r].owner.home = home]
    <3>1. new.pc = "saveOwner" /\ new.row = was.row /\ new.owner = [o EXCEPT !.home = home]
      BY <1>0, <2>3 DEF RequestStates
    <3>2. o # None /\ o = users[was.row.user]
      BY <1>2, <2>3 DEF UserOf
    <3> QED BY <1>3, <3>1, <3>2 DEF Current
  <2> QED BY <2>1, <2>2, <2>3 DEF Home
<1> QED BY <1>1, <1>4, <1>5, AlikeAfter DEF Resting, Handling
LEMMA SaveOwnerAccounts ==
  ASSUME AccountInv, NEW r \in Requests, SaveOwner(r)
  PROVE  AccountsAfter(r)
<1> DEFINE was == req[r]
           new == req'[r]
<1>0. TypeInv /\ was \in RequestStates /\ Holds(was.pc, was) /\ Current(was)
  BY InHand DEF AccountInv, SerialInv
<1>1. /\ was.pc = "saveOwner" /\ was.row \in Site /\ was.owner \in User /\ was.owner # None
      /\ was.row.user \in UserIds
  BY <1>0, NoneFacts DEF SaveOwner, Holds, HoldsRow, HoldsUser, Placed, OnRow
<1>2. /\ users[was.row.user] \in User /\ users[was.row.user] # None
      /\ was.owner = [users[was.row.user] EXCEPT !.home = was.row.home]
  BY <1>0, <1>1, RowFacts DEF Current
<1>3. was.owner.name = users[was.row.user].name /\ was.owner.active = users[was.row.user].active
  BY <1>2 DEF User
<1>4. /\ accounts' = accounts /\ nextUser' = nextUser /\ scarred \subseteq scarred'
      /\ users' = users \/ users' = [users EXCEPT ![was.row.user] = was.owner]
  BY DEF SaveOwner, keys, ghosts
<1>5. Alike
  BY <1>0, <1>1, <1>2, <1>3, <1>4 DEF Alike, TypeInv, TablesOK
<1>6. Current(req[r])'
  <2>1. CASE Abandon(r)
    BY <1>0, <2>1, Moves, NothingRead DEF Reading
  <2>2. CASE Goto(r, "share") /\ users' = [users EXCEPT ![was.row.user] = was.owner]
    <3>1. new.pc = "share" /\ new.row = was.row /\ new.owner = was.owner
      BY <1>0, <2>2, GotoKeeps
    <3>2. UserOf(was.row)' = was.owner
      <4>1. users'[was.row.user] = was.owner /\ was.row.user # None
        BY <1>0, <1>1, <2>2, NoneFacts DEF TypeInv, TablesOK
      <4> QED BY <3>1, <4>1 DEF UserOf
    <3> QED BY <3>1, <3>2 DEF Current
  <2> QED BY <2>1, <2>2 DEF SaveOwner
<1> QED BY <1>1, <1>5, <1>6, AlikeAfter DEF Resting, Handling

-----------------------------------------------------------------------------
\* A user of one name comes, or goes with the account of that name gone.
LEMMA OtherNames ==
  ASSUME TypeInv, OneName, NEW n \in Usernames, NEW m \in Usernames, m # n, Sound(m),
         m \in scarred => m \in scarred', accounts'[m] = accounts[m],
         \A u \in UserIds :
           \/ users'[u] = users[u]
           \/ (users[u] = None \/ users[u].name = n) /\ (users'[u] = None \/ users'[u].name = n)
  PROVE  Sound(m)'
<1>1. Taken(m) => Taken(m)'
  BY DEF Taken
<1> QED BY <1>1 DEF Sound

\* The account is made before its user, and undone when there is none to be.
LEMMA CreateAccounts ==
  ASSUME AccountInv, TypeInv', NEW r \in Requests,
         MakeAccount(r) \/ SaveUser(r) \/ UndoAccount(r)
  PROVE  AccountsAfter(r)
<1> DEFINE was == req[r]
           new == req'[r]
<1>0. TypeInv /\ OneName /\ was \in RequestStates /\ Holds(was.pc, was) /\ Current(was)
      /\ req \in [Requests -> RequestStates]
  BY InHand DEF AccountInv, SerialInv, TypeInv, ReqsOK
<1>1. PICK n \in Usernames :
        /\ was.pc \in {"account", "saveUser", "undoAccount"} /\ n = was.name /\ ~Taken(n)
        /\ was.owner = None
  BY <1>0 DEF MakeAccount, SaveUser, UndoAccount, Holds, HoldsForm, Naming, Early, Current
<1>2. \A m \in Usernames : m # n => Sound(m)
  BY <1>1, AccountFocus, OthersRest DEF HasInHand, Resting
<1>3. CASE MakeAccount(r)
  <2>1. /\ users' = users /\ nextUser' = nextUser /\ scarred \subseteq scarred'
        /\ \A m \in Usernames : m # n => accounts'[m] = accounts[m]
    BY <1>0, <1>1, <1>3 DEF MakeAccount, keys, TypeInv, TablesOK
  <2>2. OneName' /\ \A m \in Usernames : m # n => Sound(m)'
    BY <1>0, <1>1, <1>2, <2>1, OtherNames DEF OneName
  <2>3. CASE Finish(r, "failed") /\ scarred' = scarred \cup {n}
    <3>1. Sound(n)'
      BY <2>3 DEF Sound
    <3>2. Current(req[r])'
      BY <1>0, <2>3, Moves, NothingRead DEF Resting, Reading
    <3> QED BY <2>2, <3>1, <3>2 DEF AccountsAfter
  <2>4. CASE Goto(r, "saveUser")
    <3>1. new.pc = "saveUser" /\ new.name = n
      BY <1>0, <1>1, <2>4, GotoKeeps
    <3>2. Current(req[r])'
      BY <1>1, <2>1, <3>1 DEF Current, Taken
    <3> QED BY <2>2, <3>1, <3>2 DEF AccountsAfter, HasInHand, Handling
  <2> QED BY <1>1, <1>3, <2>3, <2>4 DEF MakeAccount
<1>4. CASE SaveUser(r)
  <2>0. was.pc = "saveUser" /\ accounts' = accounts /\ scarred' = scarred
    BY <1>4 DEF SaveUser, ghosts
  <2>1. CASE Unsaved(r) /\ users' = users /\ nextUser' = nextUser
    <3>1. new.pc = "undoAccount" /\ new.name = n
      BY <1>0, <1>1, <2>1, GotoKeeps DEF Unsaved
    <3>2. Current(req[r])'
      BY <1>1, <2>1, <3>1 DEF Current, Taken
    <3>3. OneName' /\ \A m \in Usernames : m # n => Sound(m)'
      BY <1>0, <1>1, <1>2, <2>0, <2>1, OtherNames DEF OneName
    <3> QED BY <3>1, <3>2, <3>3 DEF AccountsAfter, HasInHand, Handling
  <2>2. CASE ~(Unsaved(r) /\ users' = users /\ nextUser' = nextUser)
    <3> DEFINE user == [name |-> n, home |-> was.home, site |-> was.site, active |-> TRUE]
               step == IF was.op = "create" THEN "domains" ELSE "load"
    <3>1. /\ nextUser \in UserIds /\ users' = [users EXCEPT ![nextUser] = user]
          /\ nextUser' = nextUser + 1
          /\ req' = [req EXCEPT ![r].pc = step, ![r].uid = nextUser, ![r].made = TRUE]
      BY <1>1, <1>4, <2>2 DEF SaveUser
    <3>2. users[nextUser] = None /\ user.name = n /\ user.active /\ user # None
      <4>1. users[nextUser] = None
        BY <1>0, <3>1, PlatformsAssumption DEF OneName, UserIds
      <4>2. was.home \in Domains /\ was.site \in Ids \cup {None}
        BY <1>0, <2>0, InHand DEF Holds, HoldsForm, Naming
      <4>3. user \in User
        BY <1>1, <4>2 DEF User
      <4> QED BY <4>1, <4>3, NoneFacts
    <3> HIDE DEF user
    <3>3. \A u \in UserIds : /\ u # nextUser => users'[u] = users[u]
                             /\ u = nextUser => users'[u] = user
      BY <1>0, <3>1 DEF TypeInv, TablesOK
    <3>4. OneName'
      BY <1>0, <1>1, <3>1, <3>2, <3>3, PlatformsAssumption DEF OneName, Taken, UserIds
    <3>5. \A m \in Usernames : m # n => Sound(m)'
      BY <1>0, <1>1, <1>2, <2>0, <3>2, <3>3, OtherNames
    <3>6. Sound(n)'
      BY <1>1, <3>1, <3>2, <3>3 DEF Sound, Taken
    <3>7. new.pc = step /\ new.op = was.op /\ new.owner = None
      BY <1>0, <1>1, <3>1 DEF RequestStates
    <3>8. Current(req[r])'
      BY <3>7 DEF Current
    <3> QED BY <3>4, <3>5, <3>6, <3>8 DEF AccountsAfter
  <2> QED BY <2>1, <2>2
<1>5. CASE UndoAccount(r)
  <2>1. /\ users' = users /\ nextUser' = nextUser /\ Finish(r, "failed")
        /\ scarred \ {n} \subseteq scarred'
        /\ \A m \in Usernames : m # n => accounts'[m] = accounts[m]
        /\ accounts'[n] = None \/ n \in scarred'
    BY <1>0, <1>1, <1>5 DEF UndoAccount, keys, Userdel, TypeInv, TablesOK
  <2>2. OneName' /\ \A m \in Usernames : m # n => Sound(m)'
    BY <1>0, <1>1, <1>2, <2>1, OtherNames DEF OneName
  <2>3. Sound(n)'
    BY <1>1, <2>1 DEF Sound, Taken
  <2>4. Current(req[r])'
    BY <1>0, <2>1, Moves, NothingRead DEF Resting, Reading
  <2> QED BY <2>2, <2>3, <2>4 DEF AccountsAfter
<1> QED BY <1>3, <1>4, <1>5

\* The account of a user goes before its row.
LEMMA DeleteAccounts ==
  ASSUME AccountInv, TypeInv', NEW r \in Requests,
         DeleteAccount(r) \/ ScopedUser(r)
  PROVE  AccountsAfter(r)
<1> DEFINE was == req[r]
           new == req'[r]
<1>0. TypeInv /\ OneName /\ was \in RequestStates /\ Holds(was.pc, was) /\ Current(was)
      /\ req \in [Requests -> RequestStates]
  BY InHand DEF AccountInv, SerialInv, TypeInv, ReqsOK
<1>1. CASE DeleteAccount(r)
  <2>1. /\ was.pc = "userdel" /\ was.name \in Usernames /\ users' = users
        /\ nextUser' = nextUser /\ scarred' = scarred
    BY <1>0, <1>1 DEF DeleteAccount, Holds, HoldsUser, OnName, keys, ghosts
  <2>2. CASE Finish(r, "failed") /\ accounts' = accounts
    <3>1. Alike
      BY <1>0, <2>1, <2>2 DEF Alike
    <3>2. Current(req[r])'
      BY <1>0, <2>2, Moves, NothingRead DEF Resting, Reading
    <3> QED BY <2>1, <3>1, <3>2, AlikeAfter DEF Resting, Handling
  <2>3. CASE Userdel(was.name) /\ Goto(r, "userRow")
    <3>1. accounts' = [accounts EXCEPT ![was.name] = None]
      BY <2>3 DEF Userdel
    <3>2. Alike
      BY <1>0, <2>1, <3>1 DEF Alike, TypeInv, TablesOK
    <3>3. new.pc = "userRow" /\ new.name = was.name /\ new.uid = was.uid
      BY <1>0, <2>3, GotoKeeps
    <3>4. Current(req[r])'
      BY <1>0, <2>1, <3>1, <3>3 DEF Current, TypeInv, TablesOK
    <3> QED BY <2>1, <3>2, <3>4, AlikeAfter DEF Resting, Handling
  <2> QED BY <1>1, <2>2, <2>3 DEF DeleteAccount
<1>2. CASE ScopedUser(r)
  <2>1. was.pc = "scoped" /\ users' = users /\ nextUser' = nextUser
    BY <1>2 DEF ScopedUser, keys
  <2>2. ASSUME NEW u \in UserIds, req' = [req EXCEPT ![r].left = @ \ {u}],
               UNCHANGED <<accounts, trees, ghosts>>
        PROVE  AccountsAfter(r)
    <3>1. Alike
      BY <1>0, <2>1, <2>2 DEF Alike, ghosts
    <3>2. new.pc = "scoped"
      BY <1>0, <2>1, <2>2 DEF RequestStates
    <3> QED BY <2>1, <3>1, <3>2, NothingRead, AlikeAfter DEF Resting, Handling, Reading
  <2>3. ASSUME NEW u \in UserIds, users[u] # None,
               req' = [req EXCEPT ![r].pc = "scopedRow", ![r].uid = u,
                                  ![r].name = users[u].name, ![r].left = @ \ {u}],
               \/ accounts' = [accounts EXCEPT ![users[u].name] = None] /\ scarred' = scarred
               \/ accounts' = accounts /\ accounts[users[u].name] = None /\ scarred' = scarred
               \/ accounts' = accounts /\ scarred' = scarred \cup {users[u].name}
        PROVE  AccountsAfter(r)
    <3>1. users[u].name \in Usernames
      BY <1>0, <2>3, RowFacts
    <3>2. Alike
      BY <1>0, <2>1, <2>3, <3>1 DEF Alike, TypeInv, TablesOK
    <3>3. new.pc = "scopedRow" /\ new.uid = u /\ new.name = users[u].name
      BY <1>0, <2>3 DEF RequestStates
    <3>4. accounts'[users[u].name] = None \/ users[u].name \in scarred'
      BY <1>0, <2>3, <3>1 DEF TypeInv, TablesOK
    <3>5. Current(req[r])'
      BY <2>1, <2>3, <3>3, <3>4 DEF Current
    <3> QED BY <2>1, <3>2, <3>5, AlikeAfter DEF Resting, Handling
  <2>4. ASSUME NEW u \in was.left PROVE u \in UserIds
    BY <2>4, InHand, <1>0
  <2> QED BY <1>2, <2>2, <2>3, <2>4 DEF ScopedUser, Userdel, ghosts
<1> QED BY <1>1, <1>2
LEMMA DeleteUserRows ==
  ASSUME AccountInv, TypeInv', NEW r \in Requests,
         DeleteUserRow(r) \/ ScopedUserRow(r)
  PROVE  AccountsAfter(r)
<1> DEFINE was == req[r]
           new == req'[r]
<1>0. TypeInv /\ OneName /\ was \in RequestStates /\ Holds(was.pc, was) /\ Current(was)
  BY InHand DEF AccountInv, SerialInv
<1>1. PICK n \in Usernames :
        /\ was.pc \in {"userRow", "scopedRow"} /\ was.uid \in UserIds /\ n = was.name
        /\ users[was.uid] # None /\ users[was.uid].name = n
        /\ accounts[n] = None \/ n \in scarred
  BY <1>0 DEF DeleteUserRow, ScopedUserRow, Holds, HoldsUser, OnName, OnUser, Current
<1>2. \A m \in Usernames : Sound(m)
  BY <1>1, AccountFocus, OthersRest DEF Handling, Resting
<1>3. accounts' = accounts /\ nextUser' = nextUser /\ scarred \subseteq scarred'
  BY DEF DeleteUserRow, ScopedUserRow, keys, ghosts
<1>4. CASE WithoutUser(was.uid)
  <2>1. users' = [users EXCEPT ![was.uid] = None]
    BY <1>4 DEF WithoutUser
  <2>2. OneName'
    BY <1>0, <1>1, <1>3, <2>1 DEF OneName, TypeInv, TablesOK
  <2>3. \A m \in Usernames : m # n => Sound(m)'
    BY <1>0, <1>1, <1>2, <1>3, <2>1, OtherNames DEF TypeInv, TablesOK
  <2>4. ~Taken(n)'
    BY <1>0, <1>1, <2>1 DEF OneName, Taken, TypeInv, TablesOK
  <2>5. Sound(n)'
    BY <1>1, <1>3, <2>4 DEF Sound, Taken
  <2>6. Current(req[r])'
    <3>1. CASE was.op = "deleteUser" /\ was.pc = "userRow" /\ Goto(r, "load")
      <4>1. new.pc = "load" /\ new.op = "deleteUser"
        BY <1>0, <3>1, GotoKeeps
      <4> QED BY <4>1 DEF Current
    <3>2. CASE Finish(r, "failed") \/ Goto(r, "scoped") \/ GiveUp(r)
      <4>1. new.pc \in {"failed", "scoped"}
        BY <1>0, <3>2, Moves DEF Resting, Phases
      <4> QED BY <4>1, NothingRead DEF Reading
    <3> QED BY <3>1, <3>2 DEF DeleteUserRow, ScopedUserRow
  <2> QED BY <2>2, <2>3, <2>5, <2>6 DEF AccountsAfter
<1>5. CASE users' = users /\ (Finish(r, "failed") \/ GiveUp(r))
  <2>1. Alike
    BY <1>0, <1>3, <1>5 DEF Alike
  <2>2. Current(req[r])'
    BY <1>0, <1>5, Moves, NothingRead DEF Reading, Resting
  <2> QED BY <1>1, <2>1, <2>2, AlikeAfter DEF Resting, Handling
<1> QED BY <1>4, <1>5 DEF DeleteUserRow, ScopedUserRow

-----------------------------------------------------------------------------
\* A command on the account of a user sets its lock, and the handler saves the row next.
LEMMA LockAccounts ==
  ASSUME AccountInv, NEW r \in Requests,
         SetPassword(r) \/ Relock(r) \/ SetActive(r)
  PROVE  AccountsAfter(r)
<1> DEFINE was == req[r]
           new == req'[r]
           o == was.owner
           next == IF was.pc = "chpasswd" /\ ~o.active THEN "relock" ELSE "stamp"
           on == IF was.pc = "chpasswd" THEN FALSE
                 ELSE IF was.pc = "relock" THEN TRUE ELSE ~o.active
<1>0. TypeInv /\ OneName /\ was \in RequestStates /\ Holds(was.pc, was) /\ Current(was)
  BY InHand DEF AccountInv, SerialInv
<1>1. PICK n \in Usernames :
        /\ was.pc \in {"chpasswd", "relock", "setLock"} /\ n = was.name /\ o \in User
        /\ was.uid \in UserIds
        /\ users[was.uid] # None /\ users[was.uid].name = n /\ o.name = n
  BY <1>0 DEF SetPassword, Relock, SetActive, Holds, HoldsUser, OnName, OnUser, Current
<1>2. \A m \in Usernames : m # n => Sound(m)
  BY <1>1, AccountFocus, OthersRest DEF HasInHand, Resting
<1>3. SetLockThen(r, on, next) /\ users' = users /\ nextUser' = nextUser
      /\ o.active \in BOOLEAN /\ on \in BOOLEAN
  BY <1>1 DEF SetPassword, Relock, SetActive, AfterPassword, keys, User
<1>4. /\ \A m \in Usernames : m # n => accounts'[m] = accounts[m]
      /\ scarred \subseteq scarred'
  BY <1>0, <1>1, <1>3 DEF SetLockThen, Lock, TypeInv, TablesOK
<1>5. OneName' /\ \A m \in Usernames : m # n => Sound(m)'
  BY <1>0, <1>1, <1>2, <1>3, <1>4, OtherNames DEF OneName
<1>6. CASE accounts[n] # None /\ Lock(n, on) /\ Goto(r, next)
  <2>1. next \in {"relock", "stamp"}
    OBVIOUS
  <2>2. /\ new.pc = next /\ new.name = was.name /\ new.uid = was.uid /\ new.owner = o
    <3> HIDE DEF next
    <3> QED BY <1>0, <1>6, GotoKeeps
  <2>3. accounts'[n] # None /\ accounts'[n].locked = on
    <3>1. accounts[n] \in Account /\ accounts'[n] = [accounts[n] EXCEPT !.locked = on]
      BY <1>0, <1>6 DEF Lock, TypeInv, TablesOK
    <3> HIDE DEF on
    <3>2. accounts'[n] \in Account /\ accounts'[n].locked = on
      BY <1>3, <3>1 DEF Account
    <3> QED BY <3>2, NoneFacts
  <2>4. was.pc \in {"chpasswd", "relock"} => o = users[was.uid]
    BY <1>0 DEF Current
  <2>5. was.pc = "relock" => ~o.active
    BY <1>0 DEF Current
  <2>6. Current(req[r])'
    BY <1>1, <1>3, <2>2, <2>3, <2>4, <2>5 DEF Current
  <2> QED BY <1>1, <1>5, <2>1, <2>2, <2>6 DEF AccountsAfter, HasInHand, Handling
<1>7. CASE /\ Finish(r, "failed")
           /\ \/ accounts[n] = None /\ accounts' = accounts /\ scarred' = scarred
              \/ n \in scarred'
  <2>1. Sound(n)'
    <3>1. CASE n \in scarred'
      BY <3>1 DEF Sound
    <3>2. CASE accounts'[n] = None
      BY <3>2 DEF Sound
    <3> QED BY <1>7, <3>1, <3>2
  <2>2. Current(req[r])'
    BY <1>0, <1>7, Moves, NothingRead DEF Resting, Reading
  <2> QED BY <1>5, <2>1, <2>2 DEF AccountsAfter
<1> QED
  <2> HIDE DEF on, next
  <2> QED BY <1>1, <1>3, <1>6, <1>7 DEF SetLockThen

\* The row is saved as it was read, so that it says of the account what was done to it.
LEMMA StampAccounts ==
  ASSUME AccountInv, NEW r \in Requests, Stamp(r)
  PROVE  AccountsAfter(r)
<1> DEFINE was == req[r]
           o == was.owner
<1>0. TypeInv /\ OneName /\ was \in RequestStates /\ Holds(was.pc, was) /\ Current(was)
  BY InHand DEF AccountInv, SerialInv
<1>1. PICK n \in Usernames, u \in UserIds :
        /\ was.pc = "stamp" /\ n = was.name /\ u = was.uid /\ o \in User /\ o # None
        /\ users[u] # None /\ users[u].name = n /\ o.name = n
        /\ accounts[n] # None /\ (~o.active => accounts[n].locked)
  BY <1>0, NoneFacts DEF Stamp, Holds, HoldsUser, OnName, OnUser, Current
<1>2. \A m \in Usernames : m # n => Sound(m)
  BY <1>1, AccountFocus, OthersRest DEF HasInHand, Resting
<1>3. accounts' = accounts /\ nextUser' = nextUser /\ (Finish(r, "ok") \/ Finish(r, "failed"))
      /\ scarred \subseteq scarred'
  BY DEF Stamp, keys
<1>4. Current(req[r])'
  BY <1>0, <1>3, Moves, NothingRead DEF Resting, Reading
<1>5. CASE users' = [users EXCEPT ![u] = o]
  <2>1. OneName'
    BY <1>0, <1>1, <1>3, <1>5 DEF OneName, TypeInv, TablesOK
  <2>2. \A m \in Usernames : m # n => Sound(m)'
    BY <1>0, <1>1, <1>2, <1>3, <1>5, OtherNames DEF TypeInv, TablesOK
  <2>3. users'[u] = o /\ \A v \in UserIds \ {u} : users'[v] = users[v]
    BY <1>0, <1>5 DEF TypeInv, TablesOK
  <2>4. Taken(n)'
    BY <1>1, <2>3 DEF Taken
  <2>5. \A v \in UserIds : users'[v] # None /\ users'[v].name = n => v = u
    BY <1>0, <1>1, <2>3 DEF OneName
  <2>6. Sound(n)'
    BY <1>1, <1>3, <2>3, <2>4, <2>5 DEF Sound
  <2> QED BY <1>4, <2>1, <2>2, <2>6 DEF AccountsAfter
<1>6. CASE users' = users /\ n \in scarred'
  <2>1. OneName' /\ \A m \in Usernames : m # n => Sound(m)'
    BY <1>0, <1>1, <1>2, <1>3, <1>6, OtherNames DEF OneName
  <2>2. Sound(n)'
    BY <1>6 DEF Sound
  <2> QED BY <1>4, <2>1, <2>2 DEF AccountsAfter
<1> QED BY <1>1, <1>5, <1>6 DEF Stamp

-----------------------------------------------------------------------------
LEMMA InitAccounts == Init => AccountInv
<1> SUFFICES ASSUME Init PROVE AccountInv
  OBVIOUS
<1>1. \A r \in Requests : req[r].pc = "idle"
  BY DEF Init, NoReq
<1>2. OneName /\ \A n \in Usernames : Sound(n)
  BY DEF Init, OneName, Sound, Taken
<1>3. \A r \in Requests : Current(req[r])
  BY <1>1 DEF Current
<1> QED BY <1>2, <1>3, InitSerial DEF AccountInv

LEMMA NextAccounts ==
  ASSUME ~Overlapping
  PROVE  AccountInv /\ [Next]_vars => AccountInv'
<1> SUFFICES ASSUME AccountInv, [Next]_vars PROVE AccountInv'
  OBVIOUS
<1>1. SerialInv' /\ TypeInv'
  BY NextSerial DEF AccountInv, SerialInv
<1>2. CASE UNCHANGED vars
  <2>1. UNCHANGED <<users, accounts, nextUser, scarred, req>>
    BY <1>2 DEF vars, keys, ghosts
  <2>2. OneName' /\ (\A n : Taken(n)' <=> Taken(n)) /\ (\A n \in Usernames : Sound(n) => Sound(n)')
    BY <2>1 DEF AccountInv, OneName, Sound, Taken
  <2>3. (\A r \in Requests : Current(req[r]))'
    BY <2>1, <2>2 DEF AccountInv, Current, UserOf
  <2> QED BY <1>1, <2>1, <2>2, <2>3 DEF AccountInv
<1>3. CASE Crash
  <2>1. /\ UNCHANGED <<users, accounts, nextUser>> /\ scarred \subseteq scarred'
        /\ \A r \in Requests : req[r].name \in scarred' \cup {None} /\ req'[r].pc = "idle"
    BY <1>3 DEF Crash, NoReq, keys
  <2>2. Alike /\ TypeInv
    BY <2>1 DEF Alike, AccountInv, SerialInv, TypeInv, TablesOK
  <2>3. \A n \in Usernames : Sound(n)'
    <3> SUFFICES ASSUME NEW n \in Usernames PROVE Sound(n)'
      OBVIOUS
    <3>1. CASE Sound(n)
      BY <2>2, <3>1, AlikeSound
    <3>2. CASE \E r \in Requests : HasInHand(req[r], n)
      BY <2>1, <3>2, NoneFacts DEF HasInHand, Sound
    <3> QED BY <3>1, <3>2 DEF AccountInv
  <2>4. (\A r \in Requests : Current(req[r]))'
    BY <2>1 DEF Current
  <2> QED BY <1>1, <2>2, <2>3, <2>4, AlikeSound DEF AccountInv
<1>4. ASSUME NEW r \in Requests, Begin(r) PROVE AccountInv'
  <2>1. /\ \A q \in Requests \ {r} : req[q].pc \in Resting /\ req'[q] = req[q]
        /\ AccountsAfter(r)
    BY <1>4, BeginAccounts
  <2> QED BY <1>1, <2>1, OneCurrent
<1>5. ASSUME NEW r \in Requests, Step(r) PROVE AccountInv'
  <2>1. req[r].pc \notin Resting /\ \A q \in Requests \ {r} : req'[q] = req[q]
    BY <1>5, OneStep DEF OneMoves, AccountInv, SerialInv
  <2>2. AccountsAfter(r)
    BY <1>1, <1>5, ReadingSteps, StoreAccounts, HomeAccounts, SaveOwnerAccounts, CreateAccounts,
      DeleteAccounts, DeleteUserRows, LockAccounts, StampAccounts DEF Step
  <2> QED BY <1>1, <2>1, <2>2, OthersRest, OneCurrent
<1> QED BY <1>2, <1>3, <1>4, <1>5 DEF Next

\* Every account the panel made belongs to a user of it, and no disabled user can log in,
\* as long as operators take turns: SiteUserService writes the row after the account on
\* every path, and what a failure or a crash leaves out of step is known to be so.
THEOREM SerialAccountsMatchUsers ==
  ASSUME ~Overlapping
  PROVE  Spec => []AccountsMatchUsers
<1>1. AccountInv => AccountsMatchUsers
  <2> SUFFICES ASSUME AccountInv PROVE AccountsMatchUsers
    OBVIOUS
  <2>1. \A n \in Usernames : Sound(n) \/ Using(n)
    BY DEF AccountInv, HasInHand, Using
  <2>2. \A u \in UserIds : users[u] # None => users[u].name \in Usernames
    BY RowFacts DEF AccountInv, SerialInv
  <2> QED BY <2>1, <2>2 DEF AccountsMatchUsers, Sound
<1> QED BY <1>1, InitAccounts, NextAccounts, PTL DEF Spec

-----------------------------------------------------------------------------
(***************************************************************************)
(* The virtual hosts, when operators take turns and every domain has a     *)
(* configuration name of its own.  From the moment the row of a platform   *)
(* changes, or is read back, a handler is to serve it; a handler that gives *)
(* up leaves the platform behind.                                          *)
(***************************************************************************)

OwnNames == \A d, e \in Domains : NameOf[d] = NameOf[e] => d = e

File(i) == vhosts[NameOf[sites[i].home]]
\* The home of a platform is one of its domains, and no key to come is in use.
Rooted == \A i \in Known : sites[i].home \in sites[i].domains /\ i < nextSite
\* Every virtual host answers for domains of one platform, whose file it is.
Answers ==
  \A n \in Names : vhosts[n] # {} =>
    \E i \in Known : NameOf[sites[i].home] = n /\ vhosts[n] \subseteq sites[i].domains
UpToDate(i) == File(i) = sites[i].domains \/ i \in behind
Changing == {"load", "home", "saveOwner", "share", "vhost", "dropRow", "removeTree", "deleteRow"}
IsServing(q, i) == q.site = i /\ q.pc \in Changing

\* The row a handler holds, and the file of its platform, at each step.
AtRow(q) == q.site \in Known /\ q.row.home = sites[q.site].home
Applying == {"home", "saveOwner", "share", "vhost"}
Removing == {"removeTree", "deleteRow"}
Served(q) ==
  /\ q.pc \in Early /\ q.op = "create" => q.home \in q.domains
  /\ q.pc = "fetch" => q.op = "addDomain"
  /\ q.pc \in {"domains", "fetch"} /\ q.op = "addDomain" =>
       q.site \in Known /\ sites[q.site].domains \subseteq q.domains
  /\ q.pc = "store" => /\ AtRow(q) /\ q.op \in {"toggle", "addDomain"}
                       /\ q.row.domains = sites[q.site].domains
                       /\ q.row.domains \subseteq q.domains
                       /\ q.op = "toggle" => q.domains = q.row.domains
  /\ q.pc \in Applying \/ (q.pc = "load" /\ q.op \in {"create", "addDomain"}) =>
       AtRow(q) /\ q.row.domains \subseteq sites[q.site].domains
  /\ q.pc \in Applying => q.row.domains = sites[q.site].domains \/ q.site \in behind
  /\ q.pc = "dropRow" => q.op = "create"
  /\ q.pc \in Changing /\ q.op = "create" => q.site \in Known /\ File(q.site) = {}
  /\ q.pc \in {"scoped", "scopedRow"} \cup Removing => q.op = "delete" /\ AtRow(q)
  /\ q.pc \in Removing => File(q.site) = {}

VhostInv ==
  /\ SerialInv /\ Rooted /\ Answers
  /\ \A i \in Known : UpToDate(i) \/ \E r \in Requests : IsServing(req[r], i)
  /\ \A r \in Requests : Served(req[r])
\* The same after a step of one request.
VhostsAfter(r) ==
  /\ Rooted' /\ Answers' /\ Served(req[r])'
  /\ \A i \in Ids : sites'[i] # None => UpToDate(i)' \/ IsServing(req'[r], i)


LEMMA VhostFocus ==
  ASSUME VhostInv, NEW r \in Requests, \A q \in Requests \ {r} : req[q].pc \in Resting
  PROVE  /\ TypeInv /\ DomainsOwned /\ Rooted /\ Answers /\ Fresh(req[r]) /\ Served(req[r])
         /\ \A i \in Known : UpToDate(i) \/ IsServing(req[r], i)
         /\ req[r].pc \notin Changing => \A i \in Known : UpToDate(i)
BY DEF VhostInv, SerialInv, IsServing, Changing, Resting

LEMMA OneServed ==
  ASSUME VhostInv, SerialInv', NEW r \in Requests, VhostsAfter(r),
         \A q \in Requests \ {r} : req[q].pc \in Resting /\ req'[q] = req[q]
  PROVE  VhostInv'
<1>1. ASSUME NEW q \in Requests \ {r} PROVE Served(req[q])'
  <2>1. req'[q].pc \in Resting
    OBVIOUS
  <2> QED BY <2>1 DEF Served, Resting, Early, Naming, Applying, Changing, Removing
<1>2. (\A q \in Requests : Served(req[q]))'
  BY <1>1 DEF VhostsAfter
<1>3. (\A i \in Known : UpToDate(i) \/ \E q \in Requests : IsServing(req[q], i))'
  BY DEF VhostsAfter, Known
<1> QED BY <1>2, <1>3 DEF VhostInv, VhostsAfter

\* The steps at which a handler has nothing to serve.
Serving == Early \cup {"fetch", "store", "scoped", "scopedRow"} \cup Changing
LEMMA NothingServed ==
  ASSUME NEW r \in Requests, req'[r].pc \notin Serving
  PROVE  Served(req[r])'
BY DEF Served, Serving, Early, Naming, Applying, Changing, Removing

\* Two platforms have two homes, and two files.
LEMMA OwnFiles ==
  ASSUME OwnNames, TypeInv, DomainsOwned, Rooted, NEW i \in Known, NEW j \in Known
  PROVE  NameOf[sites[i].home] = NameOf[sites[j].home] => i = j
<1>1. sites[i].home \in Domains /\ sites[j].home \in Domains
  BY RowFacts DEF Known
<1> QED BY <1>1 DEF OwnNames, DomainsOwned, Rooted
LEMMA FileFacts ==
  ASSUME OwnNames, TypeInv, DomainsOwned, Rooted, Answers, NEW i \in Known
  PROVE  /\ NameOf[sites[i].home] \in Names /\ File(i) \in SUBSET Domains
         /\ File(i) \subseteq sites[i].domains
<1>1. sites[i].home \in Domains
  BY RowFacts DEF Known
<1>2. NameOf[sites[i].home] \in Names /\ File(i) \in SUBSET Domains
  BY <1>1, NameFacts DEF File, TypeInv, TablesOK
<1>3. CASE File(i) # {}
  <2>1. PICK j \in Known : /\ NameOf[sites[j].home] = NameOf[sites[i].home]
                           /\ File(i) \subseteq sites[j].domains
    BY <1>2, <1>3 DEF Answers, File
  <2>2. j = i
    BY <2>1, OwnFiles
  <2> QED BY <1>2, <2>1, <2>2
<1> QED BY <1>2, <1>3

\* Platforms keep their homes, domains and files, and one more may be behind.
SitesAlike ==
  /\ nextSite' = nextSite /\ vhosts' = vhosts /\ behind \subseteq behind'
  /\ \A i \in Ids : /\ sites'[i] = None <=> sites[i] = None
                    /\ sites[i] # None => /\ sites'[i].home = sites[i].home
                                          /\ sites'[i].domains = sites[i].domains
LEMMA AlikeServed ==
  ASSUME SitesAlike
  PROVE  /\ Rooted => Rooted'
         /\ Answers => Answers'
         /\ \A i \in Known : (UpToDate(i) => UpToDate(i)') /\ File(i)' = File(i)
<1>1. Rooted => Rooted'
  BY DEF SitesAlike, Rooted, Known
<1>2. Answers => Answers'
  <2> SUFFICES ASSUME Answers, NEW n \in Names, vhosts'[n] # {}
               PROVE  \E i \in Ids : /\ sites'[i] # None /\ NameOf[sites'[i].home] = n
                                     /\ vhosts'[n] \subseteq sites'[i].domains
    BY DEF Answers, Known
  <2>1. PICK i \in Known : NameOf[sites[i].home] = n /\ vhosts[n] \subseteq sites[i].domains
    BY DEF Answers, SitesAlike
  <2> QED BY <2>1 DEF SitesAlike, Known
<1>3. \A i \in Known : (UpToDate(i) => UpToDate(i)') /\ File(i)' = File(i)
  BY DEF SitesAlike, UpToDate, File, Known
<1> QED BY <1>1, <1>2, <1>3

\* A handler with nothing to serve, or one that leaves the platform behind.
LEMMA AlikeVhosts ==
  ASSUME VhostInv, NEW r \in Requests, req[r].pc \notin Resting, SitesAlike, Served(req[r])',
         \/ req[r].pc \notin Changing
         \/ req[r].site \in behind' \cup {None}
         \/ req[r].site \notin Known
         \/ req'[r].site = req[r].site /\ req'[r].pc \in Changing
  PROVE  VhostsAfter(r)
<1>1. \A q \in Requests \ {r} : req[q].pc \in Resting
  BY DEF VhostInv, SerialInv, Turns
<1>2. /\ TypeInv /\ Rooted /\ Answers
      /\ \A i \in Known : UpToDate(i) \/ IsServing(req[r], i)
  BY <1>1, VhostFocus
<1>3. ASSUME NEW i \in Ids, sites'[i] # None PROVE UpToDate(i)' \/ IsServing(req'[r], i)
  <2>1. i \in Known
    BY <1>3 DEF SitesAlike, Known
  <2>2. CASE UpToDate(i)
    BY <2>1, <2>2, AlikeServed
  <2>3. CASE req[r].site = i /\ req[r].pc \in Changing
    <3>1. CASE i \in behind'
      BY <3>1 DEF UpToDate
    <3>2. CASE req'[r].site = i /\ req'[r].pc \in Changing
      BY <3>2 DEF IsServing
    <3> QED BY <2>1, <2>3, <3>1, <3>2, NoneFacts
  <2> QED BY <1>2, <2>1, <2>2, <2>3 DEF IsServing
<1> QED BY <1>2, <1>3, AlikeServed DEF VhostsAfter

\* The others are at rest while a handler takes a step.
LEMMA VhostView ==
  ASSUME VhostInv, NEW r \in Requests, req[r].pc \notin Resting
  PROVE  /\ TypeInv /\ DomainsOwned /\ Rooted /\ Answers /\ Fresh(req[r]) /\ Served(req[r])
         /\ \A i \in Known : UpToDate(i) \/ IsServing(req[r], i)
         /\ req[r].pc \notin Changing => \A i \in Known : UpToDate(i)
         /\ req \in [Requests -> RequestStates] /\ req[r] \in RequestStates
         /\ Holds(req[r].pc, req[r])
<1>1. \A q \in Requests \ {r} : req[q].pc \in Resting
  BY DEF VhostInv, SerialInv, Turns
<1>2. TypeInv
  BY DEF VhostInv, SerialInv
<1> QED BY <1>1, <1>2, VhostFocus, InHand DEF TypeInv, ReqsOK

\* A handler begins with the row it has just read.
LEMMA BeginVhosts ==
  ASSUME ~Overlapping, VhostInv, NEW r \in Requests, Begin(r)
  PROVE  /\ \A q \in Requests \ {r} : req[q].pc \in Resting /\ req'[q] = req[q]
         /\ VhostsAfter(r)
<1>1. /\ TypeInv /\ \A q \in Requests : req[q].pc \in Resting
      /\ \A q \in Requests \ {r} : req'[q] = req[q]
      /\ UNCHANGED <<sites, users, accounts, vhosts, keys, ghosts>>
      /\ Opening(req'[r])
  BY BeginOpens DEF VhostInv, SerialInv
<1>2. SitesAlike /\ Rooted /\ Answers /\ \A i \in Known : UpToDate(i)
  BY <1>1, VhostFocus DEF SitesAlike, Changing, Resting, keys, ghosts
<1>3. Served(req[r])'
  BY <1>1 DEF Served, Opening, AtRow, Known, Early, Naming, Applying, Changing, Removing
<1>4. \A i \in Ids : sites'[i] # None => UpToDate(i)'
  BY <1>1, <1>2, AlikeServed DEF Known
<1> QED BY <1>1, <1>2, <1>3, <1>4, AlikeServed DEF VhostsAfter

-----------------------------------------------------------------------------
\* Going on before the row is written keeps the form.
LEMMA FormKept ==
  ASSUME TypeInv, NEW r \in Requests, Served(req[r]), req[r].pc \in Early,
         NEW step \in Early \ {"domains"}, Goto(r, step)
  PROVE  Served(req[r])'
<1>1. /\ req'[r].pc = step /\ req'[r].op = req[r].op /\ req'[r].home = req[r].home
      /\ req'[r].domains = req[r].domains
  BY GotoKeeps
<1> QED BY <1>1 DEF Served, Early, Naming, Applying, Changing, Removing

\* A user that goes leaves the platforms with their homes and domains.
LEMMA WithoutAlike ==
  ASSUME TypeInv, NEW u, WithoutUser(u), nextSite' = nextSite, vhosts' = vhosts,
         behind \subseteq behind'
  PROVE  SitesAlike
<1>1. \A i \in Ids : sites[i] # None =>
        /\ [sites[i] EXCEPT !.user = None] # None
        /\ [sites[i] EXCEPT !.user = None].home = sites[i].home
        /\ [sites[i] EXCEPT !.user = None].domains = sites[i].domains
  <2>1. \A i \in Ids : sites[i] # None =>
          sites[i] \in Site /\ [sites[i] EXCEPT !.user = None] \in Site
    BY RowFacts DEF Site
  <2> QED BY <2>1, NoneFacts DEF Site
<1> QED BY <1>1 DEF WithoutUser, SitesAlike

\* The steps on users and accounts serve no platform.
LEMMA UserSteps ==
  ASSUME VhostInv, NEW r \in Requests,
         \/ CheckName(r) \/ MakeAccount(r) \/ SaveUser(r) \/ UndoAccount(r) \/ FindUser(r)
         \/ DeleteAccount(r) \/ DeleteUserRow(r) \/ SetPassword(r) \/ Relock(r) \/ SetActive(r)
         \/ Stamp(r)
  PROVE  VhostsAfter(r)
<1> DEFINE was == req[r]
           new == req'[r]
<1>1. /\ was.pc \in Naming \cup {"findUser", "userdel", "userRow", "chpasswd", "relock",
                                "setLock", "stamp"}
      /\ vhosts' = vhosts /\ nextSite' = nextSite /\ behind' = behind
  BY DEF CheckName, MakeAccount, SaveUser, UndoAccount, FindUser, DeleteAccount, DeleteUserRow,
    SetPassword, Relock, SetActive, Stamp, Naming, keys, ghosts
<1>2. was.pc \notin Resting /\ was.pc \notin Changing
  BY <1>1 DEF Resting, Changing, Naming
<1>3. TypeInv /\ Served(was) /\ was \in RequestStates /\ Holds(was.pc, was)
      /\ req \in [Requests -> RequestStates]
  BY <1>2, VhostView
<1>4. ASSUME sites' = sites PROVE SitesAlike
  BY <1>1, <1>4 DEF SitesAlike
<1>5. SUFFICES SitesAlike /\ Served(req[r])'
  BY <1>2, AlikeVhosts
<1>6. CASE CheckName(r)
  <2>1. SitesAlike /\ (Goto(r, "account") \/ Finish(r, "failed")) /\ was.pc = "name"
    BY <1>4, <1>6 DEF CheckName
  <2>2. CASE Goto(r, "account")
    BY <1>3, <2>1, <2>2, FormKept DEF Early, Naming
  <2>3. CASE Finish(r, "failed")
    BY <1>3, <2>1, <2>3, Moves, NothingServed DEF Resting, Serving, Early, Naming, Changing
  <2> QED BY <2>1, <2>2, <2>3
<1>7. CASE MakeAccount(r)
  <2>1. SitesAlike /\ (Goto(r, "saveUser") \/ Finish(r, "failed")) /\ was.pc = "account"
    BY <1>4, <1>7 DEF MakeAccount
  <2>2. CASE Goto(r, "saveUser")
    BY <1>3, <2>1, <2>2, FormKept DEF Early, Naming
  <2>3. CASE Finish(r, "failed")
    BY <1>3, <2>1, <2>3, Moves, NothingServed DEF Resting, Serving, Early, Naming, Changing
  <2> QED BY <2>1, <2>2, <2>3
<1>8. CASE SaveUser(r)
  <2>1. SitesAlike /\ was.pc = "saveUser" /\ was.pc \in Naming
    BY <1>4, <1>8 DEF SaveUser, Naming
  <2>2. CASE Unsaved(r)
    BY <1>3, <2>1, <2>2, FormKept DEF Unsaved, Early, Naming
  <2>3. CASE ~Unsaved(r)
    <3> DEFINE step == IF was.op = "create" THEN "domains" ELSE "load"
    <3>1. req' = [req EXCEPT ![r].pc = step, ![r].uid = nextUser, ![r].made = TRUE]
      BY <1>8, <2>3 DEF SaveUser
    <3>2. /\ new.pc = step /\ new.op = was.op /\ new.home = was.home /\ new.domains = was.domains
      BY <1>3, <3>1 DEF RequestStates
    <3>3. was.op \in {"create", "addUser"}
      BY <1>3, <2>1 DEF Holds, HoldsForm
    <3>4. was.op = "create" => was.home \in was.domains
      BY <1>3, <2>1 DEF Served, Early
    <3> QED BY <2>1, <3>2, <3>3, <3>4 DEF Served, Early, Naming, Applying, Changing, Removing
  <2> QED BY <2>2, <2>3
<1>9. CASE DeleteUserRow(r)
  <2>1. SitesAlike
    <3>1. CASE WithoutUser(was.uid)
      BY <1>1, <1>3, <3>1, WithoutAlike
    <3>2. CASE sites' = sites
      BY <1>4, <3>2
    <3> QED BY <1>9, <3>1, <3>2 DEF DeleteUserRow
  <2>2. CASE was.op = "deleteUser" /\ Goto(r, "load")
    <3>1. new.pc = "load" /\ new.op = "deleteUser"
      BY <1>3, <2>2, GotoKeeps
    <3> QED BY <2>1, <3>1 DEF Served, Early, Naming, Applying, Removing
  <2>3. CASE Finish(r, "failed")
    BY <1>3, <2>1, <2>3, Moves, NothingServed DEF Resting, Serving, Early, Naming, Changing
  <2> QED BY <1>9, <2>2, <2>3 DEF DeleteUserRow
<1>10. CASE UndoAccount(r) \/ FindUser(r) \/ DeleteAccount(r) \/ SetPassword(r) \/ Relock(r)
            \/ SetActive(r) \/ Stamp(r)
  <2>1. SitesAlike
    BY <1>4, <1>10 DEF UndoAccount, FindUser, DeleteAccount, SetPassword, Relock, SetActive, Stamp
  <2>2. CASE UndoAccount(r) \/ DeleteAccount(r) \/ Stamp(r)
    <3>1. Finish(r, "failed") \/ Finish(r, "ok") \/ Goto(r, "userRow")
      BY <2>2 DEF UndoAccount, DeleteAccount, Stamp
    <3>2. new.pc \in {"failed", "ok", "userRow"}
      BY <1>3, <3>1, Moves DEF Resting, Phases
    <3> QED BY <2>1, <3>2, NothingServed DEF Serving, Early, Naming, Changing
  <2>3. CASE SetPassword(r) \/ Relock(r) \/ SetActive(r)
    <3>1. Goto(r, "stamp") \/ Goto(r, "relock") \/ Finish(r, "failed")
      BY <2>3 DEF SetPassword, Relock, SetActive, SetLockThen, AfterPassword
    <3>2. new.pc \in {"stamp", "relock", "failed"}
      BY <1>3, <3>1, Moves DEF Resting, Phases
    <3> QED BY <2>1, <3>2, NothingServed DEF Serving, Early, Naming, Changing
  <2>4. CASE FindUser(r)
    <3>1. new.pc \in {"userdel", "failed"}
      BY <1>3, <2>4, Moves DEF FindUser, Resting, RequestStates
    <3> QED BY <2>1, <3>1, NothingServed DEF Serving, Early, Naming, Changing
  <2> QED BY <1>10, <2>2, <2>3, <2>4
<1> QED BY <1>6, <1>7, <1>8, <1>9, <1>10

\* The checks of the domains, and the reads of the row.
LEMMA DomainSteps ==
  ASSUME VhostInv, NEW r \in Requests, CheckDomains(r) \/ Fetch(r) \/ DropTree(r)
  PROVE  VhostsAfter(r)
<1> DEFINE was == req[r]
           new == req'[r]
<1>1. /\ was.pc \in {"domains", "fetch", "dropTree"} /\ was.pc \notin Resting
      /\ was.pc \notin Changing
      /\ vhosts' = vhosts /\ nextSite' = nextSite /\ sites' = sites /\ behind \subseteq behind'
  BY DEF CheckDomains, Fetch, DropTree, GiveUp, keys, ghosts, Resting, Changing
<1>2. TypeInv /\ Served(was) /\ was \in RequestStates /\ Holds(was.pc, was)
      /\ req \in [Requests -> RequestStates]
  BY <1>1, VhostView
<1>3. SitesAlike
  BY <1>1 DEF SitesAlike
<1>4. SUFFICES Served(req[r])'
  BY <1>1, <1>3, AlikeVhosts
<1>5. CASE Refuse(r) \/ GiveUp(r)
  BY <1>2, <1>5, Moves, NothingServed DEF Serving, Early, Naming, Changing
<1>6. CASE CheckDomains(r) /\ ~Refuse(r)
  <2> DEFINE step == IF was.op = "create" THEN "insert" ELSE "fetch"
  <2>1. Goto(r, step) /\ was.pc = "domains" /\ was.op \in {"create", "addDomain"}
    BY <1>2, <1>6 DEF CheckDomains, Holds, HoldsForm
  <2>2. CASE was.op = "create"
    BY <1>2, <2>1, <2>2, FormKept DEF Early, Naming
  <2>3. CASE was.op = "addDomain"
    <3>1. /\ new.pc = "fetch" /\ new.op = was.op /\ new.site = was.site
          /\ new.domains = was.domains
      BY <1>2, <2>1, <2>3, GotoKeeps
    <3>2. was.site \in Known /\ sites[was.site].domains \subseteq was.domains
      BY <1>2, <2>1, <2>3 DEF Served
    <3> QED BY <1>1, <2>3, <3>1, <3>2
         DEF Served, Known, Early, Naming, Applying, Changing, Removing
  <2> QED BY <2>1, <2>2, <2>3
<1>7. CASE Fetch(r) /\ ~GiveUp(r)
  <2> DEFINE row == sites[was.site]
  <2>1. /\ was.pc = "fetch" /\ row # None
        /\ req' = [req EXCEPT ![r].pc = "store", ![r].row = row, ![r].owner = UserOf(row)]
    BY <1>7 DEF Fetch
  <2>2. was.op = "addDomain" /\ was.site \in Known /\ row.domains \subseteq was.domains
    BY <1>2, <2>1 DEF Served
  <2> HIDE DEF row
  <2>3. /\ new.pc = "store" /\ new.row = row /\ new.op = was.op /\ new.site = was.site
        /\ new.domains = was.domains
    BY <1>2, <2>1 DEF RequestStates
  <2>4. row = sites'[new.site] /\ new.site \in Ids /\ sites'[new.site] # None
    BY <1>1, <2>1, <2>2, <2>3 DEF row, Known
  <2> QED BY <2>2, <2>3, <2>4
  DEF Served, AtRow, Known, Early, Naming, Applying, Changing, Removing
<1> QED BY <1>5, <1>6, <1>7 DEF DropTree

\* A deletion works its way through the users of the platform, whose row it keeps.
LEMMA ScopedSteps ==
  ASSUME VhostInv, NEW r \in Requests, ScopedUser(r) \/ ScopedUserRow(r) \/ DeleteFails(r)
  PROVE  VhostsAfter(r)
<1> DEFINE was == req[r]
           new == req'[r]
<1>1. /\ was.pc \in {"scoped", "scopedRow"} /\ was.pc \notin Resting /\ was.pc \notin Changing
      /\ vhosts' = vhosts /\ nextSite' = nextSite /\ behind \subseteq behind'
  BY DEF ScopedUser, ScopedUserRow, DeleteFails, GiveUp, keys, ghosts, Resting, Changing
<1>2. TypeInv /\ Served(was) /\ was \in RequestStates /\ req \in [Requests -> RequestStates]
  BY <1>1, VhostView
<1>3. was.op = "delete" /\ AtRow(was)
  BY <1>1, <1>2 DEF Served
<1>4. SitesAlike
  <2>1. CASE sites' = sites
    BY <1>1, <2>1 DEF SitesAlike
  <2>2. CASE WithoutUser(was.uid)
    BY <1>1, <1>2, <2>2, WithoutAlike
  <2> QED BY <2>1, <2>2 DEF ScopedUser, ScopedUserRow, DeleteFails
<1>5. Served(req[r])'
  <2>1. CASE GiveUp(r)
    BY <1>2, <2>1, Moves, NothingServed DEF Serving, Early, Naming, Changing
  <2>2. CASE ~GiveUp(r)
    <3>1. /\ new.pc \in {"scoped", "scopedRow"} /\ new.op = was.op /\ new.site = was.site
          /\ new.row = was.row
      <4>1. CASE ScopedUser(r)
        <5>1. \/ \E u : req' = [req EXCEPT ![r].left = @ \ {u}]
              \/ \E u : req' = [req EXCEPT ![r].pc = "scopedRow", ![r].uid = u,
                                          ![r].name = users[u].name, ![r].left = @ \ {u}]
          BY <4>1 DEF ScopedUser
        <5>2. was.pc = "scoped"
          BY <4>1 DEF ScopedUser
        <5>3. CASE \E u : req' = [req EXCEPT ![r].left = @ \ {u}]
          BY <1>2, <5>2, <5>3 DEF RequestStates
        <5>4. CASE \E u : req' = [req EXCEPT ![r].pc = "scopedRow", ![r].uid = u,
                                           ![r].name = users[u].name, ![r].left = @ \ {u}]
          BY <1>2, <5>4 DEF RequestStates
        <5> QED BY <5>1, <5>3, <5>4
      <4>2. CASE ScopedUserRow(r)
        <5>1. Goto(r, "scoped")
          BY <2>2, <4>2 DEF ScopedUserRow
        <5> QED BY <1>2, <5>1, GotoKeeps
      <4>3. CASE DeleteFails(r)
        BY <2>2, <4>3 DEF DeleteFails
      <4> QED BY <4>1, <4>2, <4>3
    <3>2. AtRow(req[r])'
      BY <1>3, <1>4, <3>1 DEF AtRow, SitesAlike, Known
    <3> QED BY <1>3, <3>1, <3>2 DEF Served, Early, Naming, Applying, Changing, Removing
  <2> QED BY <2>1, <2>2
<1> QED BY <1>1, <1>4, <1>5, AlikeVhosts

\* The row is read back, and what it asks of the host is done before the file is written.
LEMMA ServeSteps ==
  ASSUME VhostInv, NEW r \in Requests, Load(r) \/ Home(r) \/ SaveOwner(r) \/ Share(r)
  PROVE  VhostsAfter(r)
<1> DEFINE was == req[r]
           new == req'[r]
<1>1. /\ was.pc \in {"load", "home", "saveOwner", "share"} /\ was.pc \notin Resting
      /\ was.pc \in Changing
      /\ vhosts' = vhosts /\ nextSite' = nextSite /\ sites' = sites
  BY DEF Load, Home, SaveOwner, Share, keys, Resting, Changing
<1>2. /\ TypeInv /\ Served(was) /\ was \in RequestStates /\ Holds(was.pc, was)
      /\ req \in [Requests -> RequestStates] /\ Rooted /\ Answers
      /\ \A i \in Known : UpToDate(i) \/ IsServing(was, i)
  BY <1>1, VhostView
<1>3. was.site \in Ids
  BY <1>1, <1>2 DEF Holds, HoldsRow, Placed, OnRow
<1>4. CASE Abandon(r)
  <2>1. behind \subseteq behind'
    BY <1>4 DEF Abandon
  <2>2. SitesAlike
    BY <1>1, <2>1 DEF SitesAlike
  <2>3. CASE was.op = "create"
    <3>1. Goto(r, "dropRow") /\ was.site \in Known /\ File(was.site) = {}
      BY <1>1, <1>2, <1>4, <2>3 DEF Abandon, Served
    <3>2. new.pc = "dropRow" /\ new.op = was.op /\ new.site = was.site
      BY <1>2, <3>1, GotoKeeps
    <3>3. Served(req[r])'
      BY <1>1, <2>3, <3>1, <3>2
      DEF Served, Known, File, Early, Naming, Applying, Changing, Removing
    <3> QED BY <1>1, <2>2, <3>2, <3>3, AlikeVhosts DEF Changing
  <2>4. CASE was.op # "create"
    <3>1. new.pc \in {"ok", "failed"} /\ was.site \in behind'
      BY <1>2, <1>4, <2>4, Moves DEF Abandon, Resting
    <3>2. Served(req[r])'
      BY <3>1, NothingServed DEF Serving, Early, Naming, Changing
    <3> QED BY <1>1, <2>2, <3>1, <3>2, AlikeVhosts
  <2> QED BY <2>3, <2>4
<1>5. ASSUME behind' = behind, new.op = was.op, new.site = was.site,
             new.row = was.row, was.pc \in {"home", "saveOwner", "share"},
             new.pc \in {"saveOwner", "share", "vhost"}
      PROVE  VhostsAfter(r)
  <2>1. SitesAlike
    BY <1>1, <1>5 DEF SitesAlike
  <2>2. /\ AtRow(was) /\ was.row.domains \subseteq sites[was.site].domains
        /\ was.row.domains = sites[was.site].domains \/ was.site \in behind
        /\ was.op = "create" => File(was.site) = {}
    BY <1>2, <1>5 DEF Served, Applying, Changing
  <2>3. Served(req[r])'
    BY <1>1, <1>5, <2>2
    DEF Served, AtRow, Known, File, Early, Naming, Applying, Changing, Removing
  <2>4. new.pc \in Changing
    BY <1>5 DEF Changing
  <2> QED BY <1>1, <1>5, <2>1, <2>3, <2>4, AlikeVhosts
<1>6. CASE Home(r) /\ ~Abandon(r)
  <2>1. CASE Goto(r, "share") /\ behind' = behind
    BY <1>2, <1>5, <1>6, <2>1, GotoKeeps DEF Home
  <2>2. CASE /\ req' = [req EXCEPT ![r].pc = "saveOwner", ![r].owner.home = was.row.home]
             /\ behind' = behind
    <3>1. new.pc = "saveOwner" /\ new.op = was.op /\ new.site = was.site /\ new.row = was.row
      BY <1>2, <2>2 DEF RequestStates
    <3> QED BY <1>5, <1>6, <2>2, <3>1 DEF Home
  <2> QED BY <1>6, <2>1, <2>2 DEF Home, ghosts
<1>7. CASE SaveOwner(r) /\ ~Abandon(r)
  BY <1>2, <1>5, <1>7, GotoKeeps DEF SaveOwner, ghosts
<1>8. CASE Share(r) /\ ~Abandon(r)
  BY <1>2, <1>5, <1>8, GotoKeeps DEF Share
<1>9. CASE Load(r)
  <2> DEFINE row == sites[was.site]
  <2>1. CASE /\ row # None /\ behind' = behind \ {was.site}
             /\ req' = [req EXCEPT ![r].pc = "home", ![r].row = row, ![r].owner = UserOf(row)]
    <3> HIDE DEF row
    <3>1. new.pc = "home" /\ new.row = row /\ new.op = was.op /\ new.site = was.site
      BY <1>2, <2>1 DEF RequestStates
    <3>2. was.op = "create" => File(was.site) = {}
      BY <1>1, <1>2 DEF Served
    <3>3. was.site \in Known /\ row = sites[was.site]
      BY <1>3, <2>1 DEF row, Known
    <3>4. Served(req[r])'
      BY <1>1, <3>1, <3>2, <3>3
      DEF Served, AtRow, Known, File, Early, Naming, Applying, Changing, Removing
    <3>5. \A i \in Ids : sites'[i] # None => UpToDate(i)' \/ IsServing(req'[r], i)
      BY <1>1, <1>2, <2>1, <3>1 DEF UpToDate, File, IsServing, Known, Changing
    <3>6. Rooted' /\ Answers'
      BY <1>1, <1>2 DEF Rooted, Answers, Known
    <3> QED BY <3>4, <3>5, <3>6 DEF VhostsAfter
  <2>2. CASE ~(row # None /\ behind' = behind \ {was.site})
    <3>1. \/ row = None /\ behind' = behind
          \/ behind' = behind \cup {was.site}
      BY <1>9, <2>2 DEF Load
    <3>2. SitesAlike
      BY <1>1, <3>1 DEF SitesAlike
    <3>3. IF was.op \in {"create", "addDomain"} THEN Goto(r, "home") ELSE Finish(r, "ok")
      BY <1>9, <2>2 DEF Load
    <3>4. CASE was.op \in {"create", "addDomain"}
      <4>1. /\ new.pc = "home" /\ new.op = was.op /\ new.site = was.site /\ new.row = was.row
        BY <1>2, <3>3, <3>4, GotoKeeps
      <4>2. /\ AtRow(was) /\ was.row.domains \subseteq sites[was.site].domains
            /\ was.op = "create" => File(was.site) = {}
        BY <1>1, <1>2, <1>9, <3>4 DEF Served, Load
      <4>3. was.site \in behind'
        BY <3>1, <4>2 DEF AtRow, Known
      <4>4. Served(req[r])'
        BY <1>1, <3>4, <4>1, <4>2, <4>3
        DEF Served, AtRow, Known, File, Early, Naming, Applying, Changing, Removing
      <4> QED BY <1>1, <3>2, <4>3, <4>4, AlikeVhosts
    <3>5. CASE was.op \notin {"create", "addDomain"}
      <4>1. Served(req[r])'
        BY <1>2, <3>3, <3>5, Moves, NothingServed DEF Resting, Serving, Early, Naming, Changing
      <4>2. was.site \in behind' \/ was.site \notin Known
        BY <3>1 DEF Known
      <4> QED BY <1>1, <3>2, <4>1, <4>2, AlikeVhosts
    <3> QED BY <3>4, <3>5
  <2> QED BY <1>9, <2>1, <2>2 DEF Load
<1> QED BY <1>4, <1>6, <1>7, <1>8, <1>9

-----------------------------------------------------------------------------
\* No file is named for a domain that belongs to no platform.
LEMMA InsertVhosts ==
  ASSUME OwnNames, VhostInv, NEW r \in Requests, Insert(r)
  PROVE  VhostsAfter(r)
<1> DEFINE was == req[r]
           new == req'[r]
<1>1. /\ was.pc = "insert" /\ was.pc \in Early /\ was.pc \notin Resting /\ was.pc \notin Changing
      /\ vhosts' = vhosts /\ behind' = behind
  BY DEF Insert, ghosts, Resting, Changing, Early
<1>2. /\ TypeInv /\ DomainsOwned /\ Rooted /\ Answers /\ Fresh(was) /\ Served(was)
      /\ was \in RequestStates /\ Holds(was.pc, was) /\ req \in [Requests -> RequestStates]
      /\ \A i \in Known : UpToDate(i)
  BY <1>1, VhostView
<1>3. CASE Refuse(r) /\ UNCHANGED <<sites, nextSite>>
  <2>1. SitesAlike
    BY <1>1, <1>3 DEF SitesAlike
  <2>2. Served(req[r])'
    BY <1>2, <1>3, Moves, NothingServed DEF Serving, Early, Naming, Changing
  <2> QED BY <1>1, <2>1, <2>2, AlikeVhosts
<1>4. CASE ~(Refuse(r) /\ UNCHANGED <<sites, nextSite>>)
  <2> DEFINE row == [home |-> was.home, domains |-> was.domains, user |-> was.uid]
             bare == [row EXCEPT !.domains = {}]
  <2>1. /\ nextSite \in Ids /\ sites' = [sites EXCEPT ![nextSite] = row]
        /\ nextSite' = nextSite + 1
        /\ req' = [req EXCEPT ![r].pc = "load", ![r].site = nextSite, ![r].row = bare]
    BY <1>4 DEF Insert
  <2>2. was.op = "create" /\ was.home \in Domains /\ was.home \in was.domains
    BY <1>1, <1>2 DEF Holds, HoldsForm, Served
  <2>3. /\ row.home = was.home /\ row.domains = was.domains
        /\ bare.home = was.home /\ bare.domains = {}
    OBVIOUS
  <2>4. row # None
    BY <1>2, <2>2, InHand, NoneFacts DEF Site
  <2> HIDE DEF row, bare
  <2>5. /\ new.pc = "load" /\ new.op = was.op /\ new.site = nextSite /\ new.row = bare
    BY <1>2, <2>1 DEF RequestStates
  <2>6. nextSite \notin Known
    BY <1>2, <2>1, PlatformsAssumption DEF Rooted, Ids
  <2>7. /\ sites'[nextSite] = row
        /\ \A j \in Ids : j # nextSite => sites'[j] = sites[j]
    BY <1>2, <2>1 DEF TypeInv, TablesOK
  <2>8. vhosts[NameOf[was.home]] = {}
    <3> SUFFICES ASSUME vhosts[NameOf[was.home]] # {} PROVE FALSE
      OBVIOUS
    <3>1. PICK j \in Known : NameOf[sites[j].home] = NameOf[was.home]
      BY <1>2, <2>2, NameFacts DEF Answers
    <3>2. sites[j].home = was.home
      BY <1>2, <2>2, <3>1, RowFacts DEF OwnNames, Known
    <3>3. was.home \in sites[j].domains
      BY <1>2, <3>2 DEF Rooted
    <3>4. Clash(0, was.domains)
      BY <2>2, <3>3, NoneFacts DEF Clash, OthersOf, Known
    <3> QED BY <1>1, <1>2, <3>4 DEF Fresh
  <2>9. Rooted'
    BY <1>2, <2>1, <2>2, <2>3, <2>7, PlatformsAssumption DEF Rooted, Known, Ids
  <2>10. Answers'
    BY <1>1, <1>2, <2>6, <2>7 DEF Answers, Known
  <2>11. Served(req[r])'
    <3>1. /\ new.site \in Ids /\ sites'[new.site] # None
          /\ sites'[new.site].home = was.home /\ new.row.home = was.home
          /\ new.row.domains = {}
      BY <2>1, <2>3, <2>4, <2>5, <2>7
    <3>2. vhosts'[NameOf[sites'[new.site].home]] = {}
      BY <1>1, <2>8, <3>1
    <3> QED BY <2>2, <2>5, <3>1, <3>2
         DEF Served, AtRow, Known, File, Early, Naming, Applying, Changing, Removing
  <2>12. \A i \in Ids : sites'[i] # None => UpToDate(i)' \/ IsServing(req'[r], i)
    BY <1>1, <1>2, <2>5, <2>7 DEF UpToDate, File, IsServing, Known, Changing
  <2> QED BY <2>9, <2>10, <2>11, <2>12 DEF VhostsAfter
<1> QED BY <1>3, <1>4

\* A row that is saved keeps its home, and gives up no domain.
LEMMA StoreVhosts ==
  ASSUME VhostInv, NEW r \in Requests, Store(r)
  PROVE  VhostsAfter(r)
<1> DEFINE was == req[r]
           new == req'[r]
<1>1. /\ was.pc = "store" /\ was.pc \notin Resting /\ was.pc \notin Changing
      /\ vhosts' = vhosts /\ nextSite' = nextSite
  BY DEF Store, keys, Resting, Changing
<1>2. /\ TypeInv /\ Rooted /\ Answers /\ Served(was) /\ was \in RequestStates
      /\ Holds(was.pc, was) /\ req \in [Requests -> RequestStates]
      /\ \A i \in Known : UpToDate(i)
  BY <1>1, VhostView
<1>3. CASE GiveUp(r) /\ sites' = sites
  <2>1. SitesAlike
    BY <1>1, <1>3 DEF SitesAlike, GiveUp
  <2>2. Served(req[r])'
    BY <1>2, <1>3, Moves, NothingServed DEF Serving, Early, Naming, Changing
  <2> QED BY <1>1, <2>1, <2>2, AlikeVhosts
<1>4. CASE ~(GiveUp(r) /\ sites' = sites)
  <2> DEFINE row == [was.row EXCEPT !.domains = was.domains]
             step == IF was.op = "toggle" THEN "vhost" ELSE "load"
  <2>1. PICK i \in Ids :
          /\ i = was.site /\ sites[i] # None /\ sites' = [sites EXCEPT ![i] = row]
          /\ behind' = behind \ {i} /\ Goto(r, step)
    BY <1>1, <1>2, <1>4 DEF Store, Goto, Served, AtRow, Known
  <2>2. /\ was.row.home = sites[i].home /\ was.row.domains = sites[i].domains
        /\ was.row.domains \subseteq was.domains /\ was.op \in {"toggle", "addDomain"}
        /\ was.op = "toggle" => was.domains = was.row.domains
    BY <1>1, <1>2, <2>1 DEF Served, AtRow
  <2>3. was.row \in Site /\ was.domains \in SUBSET Domains
    BY <1>1, <1>2, InHand DEF Holds, HoldsRow, OnRow
  <2>4. row \in Site /\ row.home = sites[i].home /\ row.domains = was.domains
    BY <2>2, <2>3 DEF Site
  <2> HIDE DEF row
  <2>5. /\ sites'[i] = row /\ row # None
        /\ \A j \in Ids : j # i => sites'[j] = sites[j]
    BY <1>2, <2>1, <2>4, NoneFacts DEF TypeInv, TablesOK
  <2>6. /\ new.pc = step /\ new.op = was.op /\ new.site = i /\ new.row = was.row
    BY <1>2, <2>1, GotoKeeps
  <2>7. Rooted'
    BY <1>1, <1>2, <2>1, <2>2, <2>4, <2>5 DEF Rooted, Known
  <2>8. Answers'
    <3> SUFFICES ASSUME NEW n \in Names, vhosts[n] # {}
                 PROVE  \E j \in Ids : /\ sites'[j] # None /\ NameOf[sites'[j].home] = n
                                       /\ vhosts[n] \subseteq sites'[j].domains
      BY <1>1 DEF Answers, Known
    <3>1. PICK j \in Known : NameOf[sites[j].home] = n /\ vhosts[n] \subseteq sites[j].domains
      BY <1>2 DEF Answers
    <3> QED BY <2>2, <2>4, <2>5, <3>1 DEF Known
  <2>9. Served(req[r])'
    BY <1>1, <2>1, <2>2, <2>4, <2>5, <2>6
    DEF Served, AtRow, Known, File, Early, Naming, Applying, Changing, Removing
  <2>10. \A j \in Ids : sites'[j] # None => UpToDate(j)' \/ IsServing(req'[r], j)
    BY <1>1, <1>2, <2>1, <2>5, <2>6 DEF UpToDate, File, IsServing, Known, Changing
  <2> QED BY <2>7, <2>8, <2>9, <2>10 DEF VhostsAfter
<1> QED BY <1>3, <1>4

\* The file of the platform is written, and takes nothing from another's.
LEMMA WriteVhosts ==
  ASSUME OwnNames, VhostInv, NEW r \in Requests, Vhost(r)
  PROVE  VhostsAfter(r)
<1> DEFINE was == req[r]
           new == req'[r]
<1>1. /\ was.pc = "vhost" /\ was.pc \notin Resting /\ was.pc \in Changing
      /\ sites' = sites /\ nextSite' = nextSite
  BY DEF Vhost, keys, Resting, Changing
<1>2. /\ TypeInv /\ DomainsOwned /\ Rooted /\ Answers /\ Served(was) /\ was \in RequestStates
      /\ \A j \in Known : UpToDate(j) \/ IsServing(was, j)
  BY <1>1, VhostView
<1>3. PICK i \in Known :
        /\ i = was.site /\ was.row.home = sites[i].home
        /\ was.row.domains \subseteq sites[i].domains
        /\ was.row.domains = sites[i].domains \/ i \in behind
        /\ was.op = "create" => File(i) = {}
  BY <1>1, <1>2 DEF Served, AtRow, Applying, Changing
<1>4. CASE Abandon(r) /\ vhosts' = vhosts
  <2>1. SitesAlike
    BY <1>1, <1>4 DEF SitesAlike, Abandon
  <2>2. CASE was.op = "create"
    <3>1. Goto(r, "dropRow")
      BY <1>4, <2>2 DEF Abandon
    <3>2. new.pc = "dropRow" /\ new.op = was.op /\ new.site = was.site
      BY <1>2, <3>1, GotoKeeps
    <3>3. Served(req[r])'
      BY <1>1, <1>3, <1>4, <2>2, <3>2
      DEF Served, Known, File, Early, Naming, Applying, Changing, Removing
    <3> QED BY <1>1, <2>1, <3>2, <3>3, AlikeVhosts DEF Changing
  <2>3. CASE was.op # "create"
    <3>1. new.pc \in {"ok", "failed"} /\ was.site \in behind'
      BY <1>2, <1>4, <2>3, Moves DEF Abandon, Resting
    <3>2. Served(req[r])'
      BY <3>1, NothingServed DEF Serving, Early, Naming, Changing
    <3> QED BY <1>1, <2>1, <3>1, <3>2, AlikeVhosts
  <2> QED BY <2>2, <2>3
<1>5. CASE vhosts' = VhostsWith(was.row) /\ Finish(r, "ok") /\ behind' = behind
  <2>1. Served(req[r])'
    BY <1>2, <1>5, Moves, NothingServed DEF Resting, Serving, Early, Naming, Changing
  <2>2. \A n \in Names :
          vhosts'[n] = IF n = NameOf[was.row.home] THEN was.row.domains
                       ELSE IF vhosts[n] \cap was.row.domains # {} THEN {} ELSE vhosts[n]
    BY <1>5 DEF VhostsWith
  <2>3. File(i)' = was.row.domains
    BY <1>1, <1>2, <1>3, <2>2, FileFacts DEF File
  <2>4. \A j \in Known \ {i} : File(j)' = File(j)
    <3> SUFFICES ASSUME NEW j \in Known \ {i} PROVE File(j)' = File(j)
      OBVIOUS
    <3>1. NameOf[sites[j].home] # NameOf[was.row.home]
      BY <1>2, <1>3, OwnFiles
    <3>2. File(j) \cap was.row.domains = {}
      BY <1>2, <1>3, FileFacts DEF DomainsOwned
    <3> QED BY <1>1, <1>2, <2>2, <3>1, <3>2, FileFacts DEF File
  <2>5. Rooted'
    BY <1>1, <1>2 DEF Rooted, Known
  <2>6. Answers'
    <3> SUFFICES ASSUME NEW n \in Names, vhosts'[n] # {}
                 PROVE  \E j \in Known : /\ NameOf[sites[j].home] = n
                                         /\ vhosts'[n] \subseteq sites[j].domains
      BY <1>1 DEF Answers, Known
    <3>1. CASE n = NameOf[was.row.home]
      BY <1>3, <2>2, <3>1
    <3>2. CASE n # NameOf[was.row.home]
      BY <1>2, <2>2, <3>2 DEF Answers
    <3> QED BY <3>1, <3>2
  <2>7. \A j \in Ids : sites'[j] # None => UpToDate(j)' \/ IsServing(req'[r], j)
    BY <1>1, <1>2, <1>3, <1>5, <2>3, <2>4 DEF UpToDate, IsServing, Known
  <2> QED BY <2>1, <2>5, <2>6, <2>7 DEF VhostsAfter
<1> QED BY <1>4, <1>5 DEF Vhost

\* A platform without a file can go.
LEMMA RowGoes ==
  ASSUME OwnNames, TypeInv, DomainsOwned, Rooted, Answers, NEW i \in Ids,
         i \in Known => File(i) = {},
         sites' = [sites EXCEPT ![i] = None], vhosts' = vhosts, nextSite' = nextSite
  PROVE  /\ Rooted' /\ Answers' /\ sites'[i] = None
         /\ \A j \in Ids : j # i => sites'[j] = sites[j]
<1>1. sites'[i] = None /\ \A j \in Ids : j # i => sites'[j] = sites[j]
  BY DEF TypeInv, TablesOK
<1>2. Rooted'
  BY <1>1 DEF Rooted, Known
<1>3. Answers'
  <2> SUFFICES ASSUME NEW n \in Names, vhosts[n] # {}
               PROVE  \E j \in Ids : /\ sites'[j] # None /\ NameOf[sites'[j].home] = n
                                     /\ vhosts[n] \subseteq sites'[j].domains
    BY DEF Answers, Known
  <2>1. PICK j \in Known : NameOf[sites[j].home] = n /\ vhosts[n] \subseteq sites[j].domains
    BY DEF Answers
  <2>2. j # i
    BY <2>1 DEF File
  <2> QED BY <1>1, <2>1, <2>2 DEF Known
<1> QED BY <1>1, <1>2, <1>3

\* The rollback of a creation, whose platform was never served.
LEMMA DropVhosts ==
  ASSUME OwnNames, VhostInv, NEW r \in Requests, DropRow(r)
  PROVE  VhostsAfter(r)
<1> DEFINE was == req[r]
           new == req'[r]
<1>1. /\ was.pc = "dropRow" /\ was.pc \notin Resting /\ was.pc \in Changing
      /\ vhosts' = vhosts /\ nextSite' = nextSite /\ Goto(r, "dropTree")
  BY DEF DropRow, keys, Resting, Changing
<1>2. /\ TypeInv /\ DomainsOwned /\ Rooted /\ Answers /\ Served(was) /\ was \in RequestStates
      /\ \A j \in Known : UpToDate(j) \/ IsServing(was, j)
  BY <1>1, VhostView
<1>3. PICK i \in Known : i = was.site /\ File(i) = {}
  BY <1>1, <1>2 DEF Served, Changing
<1>4. Served(req[r])'
  BY <1>1, <1>2, Moves, NothingServed DEF Phases, Serving, Early, Naming, Changing
<1>5. CASE sites' = sites /\ behind' = behind \cup {was.site}
  <2>1. SitesAlike
    BY <1>1, <1>5 DEF SitesAlike
  <2> QED BY <1>1, <1>4, <1>5, <2>1, AlikeVhosts
<1>6. CASE sites' = [sites EXCEPT ![was.site] = None] /\ behind' = behind
  <2>1. /\ Rooted' /\ Answers' /\ sites'[i] = None
        /\ \A j \in Ids : j # i => sites'[j] = sites[j]
    BY <1>1, <1>2, <1>3, <1>6, RowGoes DEF Known
  <2>2. \A j \in Ids : sites'[j] # None => UpToDate(j)'
    BY <1>1, <1>2, <1>3, <1>6, <2>1 DEF UpToDate, File, IsServing, Known
  <2> QED BY <1>4, <2>1, <2>2 DEF VhostsAfter
<1> QED BY <1>5, <1>6 DEF DropRow

\* A deletion takes the file before the row.
LEMMA RemoveVhosts ==
  ASSUME OwnNames, VhostInv, NEW r \in Requests, Unserve(r) \/ RemoveTree(r) \/ DeleteRow(r)
  PROVE  VhostsAfter(r)
<1> DEFINE was == req[r]
           new == req'[r]
<1>1. /\ was.pc \in {"scoped", "removeTree", "deleteRow"} /\ was.pc \notin Resting
      /\ nextSite' = nextSite
  BY DEF Unserve, RemoveTree, DeleteRow, keys, Resting
<1>2. /\ TypeInv /\ DomainsOwned /\ Rooted /\ Answers /\ Served(was) /\ was \in RequestStates
      /\ \A j \in Known : UpToDate(j) \/ IsServing(was, j)
  BY <1>1, VhostView
<1>3. PICK i \in Known :
        /\ i = was.site /\ was.row.home = sites[i].home /\ was.op = "delete"
        /\ was.pc \in Removing => File(i) = {}
  BY <1>1, <1>2 DEF Served, AtRow, Removing
<1>4. CASE Unserve(r)
  <2>1. /\ was.pc = "scoped" /\ was.pc \notin Changing /\ sites' = sites
        /\ vhosts' \in {vhosts, Unserved(r)} /\ behind \subseteq behind'
    BY <1>4 DEF Unserve, GiveUp, Changing
  <2>2. \A j \in Known : UpToDate(j)
    BY <1>1, <1>2, <2>1, VhostView
  <2>3. /\ NameOf[sites[i].home] \in Names
        /\ \A n \in Names : n # NameOf[sites[i].home] => vhosts'[n] = vhosts[n]
        /\ vhosts' # vhosts => vhosts'[NameOf[sites[i].home]] = {}
    BY <1>2, <1>3, <2>1, FileFacts DEF Unserved, TypeInv, TablesOK
  <2>4. Rooted' /\ Answers'
    BY <1>1, <1>2, <2>1, <2>3 DEF Rooted, Answers, Known
  <2>5. \A j \in Known \ {i} : UpToDate(j)'
    <3> SUFFICES ASSUME NEW j \in Known \ {i} PROVE UpToDate(j)'
      OBVIOUS
    <3>1. NameOf[sites[j].home] # NameOf[sites[i].home] /\ NameOf[sites[j].home] \in Names
      BY <1>2, <1>3, OwnFiles, FileFacts
    <3> QED BY <2>1, <2>2, <2>3, <3>1 DEF UpToDate, File
  <2>6. CASE GiveUp(r)
    <3>1. i \in behind'
      BY <1>3, <2>6, NoneFacts DEF GiveUp, Known
    <3>2. Served(req[r])'
      BY <1>2, <2>6, Moves, NothingServed DEF Serving, Early, Naming, Changing
    <3> QED BY <2>1, <2>4, <2>5, <3>1, <3>2 DEF VhostsAfter, UpToDate, Known
  <2>7. CASE vhosts' = Unserved(r) /\ Goto(r, "removeTree")
    <3>1. new.pc = "removeTree" /\ new.op = was.op /\ new.site = i /\ new.row = was.row
      BY <1>2, <1>3, <2>7, GotoKeeps
    <3>2. vhosts'[NameOf[sites[i].home]] = {}
      BY <1>2, <1>3, <2>3, <2>7 DEF Unserved, TypeInv, TablesOK
    <3>3. Served(req[r])'
      BY <1>3, <2>1, <3>1, <3>2
      DEF Served, AtRow, Known, File, Early, Naming, Applying, Changing, Removing
    <3> QED BY <2>1, <2>4, <2>5, <3>1, <3>3 DEF VhostsAfter, IsServing, Changing, Known
  <2> QED BY <1>4, <2>6, <2>7 DEF Unserve
<1>5. CASE RemoveTree(r)
  <2>1. /\ was.pc = "removeTree" /\ sites' = sites /\ vhosts' = vhosts /\ behind \subseteq behind'
    BY <1>5 DEF RemoveTree, GiveUp
  <2>2. SitesAlike
    BY <1>1, <2>1 DEF SitesAlike
  <2>3. CASE GiveUp(r)
    <3>1. was.site \in behind'
      BY <1>3, <2>3, NoneFacts DEF GiveUp, Known
    <3>2. Served(req[r])'
      BY <1>2, <2>3, Moves, NothingServed DEF Serving, Early, Naming, Changing
    <3> QED BY <1>1, <2>2, <3>1, <3>2, AlikeVhosts
  <2>4. CASE Goto(r, "deleteRow")
    <3>1. new.pc = "deleteRow" /\ new.op = was.op /\ new.site = i /\ new.row = was.row
      BY <1>2, <1>3, <2>4, GotoKeeps
    <3>2. Served(req[r])'
      BY <1>3, <2>1, <3>1
      DEF Served, AtRow, Known, File, Early, Naming, Applying, Changing, Removing
    <3> QED BY <1>1, <1>3, <2>2, <3>1, <3>2, AlikeVhosts DEF Changing
  <2> QED BY <1>5, <2>3, <2>4 DEF RemoveTree
<1>6. CASE DeleteRow(r)
  <2>1. was.pc = "deleteRow" /\ vhosts' = vhosts
    BY <1>6 DEF DeleteRow
  <2>2. Served(req[r])'
    BY <1>2, <1>6, Moves, NothingServed DEF DeleteRow, Resting, Serving, Early, Naming, Changing
  <2>3. CASE GiveUp(r) /\ sites' = sites
    <3>1. SitesAlike /\ was.site \in behind'
      BY <1>1, <1>3, <2>1, <2>3, NoneFacts DEF GiveUp, SitesAlike, Known
    <3> QED BY <1>1, <2>2, <3>1, AlikeVhosts
  <2>4. CASE sites' = [sites EXCEPT ![was.site] = None] /\ behind' = behind \ {was.site}
    <3>1. /\ Rooted' /\ Answers' /\ sites'[i] = None
          /\ \A j \in Ids : j # i => sites'[j] = sites[j]
      BY <1>1, <1>2, <1>3, <2>1, <2>4, RowGoes DEF Known, Removing
    <3>2. \A j \in Ids : sites'[j] # None => UpToDate(j)'
      BY <1>1, <1>2, <1>3, <2>1, <2>4, <3>1 DEF UpToDate, File, IsServing, Known
    <3> QED BY <2>2, <3>1, <3>2 DEF VhostsAfter
  <2> QED BY <1>6, <2>3, <2>4 DEF DeleteRow
<1> QED BY <1>4, <1>5, <1>6

\* Every virtual host answers for domains of a platform that is there, and every platform
\* is served under exactly its domains unless a handler is at work on it or the last one
\* failed or was cut short, as long as operators take turns and no two domains share the
\* name of a configuration file.
THEOREM SerialVhostsMatchRows ==
  ASSUME ~Overlapping, OwnNames
  PROVE  Spec => []VhostsMatchRows
<1>1. Init => VhostInv
  <2> SUFFICES ASSUME Init PROVE VhostInv
    OBVIOUS
  <2>1. \A r \in Requests : req[r].pc = "idle"
    BY DEF Init, NoReq
  <2>2. Rooted /\ Answers /\ Known = {}
    BY DEF Init, Rooted, Answers, Known
  <2>3. \A r \in Requests : Served(req[r])
    BY <2>1 DEF Served, Early, Naming, Applying, Changing, Removing
  <2> QED BY <2>2, <2>3, InitSerial DEF VhostInv
<1>2. VhostInv /\ [Next]_vars => VhostInv'
  <2> SUFFICES ASSUME VhostInv, [Next]_vars PROVE VhostInv'
    OBVIOUS
  <2>1. SerialInv'
    BY NextSerial DEF VhostInv
  <2>2. CASE UNCHANGED vars
    <3>1. UNCHANGED <<sites, vhosts, nextSite, behind, req>>
      BY <2>2 DEF vars, keys, ghosts
    <3>2. Rooted' /\ Answers'
      BY <3>1 DEF VhostInv, Rooted, Answers, Known
    <3>3. (\A r \in Requests : Served(req[r]))'
      BY <3>1 DEF VhostInv, Served, AtRow, Known, File
    <3>4. (\A i \in Known : UpToDate(i) \/ \E r \in Requests : IsServing(req[r], i))'
      BY <3>1 DEF VhostInv, UpToDate, File, Known, IsServing
    <3> QED BY <2>1, <3>2, <3>3, <3>4 DEF VhostInv
  <2>3. CASE Crash
    <3>1. /\ UNCHANGED <<sites, vhosts, nextSite>> /\ behind \subseteq behind'
          /\ \A r \in Requests : req[r].site \in behind' \cup {None} /\ req'[r].pc = "idle"
      BY <2>3 DEF Crash, NoReq, keys
    <3>2. SitesAlike
      BY <3>1 DEF SitesAlike
    <3>3. (\A r \in Requests : Served(req[r]))'
      BY <3>1 DEF Served, Early, Naming, Applying, Changing, Removing
    <3>4. (\A i \in Known : UpToDate(i))'
      <4> SUFFICES ASSUME NEW i \in Known PROVE UpToDate(i)'
        BY <3>1 DEF Known
      <4>1. CASE UpToDate(i)
        BY <3>2, <4>1, AlikeServed
      <4>2. CASE \E r \in Requests : IsServing(req[r], i)
        BY <3>1, <4>2, NoneFacts DEF IsServing, UpToDate, Known
      <4> QED BY <4>1, <4>2 DEF VhostInv
    <3> QED BY <2>1, <3>2, <3>3, <3>4, AlikeServed DEF VhostInv
  <2>4. ASSUME NEW r \in Requests, Begin(r) PROVE VhostInv'
    <3>1. /\ \A q \in Requests \ {r} : req[q].pc \in Resting /\ req'[q] = req[q]
          /\ VhostsAfter(r)
      BY <2>4, BeginVhosts
    <3> QED BY <2>1, <3>1, OneServed
  <2>5. ASSUME NEW r \in Requests, Step(r) PROVE VhostInv'
    <3>1. /\ req[r].pc \notin Resting /\ \A q \in Requests \ {r} : req'[q] = req[q]
          /\ \A q \in Requests \ {r} : req[q].pc \in Resting
      BY <2>5, OneStep DEF OneMoves, VhostInv, SerialInv, Turns
    <3>2. VhostsAfter(r)
      BY <2>5, UserSteps, DomainSteps, ScopedSteps, ServeSteps, InsertVhosts, StoreVhosts,
        WriteVhosts, DropVhosts, RemoveVhosts DEF Step
    <3> QED BY <2>1, <3>1, <3>2, OneServed
  <2> QED BY <2>2, <2>3, <2>4, <2>5 DEF Next
<1>3. VhostInv => VhostsMatchRows
  BY DEF VhostInv, VhostsMatchRows, Answers, UpToDate, File, IsServing, InFlight
<1> QED BY <1>1, <1>2, <1>3, PTL DEF Spec

-----------------------------------------------------------------------------
(***************************************************************************)
(* Changes of a sound platform succeed, when operators take turns.  Every  *)
(* user has an account, but for the one a handler is deleting and those    *)
(* whose account a failure left out of step; so ensureWebsiteFilesystem    *)
(* and SyncSharedAccess find the accounts they ask for.                    *)
(***************************************************************************)

HasAccount(n) == accounts[n] # None \/ n \in scarred
Leaving(q, u) == q.pc \in {"userRow", "scopedRow"} /\ q.uid = u
\* The account of a user to be saved is there, and the platform of a change.
Prepared(q) ==
  /\ q.pc = "saveUser" => accounts[q.name] # None
  /\ q.pc = "domains" /\ q.op = "addDomain" => q.site \in Known
ChangeInv ==
  /\ AccountInv
  /\ \A u \in UserIds : users[u] # None =>
       HasAccount(users[u].name) \/ \E r \in Requests : Leaving(req[r], u)
  /\ \A r \in Requests : Prepared(req[r])
\* The same after a step of one request.
ChangeAfter(r) ==
  /\ Prepared(req[r])'
  /\ \A u \in UserIds : users'[u] # None => HasAccount(users[u].name)' \/ Leaving(req'[r], u)

LEMMA OnePrepared ==
  ASSUME ChangeInv, AccountInv', NEW r \in Requests, ChangeAfter(r),
         \A q \in Requests \ {r} : req[q].pc \in Resting /\ req'[q] = req[q]
  PROVE  ChangeInv'
<1>1. ASSUME NEW q \in Requests \ {r} PROVE Prepared(req[q])'
  <2>1. req'[q].pc \in Resting
    OBVIOUS
  <2> QED BY <2>1 DEF Prepared, Resting
<1>2. (\A q \in Requests : Prepared(req[q]))'
  BY <1>1 DEF ChangeAfter
<1> QED BY <1>2 DEF ChangeInv, ChangeAfter

\* What a handler finds at a step.
LEMMA ChangeView ==
  ASSUME ChangeInv, NEW r \in Requests, req[r].pc \notin Resting
  PROVE  /\ TypeInv /\ OneName /\ Current(req[r]) /\ Prepared(req[r])
         /\ \A q \in Requests \ {r} : req[q].pc \in Resting
         /\ \A u \in UserIds : users[u] # None =>
              users[u].name \in Usernames /\ (HasAccount(users[u].name) \/ Leaving(req[r], u))
         /\ req \in [Requests -> RequestStates] /\ req[r] \in RequestStates
         /\ Holds(req[r].pc, req[r])
<1>1. AccountInv /\ TypeInv
  BY DEF ChangeInv, AccountInv, SerialInv
<1>2. \A q \in Requests \ {r} : req[q].pc \in Resting
  BY <1>1, OthersRest
<1>3. TypeInv /\ OneName /\ Current(req[r])
  BY <1>1, <1>2, AccountFocus
<1>4. \A u \in UserIds : users[u] # None =>
        users[u].name \in Usernames /\ (HasAccount(users[u].name) \/ Leaving(req[r], u))
  BY <1>1, <1>2, RowFacts DEF ChangeInv, Leaving, Resting
<1> QED BY <1>1, <1>2, <1>3, <1>4, InHand DEF ChangeInv, TypeInv, ReqsOK

\* Accounts stay, and users keep their names.
Kept ==
  /\ \A u \in UserIds : users'[u] # None => users[u] # None /\ users'[u].name = users[u].name
  /\ \A n \in Usernames : HasAccount(n) => HasAccount(n)'
LEMMA KeptAfter ==
  ASSUME ChangeInv, NEW r \in Requests, req[r].pc \notin Resting \cup {"userRow", "scopedRow"},
         Kept, Prepared(req[r])'
  PROVE  ChangeAfter(r)
BY ChangeView DEF Kept, ChangeAfter, Leaving

\* The steps at which nothing is prepared.
LEMMA NothingPrepared ==
  ASSUME NEW r \in Requests, req'[r].pc \notin {"saveUser", "domains"}
  PROVE  Prepared(req[r])'
BY DEF Prepared

-----------------------------------------------------------------------------
\* A step that leaves users and accounts alone.
LEMMA QuietSteps ==
  ASSUME ChangeInv, NEW r \in Requests,
         \/ CheckName(r) \/ CheckDomains(r) \/ Insert(r) \/ Fetch(r) \/ Load(r) \/ Share(r)
         \/ Vhost(r) \/ DropRow(r) \/ DropTree(r) \/ FindUser(r) \/ DeleteFails(r)
         \/ Unserve(r) \/ RemoveTree(r) \/ DeleteRow(r)
  PROVE  ChangeAfter(r)
<1> DEFINE was == req[r]
<1>1. /\ was.pc \notin Resting \cup {"userRow", "scopedRow"}
      /\ UNCHANGED <<users, accounts, scarred>>
  BY DEF CheckName, CheckDomains, Insert, Fetch, Load, Share, Vhost, DropRow, DropTree, FindUser,
    DeleteFails, Unserve, RemoveTree, DeleteRow, keys, ghosts, Resting
<1>2. Kept
  BY <1>1 DEF Kept, HasAccount
<1>3. TypeInv /\ was \in RequestStates /\ req \in [Requests -> RequestStates]
  BY <1>1, ChangeView
<1>4. req'[r].pc \notin {"saveUser", "domains"}
  <2>1. CASE CheckName(r) \/ CheckDomains(r) \/ Share(r) \/ Vhost(r) \/ DropRow(r) \/ DropTree(r)
             \/ DeleteFails(r) \/ Unserve(r) \/ RemoveTree(r) \/ DeleteRow(r)
    BY <1>3, <2>1, Moves DEF CheckName, CheckDomains, Share, Vhost, DropRow, DropTree,
      DeleteFails, Unserve, RemoveTree, DeleteRow, Phases, Resting
  <2>2. CASE Insert(r) \/ Load(r) \/ FindUser(r)
    BY <2>2, <1>3, LaterStep DEF Checked, Early, Naming
  <2>3. CASE Fetch(r)
    <3>1. CASE GiveUp(r)
      BY <1>3, <3>1, Moves
    <3>2. CASE req' = [req EXCEPT ![r].pc = "store", ![r].row = sites[was.site],
                                  ![r].owner = UserOf(sites[was.site])]
      BY <1>3, <3>2 DEF RequestStates
    <3> QED BY <2>3, <3>1, <3>2 DEF Fetch
  <2> QED BY <2>1, <2>2, <2>3
<1> QED BY <1>1, <1>2, <1>4, NothingPrepared, KeptAfter

\* The account is made before its user.
LEMMA MakeHas ==
  ASSUME ChangeInv, NEW r \in Requests, MakeAccount(r)
  PROVE  ChangeAfter(r)
<1> DEFINE was == req[r]
           n == was.name
<1>1. was.pc = "account" /\ was.pc \notin Resting
  BY DEF MakeAccount, Resting
<1>2. /\ TypeInv /\ was \in RequestStates /\ Holds(was.pc, was)
      /\ n \in Usernames /\ was.home \in Domains /\ users' = users
  BY <1>1, ChangeView DEF MakeAccount, Holds, HoldsForm, Naming
<1>3. Kept
  <2>1. \A m \in Usernames : m # n => accounts'[m] = accounts[m]
    BY <1>2 DEF MakeAccount, TypeInv, TablesOK
  <2>2. scarred \subseteq scarred' /\ (n \in scarred' \/ accounts'[n] # None)
    <3>1. [home |-> was.home, locked |-> FALSE] \in Account
      BY <1>2 DEF Account
    <3>2. [home |-> was.home, locked |-> FALSE] # None
      BY <3>1, NoneFacts
    <3> QED BY <1>2, <3>2 DEF MakeAccount, TypeInv, TablesOK
  <2> QED BY <1>2, <2>1, <2>2 DEF Kept, HasAccount
<1>4. Prepared(req[r])'
  <2>1. CASE Finish(r, "failed")
    BY <1>2, <2>1, Moves, NothingPrepared DEF Resting
  <2>2. CASE Goto(r, "saveUser") /\ accounts' = [accounts EXCEPT ![n] = [home |-> was.home,
                                                                        locked |-> FALSE]]
    <3>1. req'[r].pc = "saveUser" /\ req'[r].name = n
      BY <1>2, <2>2, GotoKeeps
    <3>2. [home |-> was.home, locked |-> FALSE] \in Account
      BY <1>2 DEF Account
    <3>3. accounts'[n] # None
      BY <1>2, <2>2, <3>2, NoneFacts DEF TypeInv, TablesOK
    <3> QED BY <3>1, <3>3 DEF Prepared
  <2> QED BY <2>1, <2>2 DEF MakeAccount
<1> QED BY <1>1, <1>3, <1>4, KeptAfter

LEMMA SaveHas ==
  ASSUME ChangeInv, NEW r \in Requests, SaveUser(r) \/ UndoAccount(r)
  PROVE  ChangeAfter(r)
<1> DEFINE was == req[r]
           n == was.name
<1>1. was.pc \in {"saveUser", "undoAccount"} /\ was.pc \notin Resting \cup {"userRow", "scopedRow"}
  BY DEF SaveUser, UndoAccount, Resting
<1>2. /\ TypeInv /\ was \in RequestStates /\ Holds(was.pc, was) /\ Current(was) /\ Prepared(was)
      /\ n \in Usernames /\ ~Taken(n) /\ req \in [Requests -> RequestStates]
      /\ \A u \in UserIds : users[u] # None => users[u].name \in Usernames /\ users[u].name # n
                                             /\ HasAccount(users[u].name)
  BY <1>1, ChangeView DEF Holds, HoldsForm, Naming, Current, Taken, Leaving
<1>3. CASE SaveUser(r)
  <2>1. was.pc = "saveUser" /\ accounts' = accounts /\ scarred' = scarred /\ accounts[n] # None
    BY <1>2, <1>3 DEF SaveUser, ghosts, Prepared
  <2>2. \A u \in UserIds : users'[u] # None => users'[u].name = n \/ users'[u] = users[u]
    BY <1>2, <1>3 DEF SaveUser, TypeInv, TablesOK
  <2>3. Prepared(req[r])'
    <3>1. CASE Unsaved(r)
      BY <1>2, <3>1, Moves, NothingPrepared DEF Unsaved, Phases
    <3>2. CASE req' = [req EXCEPT ![r].pc = IF was.op = "create" THEN "domains" ELSE "load",
                                  ![r].uid = nextUser, ![r].made = TRUE]
      <4>1. /\ req'[r].pc = IF was.op = "create" THEN "domains" ELSE "load"
            /\ req'[r].op = was.op
        BY <1>2, <3>2 DEF RequestStates
      <4> QED BY <4>1 DEF Prepared
    <3> QED BY <1>3, <3>1, <3>2 DEF SaveUser
  <2> QED BY <1>2, <2>1, <2>2, <2>3 DEF ChangeAfter, HasAccount
<1>4. CASE UndoAccount(r)
  <2>1. users' = users /\ Finish(r, "failed") /\ scarred \ {n} \subseteq scarred'
        /\ \A m \in Usernames : m # n => accounts'[m] = accounts[m]
    BY <1>2, <1>4 DEF UndoAccount, Userdel, TypeInv, TablesOK
  <2>2. Prepared(req[r])'
    BY <1>2, <2>1, Moves, NothingPrepared DEF Resting
  <2> QED BY <1>2, <2>1, <2>2 DEF ChangeAfter, HasAccount
<1> QED BY <1>3, <1>4

\* Saving a row changes no name, and the other homes and locks no account's being there.
LEMMA RowsHave ==
  ASSUME ChangeInv, NEW r \in Requests,
         Store(r) \/ Home(r) \/ SaveOwner(r) \/ Stamp(r) \/ SetPassword(r) \/ Relock(r)
         \/ SetActive(r)
  PROVE  ChangeAfter(r)
<1> DEFINE was == req[r]
<1>1. was.pc \notin Resting \cup {"userRow", "scopedRow"}
  BY DEF Store, Home, SaveOwner, Stamp, SetPassword, Relock, SetActive, Resting
<1>2. /\ TypeInv /\ was \in RequestStates /\ Holds(was.pc, was) /\ Current(was)
      /\ req \in [Requests -> RequestStates]
  BY <1>1, ChangeView
<1>3. req'[r].pc \notin {"saveUser", "domains"}
  BY <1>2, LaterStep DEF Checked, Early, Naming
<1>4. \A n \in Usernames : accounts[n] # None =>
        /\ \A d \in Domains : [accounts[n] EXCEPT !.home = d] # None
        /\ \A on \in BOOLEAN : [accounts[n] EXCEPT !.locked = on] # None
  <2>1. \A n \in Usernames : accounts[n] # None =>
          /\ \A d \in Domains : [accounts[n] EXCEPT !.home = d] \in Account
          /\ \A on \in BOOLEAN : [accounts[n] EXCEPT !.locked = on] \in Account
    BY <1>2 DEF TypeInv, TablesOK, Account
  <2> QED BY <2>1, NoneFacts
<1>5. scarred \subseteq scarred'
  BY DEF Store, Home, SaveOwner, Stamp, SetPassword, Relock, SetActive, SetLockThen, ghosts
<1>6. \A n \in Usernames : accounts[n] # None => accounts'[n] # None
  <2>1. CASE Store(r) \/ SaveOwner(r) \/ Stamp(r)
    BY <2>1 DEF Store, SaveOwner, Stamp
  <2>2. CASE Home(r)
    <3>1. was.row.home \in Domains /\ (was.owner # None => was.owner.name \in Usernames)
      BY <1>2, <2>2, InHand, RowFacts DEF Home, Holds, HoldsRow, Placed, OnRow
    <3>2. \/ accounts' = accounts
          \/ /\ was.owner # None /\ accounts[was.owner.name] # None
             /\ accounts' = [accounts EXCEPT ![was.owner.name].home = was.row.home]
      BY <2>2 DEF Home
    <3> QED BY <1>2, <1>4, <3>1, <3>2 DEF TypeInv, TablesOK
  <2>3. CASE SetPassword(r) \/ Relock(r) \/ SetActive(r)
    <3>1. was.name \in Usernames /\ was.owner.active \in BOOLEAN
      BY <1>2, <2>3 DEF SetPassword, Relock, SetActive, Holds, HoldsUser, OnName, OnUser, User
    <3>2. \/ accounts' = accounts
          \/ \E on \in BOOLEAN : accounts[was.name] # None /\ Lock(was.name, on)
      BY <2>3, <3>1 DEF SetPassword, Relock, SetActive, SetLockThen
    <3> QED BY <1>2, <1>4, <3>1, <3>2 DEF Lock, TypeInv, TablesOK
  <2> QED BY <2>1, <2>2, <2>3
<1>7. \A u \in UserIds : users'[u] # None => users[u] # None /\ users'[u].name = users[u].name
  <2>1. CASE Store(r)
    <3>1. was.pc = "store" /\ (was.owner = None \/ was.owner = UserOf(was.row))
      BY <1>2, <2>1 DEF Store, Current
    <3>2. was.owner # None => was.row.user \in UserIds /\ users[was.row.user] # None
      BY <1>2, <3>1 DEF Holds, HoldsRow, UserOf, Placed, OnRow
    <3> QED BY <1>2, <2>1, <3>1, <3>2 DEF Store, TypeInv, TablesOK
  <2>2. CASE SaveOwner(r)
    <3>1. /\ was.pc = "saveOwner" /\ was.row.user \in UserIds /\ users[was.row.user] # None
          /\ was.owner = [users[was.row.user] EXCEPT !.home = was.row.home]
      BY <1>2, <2>2, NoneFacts DEF SaveOwner, Current, Holds, HoldsRow, HoldsUser, Placed, OnRow
    <3>2. users[was.row.user] \in User
      BY <1>2, <3>1, RowFacts
    <3>3. was.owner.name = users[was.row.user].name
      BY <3>1, <3>2 DEF User
    <3> QED BY <1>2, <2>2, <3>1, <3>3 DEF SaveOwner, TypeInv, TablesOK
  <2>3. CASE Stamp(r)
    <3>1. was.uid \in UserIds /\ users[was.uid] # None /\ was.owner.name = users[was.uid].name
      BY <1>2, <2>3 DEF Stamp, Current, Holds, HoldsUser, OnName, OnUser
    <3> QED BY <1>2, <2>3, <3>1 DEF Stamp, TypeInv, TablesOK
  <2>4. CASE Home(r) \/ SetPassword(r) \/ Relock(r) \/ SetActive(r)
    BY <2>4 DEF Home, SetPassword, Relock, SetActive
  <2> QED BY <2>1, <2>2, <2>3, <2>4
<1>8. Kept
  BY <1>5, <1>6, <1>7 DEF Kept, HasAccount
<1> QED BY <1>1, <1>3, <1>8, NothingPrepared, KeptAfter

\* The account of a user goes before its row, and the handler holds the user meanwhile.
LEMMA DeletionHas ==
  ASSUME ChangeInv, NEW r \in Requests,
         DeleteAccount(r) \/ ScopedUser(r) \/ DeleteUserRow(r) \/ ScopedUserRow(r)
  PROVE  ChangeAfter(r)
<1> DEFINE was == req[r]
           new == req'[r]
<1>1. was.pc \in {"userdel", "scoped", "userRow", "scopedRow"} /\ was.pc \notin Resting
  BY DEF DeleteAccount, ScopedUser, DeleteUserRow, ScopedUserRow, Resting
<1>2. /\ TypeInv /\ OneName /\ was \in RequestStates /\ Holds(was.pc, was) /\ Current(was)
      /\ req \in [Requests -> RequestStates]
      /\ \A u \in UserIds : users[u] # None =>
           users[u].name \in Usernames /\ (HasAccount(users[u].name) \/ Leaving(was, u))
  BY <1>1, ChangeView
<1>3. new.pc \notin {"saveUser", "domains"}
  BY <1>2, LaterStep DEF Checked, Early, Naming
<1>4. Prepared(req[r])'
  BY <1>3, NothingPrepared
<1>5. ASSUME NEW u \in UserIds, users[u] # None, users' = users, scarred \subseteq scarred',
             \A m \in Usernames : m # users[u].name => accounts'[m] = accounts[m],
             Leaving(new, u), was.pc \in {"userdel", "scoped"}
      PROVE  ChangeAfter(r)
  <2>1. \A v \in UserIds \ {u} : users[v] # None => users[v].name # users[u].name
    BY <1>2, <1>5 DEF OneName
  <2>2. \A v \in UserIds \ {u} : users[v] # None => HasAccount(users[v].name)'
    BY <1>2, <1>5, <2>1 DEF HasAccount, Leaving
  <2> QED BY <1>4, <1>5, <2>2 DEF ChangeAfter
<1>6. CASE was.pc \in {"userdel", "scoped"} /\ UNCHANGED <<users, accounts, scarred>>
  <2>1. Kept
    BY <1>6 DEF Kept, HasAccount
  <2> QED BY <1>1, <1>4, <1>6, <2>1, KeptAfter
<1>7. CASE DeleteAccount(r)
  <2>1. CASE Userdel(was.name) /\ Goto(r, "userRow")
    <3>1. /\ was.uid \in UserIds /\ users[was.uid] # None /\ users[was.uid].name = was.name
          /\ was.pc = "userdel" /\ users' = users /\ scarred' = scarred
      BY <1>2, <1>7 DEF DeleteAccount, Current, Holds, HoldsUser, OnUser, OnName, ghosts
    <3>2. \A m \in Usernames : m # was.name => accounts'[m] = accounts[m]
      BY <1>2, <2>1 DEF Userdel, TypeInv, TablesOK
    <3>3. Leaving(new, was.uid)
      BY <1>2, <2>1, GotoKeeps DEF Leaving
    <3> QED BY <1>5, <3>1, <3>2, <3>3
  <2>2. CASE UNCHANGED accounts
    BY <1>6, <1>7, <2>2 DEF DeleteAccount, ghosts
  <2> QED BY <1>7, <2>1, <2>2 DEF DeleteAccount
<1>8. CASE ScopedUser(r)
  <2>1. was.pc = "scoped" /\ users' = users
    BY <1>8 DEF ScopedUser
  <2>2. CASE UNCHANGED <<accounts, scarred>>
    BY <1>6, <2>1, <2>2
  <2>3. CASE ~UNCHANGED <<accounts, scarred>>
    <3>1. PICK u \in was.left :
            /\ users[u] # None
            /\ req' = [req EXCEPT ![r].pc = "scopedRow", ![r].uid = u,
                                  ![r].name = users[u].name, ![r].left = @ \ {u}]
            /\ accounts' = accounts \/ accounts' = [accounts EXCEPT ![users[u].name] = None]
            /\ scarred \subseteq scarred'
      BY <1>8, <2>3 DEF ScopedUser, Userdel, ghosts
    <3>2. u \in UserIds
      BY <1>2, InHand
    <3>3. Leaving(new, u)
      BY <1>2, <3>1 DEF RequestStates, Leaving
    <3>4. \A m \in Usernames : m # users[u].name => accounts'[m] = accounts[m]
      BY <1>2, <3>1 DEF TypeInv, TablesOK
    <3> QED BY <1>5, <2>1, <3>1, <3>2, <3>3, <3>4
  <2> QED BY <2>2, <2>3
<1>9. CASE DeleteUserRow(r) \/ ScopedUserRow(r)
  <2>1. /\ was.uid \in UserIds /\ users[was.uid] # None /\ users[was.uid].name = was.name
        /\ accounts' = accounts /\ scarred \subseteq scarred'
        /\ \A u \in UserIds : Leaving(was, u) => u = was.uid
    BY <1>2, <1>9 DEF DeleteUserRow, ScopedUserRow, Current, Holds, HoldsUser, OnUser, OnName,
      ghosts, Leaving
  <2>2. \A u \in UserIds \ {was.uid} : users'[u] = users[u]
    BY <1>2, <1>9 DEF DeleteUserRow, ScopedUserRow, WithoutUser, TypeInv, TablesOK
  <2>3. \/ users'[was.uid] = None
        \/ users' = users /\ was.name \in scarred'
    BY <1>2, <1>9, <2>1 DEF DeleteUserRow, ScopedUserRow, WithoutUser, TypeInv, TablesOK
  <2> QED BY <1>2, <1>4, <2>1, <2>2, <2>3 DEF ChangeAfter, HasAccount
<1> QED BY <1>7, <1>8, <1>9

-----------------------------------------------------------------------------
LEMMA InitChange == Init => ChangeInv
<1> SUFFICES ASSUME Init PROVE ChangeInv
  OBVIOUS
<1>1. \A r \in Requests : req[r].pc = "idle"
  BY DEF Init, NoReq
<1>2. \A u \in UserIds : users[u] = None
  BY DEF Init
<1> QED BY <1>1, <1>2, InitAccounts DEF ChangeInv, Prepared

LEMMA NextChange ==
  ASSUME ~Overlapping
  PROVE  ChangeInv /\ [Next]_vars => ChangeInv'
<1> SUFFICES ASSUME ChangeInv, [Next]_vars PROVE ChangeInv'
  OBVIOUS
<1>1. AccountInv' /\ AccountInv /\ TypeInv
  BY NextAccounts DEF ChangeInv, AccountInv, SerialInv
<1>2. CASE UNCHANGED vars
  BY <1>1, <1>2 DEF vars, ghosts, ChangeInv, HasAccount, Leaving, Prepared, Known
<1>3. CASE Crash
  <2>1. /\ UNCHANGED <<users, accounts>> /\ scarred \subseteq scarred'
        /\ \A r \in Requests : req[r].name \in scarred' \cup {None} /\ req'[r].pc = "idle"
    BY <1>3 DEF Crash, NoReq
  <2>2. ASSUME NEW u \in UserIds, users[u] # None PROVE HasAccount(users[u].name)'
    <3>1. CASE HasAccount(users[u].name)
      BY <2>1, <3>1 DEF HasAccount
    <3>2. ASSUME NEW r \in Requests, Leaving(req[r], u) PROVE users[u].name \in scarred'
      <4>1. req[r].name = users[u].name
        BY <1>1, <3>2 DEF AccountInv, Current, Leaving
      <4> QED BY <1>1, <2>1, <2>2, <4>1, RowFacts, NoneFacts
    <3> QED BY <2>1, <2>2, <3>1, <3>2 DEF ChangeInv, HasAccount
  <2>3. (\A r \in Requests : Prepared(req[r]))'
    BY <2>1 DEF Prepared
  <2> QED BY <1>1, <2>1, <2>2, <2>3 DEF ChangeInv
<1>4. ASSUME NEW r \in Requests, Begin(r) PROVE ChangeInv'
  <2>1. /\ \A q \in Requests : req[q].pc \in Resting
        /\ \A q \in Requests \ {r} : req'[q] = req[q]
        /\ UNCHANGED <<sites, users, accounts, scarred>>
        /\ Opening(req'[r])
    BY <1>1, <1>4, BeginOpens DEF ghosts
  <2>2. Prepared(req[r])'
    BY <2>1 DEF Opening, Prepared, Known
  <2>3. ChangeAfter(r)
    BY <2>1, <2>2 DEF ChangeAfter, ChangeInv, HasAccount, Leaving, Resting
  <2> QED BY <1>1, <2>1, <2>3, OnePrepared
<1>5. ASSUME NEW r \in Requests, Step(r) PROVE ChangeInv'
  <2>1. req[r].pc \notin Resting /\ \A q \in Requests \ {r} : req'[q] = req[q]
    BY <1>1, <1>5, OneStep DEF OneMoves
  <2>2. ChangeAfter(r)
    BY <1>5, QuietSteps, MakeHas, SaveHas, RowsHave, DeletionHas DEF Step
  <2> QED BY <1>1, <2>1, <2>2, OthersRest, OnePrepared
<1> QED BY <1>2, <1>3, <1>4, <1>5 DEF Next

-----------------------------------------------------------------------------
\* One step of a change of a platform.
LEMMA SoundStep ==
  ASSUME ChangeInv, NEW r \in Requests, Step(r), req[r].op \in {"create", "addDomain", "toggle"},
         req[r].pc \in {"domains", "store", "home", "share", "vhost"},
         req'[r].pc \in {"failed", "findUser", "dropRow"}, scarred = {}
  PROVE  \/ faults' > faults
         \/ req[r].pc = "domains" /\ Clash(0, req[r].domains \ OwnDomains(req[r].site))
<1> DEFINE was == req[r]
<1>1. /\ TypeInv /\ Current(was) /\ Prepared(was) /\ was \in RequestStates
      /\ Holds(was.pc, was) /\ DomainsOwned /\ Fresh(was)
      /\ \A u \in UserIds : users[u] # None => accounts[users[u].name] # None
  BY ChangeView DEF Resting, Leaving, HasAccount, ChangeInv, AccountInv, SerialInv
<1>2. ~Fault \/ faults' > faults
  <2>1. faults \in Nat
    BY <1>1, PlatformsAssumption DEF TypeInv, TablesOK
  <2> QED BY <2>1 DEF Fault
<1>3. SUFFICES ASSUME ~Fault PROVE was.pc = "domains" /\ Clash(0, was.domains \ OwnDomains(was.site))
  BY <1>2
<1>4. CheckDomains(r) \/ Store(r) \/ Home(r) \/ Share(r) \/ Vhost(r)
  BY DEF Step, CheckName, MakeAccount, SaveUser, UndoAccount, Insert, Fetch, Load, SaveOwner,
    DropRow, DropTree, FindUser, DeleteAccount, DeleteUserRow, ScopedUser, ScopedUserRow,
    DeleteFails, Unserve, RemoveTree, DeleteRow, SetPassword, Relock, SetActive, Stamp
<1>5. CASE CheckDomains(r)
  <2> DEFINE i == IF was.site = None THEN 0 ELSE was.site
  <2>1. was.pc = "domains" /\ was.op \in {"create", "addDomain"}
    BY <1>1, <1>5 DEF CheckDomains, Holds, HoldsForm
  <2>2. Clash(i, was.domains)
    BY <1>1, <1>3, <1>5, Moves DEF CheckDomains, Phases
  <2>3. PICK j \in Ids \ {i} : sites[j] # None /\ was.domains \cap sites[j].domains # {}
    BY <2>2 DEF Clash, OthersOf
  <2>4. (was.domains \ OwnDomains(was.site)) \cap sites[j].domains # {}
    <3>1. CASE was.op = "create"
      BY <1>1, <2>1, <2>3, <3>1 DEF Fresh, Early, OwnDomains
    <3>2. CASE was.op = "addDomain"
      <4>1. was.site \in Known /\ j \in Known /\ was.site # None /\ j # was.site
        BY <1>1, <2>1, <2>3, <3>2, NoneFacts DEF Prepared, Known
      <4>2. sites[was.site].domains \cap sites[j].domains = {}
        BY <1>1, <4>1 DEF DomainsOwned
      <4> QED BY <2>3, <4>1, <4>2 DEF OwnDomains
    <3> QED BY <2>1, <3>1, <3>2
  <2>5. j \in Ids \ {0}
    BY <2>3, NoneFacts
  <2> QED BY <2>1, <2>3, <2>4, <2>5 DEF Clash, OthersOf
<1>6. CASE Store(r)
  <2>1. Goto(r, IF was.op = "toggle" THEN "vhost" ELSE "load")
    BY <1>3, <1>6 DEF Store, Goto
  <2> QED BY <1>1, <2>1, Moves DEF Phases
<1>7. ASSUME Abandon(r), Home(r) \/ Share(r) \/ Vhost(r) PROVE FALSE
  <2>1. was.pc \in {"home", "share"} => was.owner = None \/ was.owner = UserOf(was.row)
    BY <1>1 DEF Current
  <2>2. was.owner # None /\ was.pc \in {"home", "share"} => accounts[was.owner.name] # None
    <3>1. was.owner # None /\ was.pc \in {"home", "share"} =>
            was.row.user \in UserIds /\ was.owner = users[was.row.user]
      BY <1>1, <2>1 DEF Holds, HoldsRow, UserOf
    <3> QED BY <1>1, <3>1
  <2>3. CASE Home(r)
    <3>1. was.pc = "home"
      BY <2>3 DEF Home
    <3>2. req'[r].pc \in {"share", "saveOwner"}
      BY <1>1, <1>3, <2>2, <2>3, <3>1, Moves DEF Home, Phases, RequestStates, TypeInv, ReqsOK
    <3> QED BY <3>2
  <2>4. CASE Share(r)
    <3>1. was.pc = "share" /\ was.row \in Site
      BY <1>1, <2>4 DEF Share, Holds, HoldsRow, Placed, OnRow
    <3>2. \A n \in Members(was.site, was.row, was.owner) : accounts[n] # None
      BY <1>1, <2>2, <3>1 DEF Members
    <3>3. Goto(r, "vhost")
      BY <1>3, <2>4, <3>2 DEF Share
    <3> QED BY <1>1, <3>3, Moves DEF Phases
  <2>5. CASE Vhost(r)
    BY <1>1, <1>3, <2>5, Moves DEF Vhost, Resting
  <2> QED BY <1>7, <2>3, <2>4, <2>5
<1>8. CASE Home(r) \/ Share(r) \/ Vhost(r)
  <2>1. Abandon(r)
    <3>1. CASE Home(r)
      BY <1>1, <3>1, Moves DEF Home, Phases, RequestStates, TypeInv, ReqsOK
    <3>2. CASE Share(r) \/ Vhost(r)
      BY <1>1, <3>2, Moves DEF Share, Vhost, Phases, Resting
    <3> QED BY <1>8, <3>1, <3>2
  <2> QED BY <1>7, <1>8, <2>1
<1> QED BY <1>4, <1>5, <1>6, <1>8

\* A change of a platform whose domains are free is refused only when a step of it fails,
\* or an account is missing since an earlier failure on it, as long as operators take
\* turns: what Create and Update look for, they themselves and the handlers before them
\* have put in place.
THEOREM SerialSoundChangesSucceed ==
  ASSUME ~Overlapping
  PROVE  Spec => SoundChangesSucceed
<1> DEFINE Good(r) ==
       req[r].op \in {"create", "addDomain", "toggle"}
         /\ req[r].pc \in {"domains", "store", "home", "share", "vhost"}
         /\ req'[r].pc \in {"failed", "findUser", "dropRow"}
       => faults' > faults \/ scarred # {}
          \/ (req[r].pc = "domains" /\ Clash(0, req[r].domains \ OwnDomains(req[r].site)))
<1>1. ASSUME ChangeInv, Next, NEW r \in Requests PROVE Good(r)
  <2> SUFFICES ASSUME req[r].pc \in {"domains", "store", "home", "share", "vhost"},
                      req'[r].pc \in {"failed", "findUser", "dropRow"}
               PROVE  Good(r)
    OBVIOUS
  <2>1. ~Crash
    BY DEF Crash, NoReq
  <2>2. ASSUME NEW q \in Requests, Begin(q) PROVE FALSE
    <3>1. req[r].pc \in Resting
      BY <1>1, <2>2, BeginOpens DEF ChangeInv, AccountInv, SerialInv
    <3> QED BY <3>1 DEF Resting
  <2>3. ASSUME NEW q \in Requests, Step(q), q # r PROVE FALSE
    <3>1. req'[r] = req[r]
      BY <1>1, <2>3, OneStep DEF OneMoves, ChangeInv, AccountInv, SerialInv
    <3> QED BY <3>1
  <2>4. Step(r)
    BY <1>1, <2>1, <2>2, <2>3 DEF Next
  <2> QED BY <1>1, <2>4, SoundStep
<1>2. ChangeInv /\ [Next]_vars => [\A r \in Requests : Good(r)]_vars
  BY <1>1
<1> QED BY <1>2, InitChange, NextChange, PTL DEF Spec, SoundChangesSucceed

-----------------------------------------------------------------------------
(***************************************************************************)
(* Deletions are complete, when operators take turns.  A deletion lists    *)
(* the users of a platform when it begins; it deletes the row only when    *)
(* the list is empty, the file gone and the tree gone, and no user came to *)
(* the platform, or became its owner, meanwhile.                           *)
(***************************************************************************)

\* The keys in the tables have been given out, and the owner of a platform is older than
\* the platform, so that it was not made as a further user of it.
Linked ==
  /\ \A i \in Known : i < nextSite
  /\ \A u \in UserIds : users[u] # None /\ users[u].site # None => users[u].site < nextSite
  /\ \A i \in Known : sites[i].user # None =>
       /\ sites[i].user < nextUser
       /\ users[sites[i].user] # None => users[sites[i].user].site # i
\* So have the keys a handler holds, and the rows it is going to save are those it read.
Handed(q) ==
  /\ q.uid # None => q.uid < nextUser
  /\ q.op = "addUser" => q.site < nextSite
  /\ q.pc = "store" => q.site \in Known /\ q.row = sites[q.site]
  /\ q.pc \in {"chpasswd", "setLock", "relock", "stamp"} => q.owner.site = users[q.uid].site
\* A user that a deletion leaves: it belongs elsewhere, and owns another platform if it
\* owned this one.
Spared(q, u) ==
  /\ users[u].site # q.site
  /\ u = q.row.user => \E j \in Ids \ {q.site} : sites[j] # None /\ sites[j].user = u
Deleting(q) ==
  q.op = "delete" =>
    /\ q.pc \in {"scoped", "scopedRow"} \cup Removing
    /\ \A u \in UserIds : users[u] # None =>
         u \in q.left \/ (q.pc = "scopedRow" /\ u = q.uid) \/ Spared(q, u)
    /\ q.row.user # None /\ users[q.row.user] # None => users[q.row.user].site # q.site
    /\ q.pc \in Removing => q.left = {} /\ vhosts[NameOf[q.row.home]] = {}
    /\ q.pc = "deleteRow" => q.row.home \notin trees

DeleteInv == AccountInv /\ Linked /\ \A r \in Requests : Handed(req[r]) /\ Deleting(req[r])
DeleteAfter(r) == Linked' /\ Handed(req[r])' /\ Deleting(req[r])'

LEMMA OneDeletes ==
  ASSUME DeleteInv, AccountInv', NEW r \in Requests, DeleteAfter(r),
         nextUser <= nextUser', nextSite <= nextSite',
         \A q \in Requests \ {r} : req[q].pc \in Resting /\ req'[q] = req[q]
  PROVE  DeleteInv'
<1>1. TypeInv /\ TypeInv'
  BY DEF DeleteInv, AccountInv, SerialInv
<1>2. nextUser \in Nat /\ nextUser' \in Nat /\ nextSite \in Nat /\ nextSite' \in Nat
  BY <1>1, PlatformsAssumption DEF TypeInv, TablesOK
<1>3. ASSUME NEW q \in Requests \ {r} PROVE Handed(req[q])' /\ Deleting(req[q])'
  <2>1. /\ req[q].pc \in Resting /\ Handed(req[q]) /\ Deleting(req[q]) /\ req'[q] = req[q]
        /\ req[q].uid \in UserIds \cup {None} /\ req[q].site \in Ids \cup {None}
        /\ req[q].op = "addUser" => req[q].site \in Ids
    BY <1>1, InHand DEF DeleteInv, Holds, HoldsForm
  <2>2. PICK p : p = req[q]
    OBVIOUS
  <2>3. /\ p.pc \in Resting /\ p.uid \in UserIds \cup {None}
        /\ p.op = "addUser" => p.site \in Ids
        /\ p.uid # None => p.uid < nextUser
        /\ p.op = "addUser" => p.site < nextSite
        /\ p.op # "delete"
    BY <2>1, <2>2 DEF Handed, Deleting, Resting, Removing
  <2>4. /\ p.uid # None => p.uid < nextUser'
        /\ p.op = "addUser" => p.site < nextSite'
    BY <1>2, <2>3 DEF UserIds, Ids
  <2> QED BY <2>1, <2>2, <2>3, <2>4 DEF Handed, Deleting, Resting
<1>4. (\A q \in Requests : Handed(req[q]) /\ Deleting(req[q]))'
  BY <1>3 DEF DeleteAfter
<1> QED BY <1>4 DEF DeleteInv, DeleteAfter

LEMMA DeleteView ==
  ASSUME DeleteInv, NEW r \in Requests, req[r].pc \notin Resting
  PROVE  /\ TypeInv /\ OneName /\ Current(req[r]) /\ Fresh(req[r])
         /\ Linked /\ Handed(req[r]) /\ Deleting(req[r])
         /\ req \in [Requests -> RequestStates] /\ req[r] \in RequestStates
         /\ Holds(req[r].pc, req[r])
         /\ nextSite \in Nat /\ nextUser \in Nat
<1>1. TypeInv
  BY DEF DeleteInv, AccountInv, SerialInv
<1> QED BY <1>1, InHand, PlatformsAssumption
        DEF DeleteInv, AccountInv, SerialInv, TypeInv, TablesOK, ReqsOK

-----------------------------------------------------------------------------
\* A handler that ends.
LEMMA FinishAfter ==
  ASSUME DeleteInv, NEW r \in Requests, req[r].pc \notin Resting, NEW result \in Resting,
         Finish(r, result)
  PROVE  Handed(req[r])' /\ Deleting(req[r])'
<1>1. req'[r] = [NoReq EXCEPT !.pc = result]
  BY DeleteView DEF Finish
<1>2. /\ req'[r].pc = result /\ req'[r].op = "none" /\ req'[r].uid = None
  BY <1>1 DEF NoReq
<1> QED BY <1>2 DEF Handed, Deleting, Resting

\* One that goes on to another step and is not deleting a platform.
LEMMA GoesOn ==
  ASSUME DeleteInv, NEW r \in Requests, req[r].pc \notin Resting, req[r].op # "delete",
         req'[r].op = req[r].op, req'[r].site = req[r].site, nextSite' = nextSite,
         req'[r].uid = req[r].uid, nextUser' = nextUser,
         req'[r].pc \notin {"store", "chpasswd", "setLock", "relock", "stamp"}
  PROVE  Handed(req[r])' /\ Deleting(req[r])'
BY DeleteView DEF Handed, Deleting

\* Where a platform is being deleted, no other step is taken.
LEMMA NotDeleting ==
  ASSUME DeleteInv, NEW r \in Requests,
         req[r].pc \notin {"scoped", "scopedRow"} \cup Removing \cup Resting
  PROVE  req[r].op # "delete"
BY DeleteView DEF Deleting

LEMMA SameLinks ==
  ASSUME DeleteInv, UNCHANGED <<users, sites, keys>>
  PROVE  Linked'
BY DEF DeleteInv, Linked, Known, keys

-----------------------------------------------------------------------------
\* The steps that leave the tables alone, or write a platform's row without its users.
LEMMA QuietDeletes ==
  ASSUME DeleteInv, NEW r \in Requests,
         \/ CheckName(r) \/ MakeAccount(r) \/ UndoAccount(r) \/ CheckDomains(r) \/ Fetch(r)
         \/ Load(r) \/ Home(r) \/ Share(r) \/ Vhost(r) \/ DropTree(r) \/ FindUser(r)
         \/ DeleteAccount(r)
  PROVE  DeleteAfter(r)
<1> DEFINE was == req[r]
           new == req'[r]
<1>1. /\ was.pc \notin {"scoped", "scopedRow"} \cup Removing \cup Resting
      /\ UNCHANGED <<users, sites, keys>>
  BY DEF CheckName, MakeAccount, UndoAccount, CheckDomains, Fetch, Load, Home, Share, Vhost,
    DropTree, FindUser, DeleteAccount, Removing, Resting
<1>2. /\ TypeInv /\ was \in RequestStates /\ req \in [Requests -> RequestStates]
      /\ was.op # "delete" /\ Linked'
  BY <1>1, DeleteView, NotDeleting, SameLinks
<1>3. nextSite' = nextSite /\ nextUser' = nextUser
  BY <1>1 DEF keys
<1>4. \A result \in Resting : Finish(r, result) => Handed(req[r])' /\ Deleting(req[r])'
  BY <1>1, FinishAfter
<1>5. \A step \in Phases \ {"store", "chpasswd", "setLock", "relock", "stamp"} :
        Goto(r, step) => Handed(req[r])' /\ Deleting(req[r])'
  <2> SUFFICES ASSUME NEW step \in Phases \ {"store", "chpasswd", "setLock", "relock", "stamp"},
                      Goto(r, step)
               PROVE  Handed(req[r])' /\ Deleting(req[r])'
    OBVIOUS
  <2> QED BY <1>1, <1>2, <1>3, GotoKeeps, GoesOn
<1>6. CASE CheckName(r) \/ MakeAccount(r) \/ UndoAccount(r) \/ CheckDomains(r) \/ Share(r)
           \/ Vhost(r) \/ DropTree(r) \/ DeleteAccount(r)
  BY <1>2, <1>4, <1>5, <1>6 DEF CheckName, MakeAccount, UndoAccount, CheckDomains, Share, Vhost,
    DropTree, DeleteAccount, Refuse, Abandon, GiveUp, Resting, Phases, DeleteAfter
<1>7. CASE Fetch(r)
  <2>1. CASE GiveUp(r)
    BY <1>2, <1>4, <2>1 DEF GiveUp, Resting, DeleteAfter
  <2>2. CASE ~GiveUp(r)
    <3>1. /\ req' = [req EXCEPT ![r].pc = "store", ![r].row = sites[was.site],
                                ![r].owner = UserOf(sites[was.site])]
          /\ sites[was.site] # None /\ was.pc = "fetch"
      BY <1>7, <2>2 DEF Fetch
    <3>2. /\ new.pc = "store" /\ new.row = sites[was.site] /\ new.site = was.site
          /\ new.op = was.op /\ new.uid = was.uid
      BY <1>2, <3>1 DEF RequestStates
    <3>3. was.site \in Ids
      BY <1>1, <3>1, DeleteView DEF Holds, HoldsRow, Placed
    <3>4. Handed(was)
      BY <1>1, DeleteView
    <3>5. sites' = sites
      BY <1>1
    <3> QED BY <1>2, <1>3, <3>1, <3>2, <3>3, <3>4, <3>5 DEF DeleteAfter, Handed, Deleting, Known
  <2> QED BY <2>1, <2>2
<1>8. CASE Load(r)
  <2>1. CASE req' = [req EXCEPT ![r].pc = "home", ![r].row = sites[was.site],
                                ![r].owner = UserOf(sites[was.site])]
    <3>1. new.pc = "home" /\ new.site = was.site /\ new.op = was.op /\ new.uid = was.uid
      BY <1>2, <2>1 DEF RequestStates
    <3> QED BY <1>1, <1>2, <1>3, <3>1, GoesOn DEF DeleteAfter
  <2>2. CASE ~(req' = [req EXCEPT ![r].pc = "home", ![r].row = sites[was.site],
                                  ![r].owner = UserOf(sites[was.site])])
    BY <1>2, <1>4, <1>5, <1>8, <2>2 DEF Load, Resting, Phases, DeleteAfter
  <2> QED BY <2>1, <2>2
<1>9. CASE Home(r)
  <2>1. CASE Goto(r, "share") \/ Abandon(r)
    BY <1>2, <1>4, <1>5, <2>1 DEF Abandon, Resting, Phases, DeleteAfter
  <2>2. CASE req' = [req EXCEPT ![r].pc = "saveOwner", ![r].owner.home = was.row.home]
    <3>1. new.pc = "saveOwner" /\ new.site = was.site /\ new.op = was.op /\ new.uid = was.uid
      BY <1>2, <2>2 DEF RequestStates
    <3> QED BY <1>1, <1>2, <1>3, <3>1, GoesOn DEF DeleteAfter
  <2> QED BY <1>9, <2>1, <2>2 DEF Home
<1>10. CASE FindUser(r)
  <2>1. CASE Finish(r, "failed")
    BY <1>2, <1>4, <2>1 DEF Resting, DeleteAfter
  <2>2. CASE req' = [req EXCEPT ![r].pc = "userdel", ![r].name = users[was.uid].name]
    <3>1. new.pc = "userdel" /\ new.site = was.site /\ new.op = was.op /\ new.uid = was.uid
      BY <1>2, <2>2 DEF RequestStates
    <3> QED BY <1>1, <1>2, <1>3, <3>1, GoesOn DEF DeleteAfter
  <2> QED BY <1>10, <2>1, <2>2 DEF FindUser
<1> QED BY <1>6, <1>7, <1>8, <1>9, <1>10

-----------------------------------------------------------------------------
\* A user comes with a key of its own.
LEMMA SaveUserLinks ==
  ASSUME DeleteInv, NEW r \in Requests, SaveUser(r)
  PROVE  DeleteAfter(r)
<1> DEFINE was == req[r]
           new == req'[r]
<1>1. was.pc = "saveUser" /\ was.pc \notin {"scoped", "scopedRow"} \cup Removing \cup Resting
      /\ sites' = sites /\ nextSite' = nextSite
  BY DEF SaveUser, Removing, Resting
<1>2. /\ TypeInv /\ was \in RequestStates /\ req \in [Requests -> RequestStates]
      /\ was.op # "delete" /\ was.op \in {"create", "addUser"} /\ Linked /\ Handed(was)
      /\ Fresh(was) /\ nextSite \in Nat /\ nextUser \in Nat
      /\ was.name \in Usernames /\ was.home \in Domains /\ was.site \in Ids \cup {None}
  BY <1>1, DeleteView, NotDeleting, InHand DEF Holds, HoldsForm, Naming
<1>3. CASE Unsaved(r) /\ UNCHANGED <<users, nextUser>>
  <2>1. Linked'
    BY <1>1, <1>3, SameLinks DEF keys
  <2>2. new.pc = "undoAccount" /\ new.op = was.op /\ new.site = was.site /\ new.uid = was.uid
    BY <1>2, <1>3, GotoKeeps DEF Unsaved
  <2> QED BY <1>1, <1>2, <1>3, <2>1, <2>2, GoesOn DEF DeleteAfter
<1>4. CASE ~(Unsaved(r) /\ UNCHANGED <<users, nextUser>>)
  <2> DEFINE user == [name |-> was.name, home |-> was.home, site |-> was.site, active |-> TRUE]
             step == IF was.op = "create" THEN "domains" ELSE "load"
  <2>1. /\ nextUser \in UserIds /\ users' = [users EXCEPT ![nextUser] = user]
        /\ nextUser' = nextUser + 1
        /\ req' = [req EXCEPT ![r].pc = step, ![r].uid = nextUser, ![r].made = TRUE]
    BY <1>4 DEF SaveUser
  <2>2. /\ new.pc = step /\ new.op = was.op /\ new.site = was.site /\ new.uid = nextUser
    BY <1>2, <2>1 DEF RequestStates
  <2>3. Handed(req[r])' /\ Deleting(req[r])'
    BY <1>1, <1>2, <2>1, <2>2 DEF Handed, Deleting
  <2>4. user.site # None => user.site < nextSite
    BY <1>1, <1>2 DEF Fresh, Early, Naming, Handed
  <2> HIDE DEF user
  <2>5. \A u \in UserIds : /\ u # nextUser => users'[u] = users[u]
                           /\ u = nextUser => users'[u] = user
    BY <1>2, <2>1 DEF TypeInv, TablesOK
  <2>6. \A i \in Known : sites[i].user # None => sites[i].user \in UserIds
    BY <1>2, RowFacts DEF Known
  <2>7. Linked'
    <3>1. \A i \in Known : sites[i].user # None =>
            /\ sites[i].user < nextUser + 1 /\ users'[sites[i].user] = users[sites[i].user]
      BY <1>2, <2>5, <2>6 DEF Linked, UserIds
    <3>2. \A u \in UserIds : users'[u] # None /\ users'[u].site # None => users'[u].site < nextSite
      BY <1>2, <2>4, <2>5 DEF Linked
    <3>3. Known' = Known
      BY <1>1 DEF Known
    <3> QED BY <1>1, <1>2, <2>1, <3>1, <3>2, <3>3 DEF Linked
  <2> QED BY <2>3, <2>7 DEF DeleteAfter
<1> QED BY <1>3, <1>4

\* A platform comes with a key of its own, after its owner.
LEMMA InsertLinks ==
  ASSUME DeleteInv, NEW r \in Requests, Insert(r)
  PROVE  DeleteAfter(r)
<1> DEFINE was == req[r]
           new == req'[r]
<1>1. was.pc = "insert" /\ was.pc \notin {"scoped", "scopedRow"} \cup Removing \cup Resting
      /\ users' = users /\ nextUser' = nextUser
  BY DEF Insert, Removing, Resting
<1>2. /\ TypeInv /\ was \in RequestStates /\ req \in [Requests -> RequestStates]
      /\ was.op = "create" /\ Linked /\ Handed(was)
      /\ nextSite \in Nat /\ nextUser \in Nat
      /\ was.uid \in UserIds \cup {None} /\ was.home \in Domains /\ was.domains \in SUBSET Domains
  BY <1>1, DeleteView, InHand DEF Holds, HoldsForm
<1>3. CASE Refuse(r) /\ UNCHANGED <<sites, nextSite>>
  <2>1. Linked'
    BY <1>1, <1>3, SameLinks DEF keys
  <2>2. CASE Finish(r, "failed")
    BY <1>1, <2>1, <2>2, FinishAfter DEF Resting, DeleteAfter
  <2>3. CASE Goto(r, "findUser")
    <3>1. new.pc = "findUser" /\ new.op = was.op /\ new.site = was.site /\ new.uid = was.uid
      BY <1>2, <2>3, GotoKeeps
    <3> QED BY <1>1, <1>2, <1>3, <2>1, <3>1, GoesOn DEF DeleteAfter
  <2> QED BY <1>3, <2>2, <2>3 DEF Refuse
<1>4. CASE ~(Refuse(r) /\ UNCHANGED <<sites, nextSite>>)
  <2> DEFINE row == [home |-> was.home, domains |-> was.domains, user |-> was.uid]
  <2>1. /\ nextSite \in Ids /\ sites' = [sites EXCEPT ![nextSite] = row]
        /\ nextSite' = nextSite + 1
        /\ req' = [req EXCEPT ![r].pc = "load", ![r].site = nextSite,
                              ![r].row = [row EXCEPT !.domains = {}]]
    BY <1>4 DEF Insert
  <2>2. new.pc = "load" /\ new.op = was.op /\ new.uid = was.uid
    BY <1>2, <2>1 DEF RequestStates
  <2>3. Handed(req[r])' /\ Deleting(req[r])'
    BY <1>1, <1>2, <2>2 DEF Handed, Deleting
  <2>4. row.user = was.uid
    OBVIOUS
  <2> HIDE DEF row
  <2>5. \A i \in Ids : /\ i # nextSite => sites'[i] = sites[i]
                       /\ i = nextSite => sites'[i] = row
    BY <1>2, <2>1 DEF TypeInv, TablesOK
  <2>6. \A u \in UserIds : users[u] # None /\ users[u].site # None =>
          users[u].site \in Ids /\ users[u].site < nextSite
    BY <1>2, RowFacts, NoneFacts DEF Linked, User
  <2>7. \A u \in UserIds : users[u] # None => users[u].site # nextSite
    BY <1>2, <2>1, <2>6, NoneFacts DEF Ids
  <2>8. Linked'
    <3>1. \A i \in Ids : sites'[i] # None => i < nextSite + 1
      BY <1>2, <2>1, <2>5 DEF Linked, Known, Ids
    <3>2. \A u \in UserIds : users[u] # None /\ users[u].site # None => users[u].site < nextSite + 1
      BY <1>2, <2>6 DEF Ids
    <3>3. \A i \in Ids : sites'[i] # None /\ sites'[i].user # None =>
            /\ sites'[i].user < nextUser
            /\ users[sites'[i].user] # None => users[sites'[i].user].site # i
      BY <1>2, <2>4, <2>5, <2>7 DEF Linked, Known, Handed
    <3> QED BY <1>1, <2>1, <3>1, <3>2, <3>3 DEF Linked, Known
  <2> QED BY <2>3, <2>8 DEF DeleteAfter
<1> QED BY <1>3, <1>4 DEF Insert

\* The row of a platform is saved as it was read, and its owner's with the same key.
LEMMA StoreLinks ==
  ASSUME DeleteInv, NEW r \in Requests, Store(r)
  PROVE  DeleteAfter(r)
<1> DEFINE was == req[r]
           new == req'[r]
<1>1. was.pc = "store" /\ was.pc \notin {"scoped", "scopedRow"} \cup Removing \cup Resting
      /\ nextUser' = nextUser /\ nextSite' = nextSite
  BY DEF Store, Removing, Resting, keys
<1>2. /\ TypeInv /\ was \in RequestStates /\ req \in [Requests -> RequestStates]
      /\ was.op # "delete" /\ Linked /\ Handed(was) /\ Current(was) /\ Holds(was.pc, was)
  BY <1>1, DeleteView, NotDeleting
<1>3. users' = users
  <2>1. was.owner = None \/ was.owner = UserOf(was.row)
    BY <1>1, <1>2 DEF Current
  <2>2. was.owner # None => was.row.user \in UserIds /\ users[was.row.user] # None
    BY <1>1, <1>2, <2>1 DEF Holds, HoldsRow, Placed, OnRow, UserOf
  <2> QED BY <1>2, <2>2 DEF Store, TypeInv, TablesOK
<1>4. CASE GiveUp(r) /\ sites' = sites
  <2>1. Linked'
    BY <1>1, <1>3, <1>4, SameLinks DEF keys
  <2> QED BY <1>1, <1>4, <2>1, FinishAfter DEF GiveUp, Resting, DeleteAfter
<1>5. CASE ~(GiveUp(r) /\ sites' = sites)
  <2> DEFINE step == IF was.op = "toggle" THEN "vhost" ELSE "load"
             row == [was.row EXCEPT !.domains = was.domains]
  <2>1. Goto(r, step) /\ sites' = [sites EXCEPT ![was.site] = row]
    BY <1>5 DEF Store, Goto
  <2>2. new.pc = step /\ new.op = was.op /\ new.site = was.site /\ new.uid = was.uid
    BY <1>2, <2>1, GotoKeeps
  <2>3. Handed(req[r])' /\ Deleting(req[r])'
    BY <1>1, <1>2, <2>2, GoesOn
  <2>4. /\ was.site \in Known /\ sites[was.site] \in Site /\ was.row = sites[was.site]
    BY <1>1, <1>2, RowFacts DEF Handed, Known
  <2>5. row.user = sites[was.site].user
    BY <2>4 DEF Site
  <2> HIDE DEF row
  <2>6. \A i \in Ids : /\ i # was.site => sites'[i] = sites[i]
                       /\ i = was.site => sites'[i] = row
    BY <1>2, <2>1 DEF TypeInv, TablesOK
  <2>7. \A i \in Ids : sites'[i] # None => i \in Known /\ sites'[i].user = sites[i].user
    BY <2>4, <2>5, <2>6 DEF Known
  <2>8. Linked'
    BY <1>1, <1>2, <1>3, <2>7 DEF Linked, Known
  <2> QED BY <2>3, <2>8 DEF DeleteAfter
<1> QED BY <1>4, <1>5

\* A user's row is saved with the platform it was read with.
LEMMA UserLinks ==
  ASSUME DeleteInv, NEW u \in UserIds, users[u] # None, NEW row, row.site = users[u].site,
         row # None, users' = users \/ users' = [users EXCEPT ![u] = row],
         UNCHANGED <<sites, keys>>
  PROVE  Linked'
<1>1. /\ TypeInv /\ Linked
  BY DEF DeleteInv, AccountInv, SerialInv
<1>2. \A v \in UserIds : /\ users'[v] # None => users[v] # None
                         /\ users[v] # None => users'[v].site = users[v].site
  BY <1>1 DEF TypeInv, TablesOK
<1>3. \A i \in Known : sites[i].user \in UserIds \cup {None}
  BY <1>1, RowFacts DEF Known
<1> QED BY <1>1, <1>2, <1>3 DEF Linked, Known, keys

LEMMA SaveOwnerLinks ==
  ASSUME DeleteInv, NEW r \in Requests, SaveOwner(r)
  PROVE  DeleteAfter(r)
<1> DEFINE was == req[r]
           new == req'[r]
<1>1. was.pc = "saveOwner" /\ was.pc \notin {"scoped", "scopedRow"} \cup Removing \cup Resting
      /\ UNCHANGED <<sites, keys>> /\ nextUser' = nextUser /\ nextSite' = nextSite
  BY DEF SaveOwner, Removing, Resting, keys
<1>2. /\ TypeInv /\ was \in RequestStates /\ req \in [Requests -> RequestStates]
      /\ was.op # "delete" /\ Current(was) /\ Holds(was.pc, was)
  BY <1>1, DeleteView, NotDeleting
<1>3. /\ was.row.user \in UserIds /\ users[was.row.user] # None /\ was.owner # None
      /\ was.owner.site = users[was.row.user].site
  <2>1. /\ was.row.user \in UserIds /\ users[was.row.user] # None /\ was.owner # None
        /\ was.owner = [users[was.row.user] EXCEPT !.home = was.row.home]
    BY <1>1, <1>2, NoneFacts DEF Current, Holds, HoldsRow, HoldsUser, Placed, OnRow
  <2>2. users[was.row.user] \in User
    BY <1>2, <2>1, RowFacts
  <2> QED BY <2>1, <2>2 DEF User
<1>4. Linked'
  <2>1. users' = users \/ users' = [users EXCEPT ![was.row.user] = was.owner]
    BY DEF SaveOwner
  <2> QED BY <1>1, <1>3, <2>1, UserLinks
<1>5. Handed(req[r])' /\ Deleting(req[r])'
  <2>1. ASSUME NEW step \in {"share", "dropRow"}, Goto(r, step)
        PROVE  Handed(req[r])' /\ Deleting(req[r])'
    BY <1>1, <1>2, <2>1, GotoKeeps, GoesOn
  <2>2. ASSUME NEW result \in Resting, Finish(r, result)
        PROVE  Handed(req[r])' /\ Deleting(req[r])'
    BY <1>1, <2>2, FinishAfter
  <2> QED BY <2>1, <2>2 DEF SaveOwner, Abandon, Resting
<1> QED BY <1>4, <1>5 DEF DeleteAfter

\* The change of a user keeps the platform of the row it read.
LEMMA ChangeUserLinks ==
  ASSUME DeleteInv, NEW r \in Requests, SetPassword(r) \/ Relock(r) \/ SetActive(r) \/ Stamp(r)
  PROVE  DeleteAfter(r)
<1> DEFINE was == req[r]
           new == req'[r]
<1>1. /\ was.pc \in {"chpasswd", "setLock", "relock", "stamp"}
      /\ was.pc \notin {"scoped", "scopedRow"} \cup Removing \cup Resting
      /\ UNCHANGED <<sites, keys>> /\ nextUser' = nextUser /\ nextSite' = nextSite
  BY DEF SetPassword, Relock, SetActive, Stamp, Removing, Resting, keys
<1>2. /\ TypeInv /\ was \in RequestStates /\ req \in [Requests -> RequestStates]
      /\ was.op # "delete" /\ Current(was) /\ Holds(was.pc, was) /\ Handed(was)
  BY <1>1, DeleteView, NotDeleting
<1>3. /\ was.uid \in UserIds /\ users[was.uid] # None /\ was.owner # None
      /\ was.owner.site = users[was.uid].site
  BY <1>1, <1>2, NoneFacts DEF Current, Holds, HoldsUser, OnName, OnUser, Handed
<1>4. Linked'
  <2>1. users' = users \/ users' = [users EXCEPT ![was.uid] = was.owner]
    BY DEF SetPassword, Relock, SetActive, Stamp
  <2> QED BY <1>1, <1>3, <2>1, UserLinks
<1>5. Handed(req[r])' /\ Deleting(req[r])'
  <2>1. ASSUME NEW step \in {"stamp", "relock"}, Goto(r, step), users' = users
        PROVE  Handed(req[r])' /\ Deleting(req[r])'
    <3>1. /\ new.pc = step /\ new.op = was.op /\ new.uid = was.uid /\ new.owner = was.owner
          /\ new.site = was.site
      BY <1>2, <2>1, GotoKeeps
    <3> QED BY <1>1, <1>2, <1>3, <2>1, <3>1 DEF Handed, Deleting
  <2>2. ASSUME NEW result \in Resting, Finish(r, result)
        PROVE  Handed(req[r])' /\ Deleting(req[r])'
    BY <1>1, <2>2, FinishAfter
  <2> QED BY <2>1, <2>2 DEF SetPassword, Relock, SetActive, Stamp, SetLockThen, AfterPassword,
        Resting
<1> QED BY <1>4, <1>5 DEF DeleteAfter

\* Rows that go leave no reference behind.
LEMMA GoneLinks ==
  ASSUME DeleteInv, UNCHANGED keys,
         \A u \in UserIds : users'[u] = users[u] \/ users'[u] = None,
         \A i \in Ids : sites'[i] # None =>
           /\ sites[i] # None
           /\ sites'[i].user = sites[i].user \/ sites'[i].user = None
  PROVE  Linked'
<1>1. /\ TypeInv /\ Linked
  BY DEF DeleteInv, AccountInv, SerialInv
<1>2. \A i \in Ids : sites[i] # None => sites[i].user \in UserIds \cup {None}
  BY <1>1, RowFacts
<1>3. nextSite' = nextSite /\ nextUser' = nextUser
  BY DEF keys
<1>4. \A i \in Ids : sites'[i] # None => i < nextSite
  BY <1>1 DEF Linked, Known
<1>5. \A u \in UserIds : users'[u] # None /\ users'[u].site # None => users'[u].site < nextSite
  BY <1>1 DEF Linked
<1>6. \A i \in Ids : sites'[i] # None /\ sites'[i].user # None =>
        /\ sites'[i].user < nextUser
        /\ users'[sites'[i].user] # None => users'[sites'[i].user].site # i
  BY <1>1, <1>2 DEF Linked, Known
<1> QED BY <1>3, <1>4, <1>5, <1>6 DEF Linked, Known

LEMMA DropRowLinks ==
  ASSUME DeleteInv, NEW r \in Requests, DropRow(r)
  PROVE  DeleteAfter(r)
<1> DEFINE was == req[r]
<1>1. was.pc = "dropRow" /\ was.pc \notin {"scoped", "scopedRow"} \cup Removing \cup Resting
      /\ UNCHANGED <<users, keys>> /\ nextUser' = nextUser /\ nextSite' = nextSite
      /\ Goto(r, "dropTree")
  BY DEF DropRow, Removing, Resting, keys
<1>2. TypeInv /\ was.op # "delete" /\ req \in [Requests -> RequestStates]
  BY <1>1, DeleteView, NotDeleting
<1>3. sites' = sites \/ sites' = [sites EXCEPT ![was.site] = None]
  BY DEF DropRow
<1>4. Linked'
  BY <1>1, <1>2, <1>3, GoneLinks DEF TypeInv, TablesOK
<1> QED BY <1>1, <1>2, <1>4, GotoKeeps, GoesOn DEF DeleteAfter

LEMMA WithoutLinks ==
  ASSUME DeleteInv, NEW u \in UserIds, WithoutUser(u), UNCHANGED keys
  PROVE  /\ Linked'
         /\ users'[u] = None /\ \A v \in UserIds \ {u} : users'[v] = users[v]
         /\ \A j \in Ids : /\ sites'[j] # None <=> sites[j] # None
                           /\ sites[j] # None /\ sites[j].user # u => sites'[j] = sites[j]
<1>1. TypeInv
  BY DEF DeleteInv, AccountInv, SerialInv
<1>2. users'[u] = None /\ \A v \in UserIds \ {u} : users'[v] = users[v]
  BY <1>1 DEF WithoutUser, TypeInv, TablesOK
<1>3. \A j \in Ids : sites[j] # None =>
        /\ [sites[j] EXCEPT !.user = None] # None /\ [sites[j] EXCEPT !.user = None].user = None
  <2>1. \A j \in Ids : sites[j] # None =>
          sites[j] \in Site /\ [sites[j] EXCEPT !.user = None] \in Site
    BY <1>1, RowFacts DEF Site
  <2> QED BY <2>1, NoneFacts DEF Site
<1>4. \A j \in Ids : /\ sites'[j] # None <=> sites[j] # None
                     /\ sites[j] # None /\ sites[j].user # u => sites'[j] = sites[j]
                     /\ sites'[j] # None => sites'[j].user = sites[j].user \/ sites'[j].user = None
  BY <1>3 DEF WithoutUser
<1>5. Linked'
  BY <1>2, <1>4, GoneLinks
<1> QED BY <1>2, <1>4, <1>5

LEMMA DeleteUserRowLinks ==
  ASSUME DeleteInv, NEW r \in Requests, DeleteUserRow(r)
  PROVE  DeleteAfter(r)
<1> DEFINE was == req[r]
<1>1. was.pc = "userRow" /\ was.pc \notin {"scoped", "scopedRow"} \cup Removing \cup Resting
      /\ UNCHANGED keys /\ nextUser' = nextUser /\ nextSite' = nextSite
  BY DEF DeleteUserRow, Removing, Resting, keys
<1>2. /\ TypeInv /\ was.op # "delete" /\ was.uid \in UserIds
      /\ req \in [Requests -> RequestStates]
  BY <1>1, DeleteView, NotDeleting DEF Holds, HoldsUser, OnUser, OnName
<1>3. Linked'
  <2>1. CASE UNCHANGED <<users, sites>>
    BY <1>1, <2>1, SameLinks
  <2>2. CASE WithoutUser(was.uid)
    BY <1>1, <1>2, <2>2, WithoutLinks
  <2> QED BY <2>1, <2>2 DEF DeleteUserRow
<1>4. CASE Goto(r, "load")
  BY <1>1, <1>2, <1>3, <1>4, GotoKeeps, GoesOn DEF DeleteAfter
<1>5. CASE Finish(r, "failed")
  BY <1>1, <1>3, <1>5, FinishAfter DEF Resting, DeleteAfter
<1> QED BY <1>4, <1>5 DEF DeleteUserRow

-----------------------------------------------------------------------------
(* The deletion of a platform. *)
\* A deletion that gives up.
LEMMA GivesUp ==
  ASSUME DeleteInv, NEW r \in Requests, req[r].pc \notin Resting, GiveUp(r),
         UNCHANGED <<users, sites, keys>>
  PROVE  DeleteAfter(r)
BY SameLinks, FinishAfter DEF GiveUp, Resting, DeleteAfter

\* The users of the list go one by one; those that stay have another platform.
LEMMA ScopedDeletes ==
  ASSUME DeleteInv, NEW r \in Requests, ScopedUser(r) \/ DeleteFails(r)
  PROVE  DeleteAfter(r)
<1> DEFINE was == req[r]
           new == req'[r]
<1>1. was.pc = "scoped" /\ was.pc \notin Resting /\ UNCHANGED <<users, sites, keys>>
      /\ nextUser' = nextUser /\ nextSite' = nextSite
  BY DEF ScopedUser, DeleteFails, Resting, keys
<1>2. /\ TypeInv /\ OneName /\ Linked /\ Handed(was) /\ Deleting(was) /\ Holds(was.pc, was)
      /\ was \in RequestStates /\ req \in [Requests -> RequestStates]
      /\ was.site \in Ids /\ was.left \in SUBSET UserIds
  BY <1>1, DeleteView, InHand DEF Holds, HoldsRow, Placed, OnRow
<1>3. CASE DeleteFails(r)
  BY <1>1, <1>3, GivesUp DEF DeleteFails
<1>4. ASSUME NEW u \in was.left, users[u] = None \/ Shared(r, u),
             req' = [req EXCEPT ![r].left = @ \ {u}]
      PROVE  DeleteAfter(r)
  <2>1. /\ new.pc = was.pc /\ new.op = was.op /\ new.site = was.site /\ new.uid = was.uid
        /\ new.row = was.row /\ new.left = was.left \ {u}
    BY <1>2, <1>4 DEF RequestStates
  <2>2. users[u] # None /\ was.op = "delete" => Spared(was, u)
    <3> SUFFICES ASSUME users[u] # None, was.op = "delete" PROVE Spared(was, u)
      OBVIOUS
    <3>1. u = was.row.user /\ \E s \in OthersOf(was.site) : s.user = u
      BY <1>4 DEF Shared
    <3>2. \E j \in Ids \ {was.site} : sites[j] # None /\ sites[j].user = u
      BY <3>1 DEF OthersOf
    <3>3. u # None
      BY <1>2, NoneFacts
    <3> QED BY <1>2, <3>1, <3>2, <3>3 DEF Deleting, Spared
  <2>3. Handed(req[r])'
    BY <1>1, <1>2, <2>1 DEF Handed
  <2>4. Deleting(req[r])'
    BY <1>1, <1>2, <2>1, <2>2 DEF Deleting, Spared, Removing
  <2> QED BY <1>1, <2>3, <2>4, SameLinks DEF DeleteAfter
<1>5. ASSUME NEW u \in was.left, users[u] # None,
             req' = [req EXCEPT ![r].pc = "scopedRow", ![r].uid = u,
                                ![r].name = users[u].name, ![r].left = @ \ {u}]
      PROVE  DeleteAfter(r)
  <2>1. /\ new.pc = "scopedRow" /\ new.op = was.op /\ new.site = was.site /\ new.uid = u
        /\ new.row = was.row /\ new.left = was.left \ {u}
    BY <1>2, <1>5 DEF RequestStates
  <2>2. u < nextUser
    BY <1>2, <1>5 DEF OneName
  <2>3. Handed(req[r])'
    BY <1>1, <1>2, <2>1, <2>2 DEF Handed
  <2>4. Deleting(req[r])'
    BY <1>1, <1>2, <2>1 DEF Deleting, Spared, Removing
  <2> QED BY <1>1, <2>3, <2>4, SameLinks DEF DeleteAfter
<1> QED BY <1>3, <1>4, <1>5 DEF ScopedUser

LEMMA ScopedRowDeletes ==
  ASSUME DeleteInv, NEW r \in Requests, ScopedUserRow(r)
  PROVE  DeleteAfter(r)
<1> DEFINE was == req[r]
           new == req'[r]
<1>1. was.pc = "scopedRow" /\ was.pc \notin Resting /\ UNCHANGED keys
      /\ nextUser' = nextUser /\ nextSite' = nextSite
  BY DEF ScopedUserRow, Resting, keys
<1>2. /\ TypeInv /\ Handed(was) /\ Deleting(was) /\ Holds(was.pc, was) /\ was.uid \in UserIds
      /\ req \in [Requests -> RequestStates] /\ was.row \in Site
  BY <1>1, DeleteView DEF Holds, HoldsUser, HoldsRow, OnUser, OnName, OnRow
<1>3. CASE GiveUp(r) /\ UNCHANGED <<users, sites>>
  BY <1>1, <1>3, GivesUp
<1>4. CASE WithoutUser(was.uid) /\ Goto(r, "scoped")
  <2>1. /\ new.pc = "scoped" /\ new.op = was.op /\ new.site = was.site /\ new.uid = was.uid
        /\ new.row = was.row /\ new.left = was.left
    BY <1>2, <1>4, GotoKeeps
  <2>2. /\ Linked'
        /\ users'[was.uid] = None /\ \A v \in UserIds \ {was.uid} : users'[v] = users[v]
        /\ \A j \in Ids : /\ sites'[j] # None <=> sites[j] # None
                          /\ sites[j] # None /\ sites[j].user # was.uid => sites'[j] = sites[j]
    BY <1>1, <1>2, <1>4, WithoutLinks
  <2>3. Handed(req[r])'
    BY <1>1, <1>2, <2>1 DEF Handed
  <2>4. Deleting(req[r])'
    <3>1. ASSUME NEW u \in UserIds \ {was.uid}, Spared(was, u) PROVE Spared(was, u)'
      <4>1. users'[u] = users[u]
        BY <2>2
      <4>2. ASSUME NEW j \in Ids \ {was.site}, sites[j] # None, sites[j].user = u
            PROVE  sites'[j] # None /\ sites'[j].user = u
        BY <2>2, <4>2
      <4>3. ASSUME u = was.row.user
            PROVE  \E j \in Ids \ {was.site} : sites'[j] # None /\ sites'[j].user = u
        BY <3>1, <4>2, <4>3 DEF Spared
      <4>4. was' = new
        OBVIOUS
      <4> QED BY <2>1, <3>1, <4>1, <4>3, <4>4 DEF Spared
    <3>2. was.row.user \in UserIds \cup {None}
      BY <1>2, RowFacts
    <3> QED BY <1>1, <1>2, <2>1, <2>2, <3>1, <3>2 DEF Deleting, Removing
  <2> QED BY <2>2, <2>3, <2>4 DEF DeleteAfter
<1> QED BY <1>3, <1>4 DEF ScopedUserRow

\* The file and the tree go after the users, and then the row.
LEMMA RemovalDeletes ==
  ASSUME DeleteInv, NEW r \in Requests, Unserve(r) \/ RemoveTree(r) \/ DeleteRow(r)
  PROVE  DeleteAfter(r)
<1> DEFINE was == req[r]
           new == req'[r]
<1>1. /\ was.pc \in {"scoped", "removeTree", "deleteRow"} /\ was.pc \notin Resting
      /\ UNCHANGED <<users, keys>> /\ nextUser' = nextUser /\ nextSite' = nextSite
  BY DEF Unserve, RemoveTree, DeleteRow, Resting, keys
<1>2. /\ TypeInv /\ Linked /\ Handed(was) /\ Deleting(was) /\ Holds(was.pc, was)
      /\ req \in [Requests -> RequestStates] /\ was.row \in Site
      /\ NameOf[was.row.home] \in Names
  <2>1. /\ TypeInv /\ Linked /\ Handed(was) /\ Deleting(was) /\ Holds(was.pc, was)
        /\ req \in [Requests -> RequestStates] /\ was.row \in Site
    BY <1>1, DeleteView DEF Holds, HoldsRow, OnRow
  <2> QED BY <2>1, RowFacts, NameFacts
<1>3. CASE GiveUp(r) /\ sites' = sites
  BY <1>1, <1>3, GivesUp
<1>4. ASSUME NEW step \in Removing, Goto(r, step), sites' = sites,
             was.op = "delete" => was.left = {} /\ vhosts'[NameOf[was.row.home]] = {},
             step = "deleteRow" => was.row.home \notin trees'
      PROVE  DeleteAfter(r)
  <2>1. /\ new.pc = step /\ new.op = was.op /\ new.site = was.site /\ new.uid = was.uid
        /\ new.row = was.row /\ new.left = was.left
    BY <1>2, <1>4, GotoKeeps
  <2>2. Handed(req[r])'
    BY <1>1, <1>2, <2>1 DEF Handed, Removing
  <2>3. Deleting(req[r])'
    BY <1>1, <1>2, <1>4, <2>1 DEF Deleting, Spared, Removing
  <2> QED BY <1>1, <1>4, <2>2, <2>3, SameLinks DEF DeleteAfter
<1>5. CASE Unserve(r)
  <2>1. CASE Goto(r, "removeTree") /\ vhosts' = Unserved(r) /\ was.left = {} /\ sites' = sites
    <3>1. vhosts'[NameOf[was.row.home]] = {}
      BY <1>2, <2>1 DEF Unserved, TypeInv, TablesOK
    <3> QED BY <1>4, <2>1, <3>1 DEF Removing
  <2> QED BY <1>3, <1>5, <2>1 DEF Unserve
<1>6. CASE RemoveTree(r)
  <2>1. CASE Goto(r, "deleteRow") /\ trees' = trees \ {was.row.home} /\ vhosts' = vhosts
             /\ sites' = sites /\ was.pc = "removeTree"
    BY <1>2, <1>4, <2>1 DEF Deleting, Removing
  <2> QED BY <1>3, <1>6, <2>1 DEF RemoveTree
<1>7. CASE DeleteRow(r)
  <2>1. CASE sites' = [sites EXCEPT ![was.site] = None] /\ Finish(r, "ok")
    <3>1. Linked'
      BY <1>1, <1>2, <2>1, GoneLinks DEF TypeInv, TablesOK
    <3> QED BY <1>1, <2>1, <3>1, FinishAfter DEF Resting, DeleteAfter
  <2> QED BY <1>3, <1>7, <2>1 DEF DeleteRow
<1> QED BY <1>5, <1>6, <1>7

\* A deletion begins with the platform's users on its list.
LEMMA BeginDeletes ==
  ASSUME ~Overlapping, DeleteInv, NEW r \in Requests, Begin(r)
  PROVE  /\ \A q \in Requests \ {r} : req[q].pc \in Resting /\ req'[q] = req[q]
         /\ UNCHANGED keys
         /\ DeleteAfter(r)
<1> DEFINE q == req'[r]
<1>1. /\ \A s \in Requests : req[s].pc \in Resting
      /\ \A s \in Requests \ {r} : req'[s] = req[s]
      /\ UNCHANGED <<sites, users, keys>>
      /\ nextSite' = nextSite /\ nextUser' = nextUser
      /\ Opening(q) /\ TypeInv
  BY BeginOpens DEF DeleteInv, AccountInv, SerialInv, keys
<1>2. /\ OneName /\ Linked /\ Linked'
      /\ \A u \in UserIds : users[u] # None => u < nextUser
      /\ \A i \in Known : i < nextSite
  BY <1>1, SameLinks DEF DeleteInv, AccountInv, OneName, Linked
<1>3. /\ q.uid # None => q.uid < nextUser
      /\ q.op = "addUser" => q.site \in Known
      /\ q.pc = "store" => q.site \in Known /\ q.row = sites[q.site]
      /\ q.pc \in {"chpasswd", "setLock"} => q.owner.site = users[q.uid].site
      /\ q.pc \notin {"relock", "stamp"}
      /\ q.op = "delete" => /\ q.pc = "scoped" /\ q.site \in Known /\ q.row = sites[q.site]
                            /\ q.left = ScopedUsers(q.site)
  BY <1>1, <1>2 DEF Opening
<1>4. Handed(req[r])'
  BY <1>1, <1>2, <1>3 DEF Handed, Known
<1>5. Deleting(req[r])'
  <2> SUFFICES ASSUME q.op = "delete" PROVE Deleting(req[r])'
    BY DEF Deleting
  <2>1. \A u \in UserIds : users[u] # None =>
          u \in q.left \/ (users[u].site # q.site /\ u # q.row.user)
    BY <1>3, NoneFacts DEF ScopedUsers
  <2>2. q.row.user # None /\ users[q.row.user] # None => users[q.row.user].site # q.site
    BY <1>2, <1>3 DEF Linked
  <2> QED BY <1>1, <1>3, <2>1, <2>2 DEF Deleting, Spared, Removing
<1> QED BY <1>1, <1>2, <1>4, <1>5 DEF DeleteAfter

LEMMA InitDeletes == Init => DeleteInv
<1> SUFFICES ASSUME Init PROVE DeleteInv
  OBVIOUS
<1>1. \A r \in Requests : req[r].pc = "idle" /\ req[r].op = "none" /\ req[r].uid = None
  BY DEF Init, NoReq
<1>2. Known = {} /\ \A u \in UserIds : users[u] = None
  BY DEF Init, Known
<1>3. Linked
  BY <1>2 DEF Linked
<1>4. \A r \in Requests : Handed(req[r]) /\ Deleting(req[r])
  BY <1>1 DEF Handed, Deleting
<1> QED BY <1>3, <1>4, InitAccounts DEF DeleteInv

\* Keys are only given out.
LEMMA KeysGrow ==
  ASSUME TypeInv, NEW r \in Requests, Step(r)
  PROVE  nextUser <= nextUser' /\ nextSite <= nextSite'
<1>1. nextUser \in Nat /\ nextSite \in Nat
  BY PlatformsAssumption DEF TypeInv, TablesOK
<1>2. \/ UNCHANGED keys
      \/ nextUser' = nextUser + 1 /\ nextSite' = nextSite
      \/ nextUser' = nextUser /\ nextSite' = nextSite + 1
  BY DEF Step, CheckName, MakeAccount, SaveUser, UndoAccount, CheckDomains, Insert, Fetch, Store,
    Load, Home, SaveOwner, Share, Vhost, DropRow, DropTree, FindUser, DeleteAccount,
    DeleteUserRow, ScopedUser, ScopedUserRow, DeleteFails, Unserve, RemoveTree, DeleteRow,
    SetPassword, Relock, SetActive, Stamp, keys
<1> QED BY <1>1, <1>2 DEF keys

LEMMA NextDeletes ==
  ASSUME ~Overlapping
  PROVE  DeleteInv /\ [Next]_vars => DeleteInv'
<1> SUFFICES ASSUME DeleteInv, [Next]_vars PROVE DeleteInv'
  OBVIOUS
<1>1. AccountInv' /\ AccountInv /\ TypeInv
  BY NextAccounts DEF DeleteInv, AccountInv, SerialInv
<1>2. nextUser \in Nat /\ nextSite \in Nat
  BY <1>1, PlatformsAssumption DEF TypeInv, TablesOK
<1>3. CASE UNCHANGED vars
  <2>1. UNCHANGED <<sites, users, nextSite, nextUser, vhosts, trees, req>> /\ UNCHANGED keys
    BY <1>3 DEF vars, keys
  <2>2. Linked'
    BY <2>1, SameLinks
  <2>3. (\A r \in Requests : Handed(req[r]) /\ Deleting(req[r]))'
    BY <2>1 DEF DeleteInv, Handed, Deleting, Spared, Known
  <2> QED BY <1>1, <2>2, <2>3 DEF DeleteInv
<1>4. CASE Crash
  <2>1. /\ UNCHANGED <<users, sites, keys>>
        /\ \A r \in Requests : req'[r].pc = "idle" /\ req'[r].op = "none" /\ req'[r].uid = None
    BY <1>4 DEF Crash, NoReq
  <2>2. (\A r \in Requests : Handed(req[r]) /\ Deleting(req[r]))'
    BY <2>1 DEF Handed, Deleting
  <2> QED BY <1>1, <2>1, <2>2, SameLinks DEF DeleteInv
<1>5. ASSUME NEW r \in Requests, Begin(r) PROVE DeleteInv'
  <2>1. /\ \A q \in Requests \ {r} : req[q].pc \in Resting /\ req'[q] = req[q]
        /\ nextUser' = nextUser /\ nextSite' = nextSite /\ DeleteAfter(r)
    BY <1>5, BeginDeletes DEF keys
  <2> QED BY <1>1, <1>2, <2>1, OneDeletes
<1>6. ASSUME NEW r \in Requests, Step(r) PROVE DeleteInv'
  <2>1. req[r].pc \notin Resting /\ \A q \in Requests \ {r} : req'[q] = req[q]
    BY <1>1, <1>6, OneStep DEF OneMoves
  <2>2. DeleteAfter(r)
    BY <1>6, QuietDeletes, SaveUserLinks, InsertLinks, StoreLinks, SaveOwnerLinks,
      ChangeUserLinks, DropRowLinks, DeleteUserRowLinks, ScopedDeletes, ScopedRowDeletes,
      RemovalDeletes DEF Step
  <2> QED BY <1>1, <1>6, <2>1, <2>2, KeysGrow, OthersRest, OneDeletes
<1> QED BY <1>3, <1>4, <1>5, <1>6 DEF Next

-----------------------------------------------------------------------------
\* The step that ends a deletion.
LEMMA DeletionEnds ==
  ASSUME DeleteInv, NEW r \in Requests, Step(r), req[r].op = "delete"
  PROVE  /\ req'[r].pc = "ok" =>
              LET i == req[r].site
                  row == req[r].row
              IN /\ sites'[i] = None /\ row.home \notin trees'
                 /\ vhosts'[NameOf[row.home]] = {}
                 /\ \A u \in UserIds : users'[u] # None =>
                      /\ users'[u].site # i
                      /\ u = row.user => \E j \in Ids : sites'[j] # None /\ sites'[j].user = u
         /\ req'[r].pc = "failed" => faults' > faults
<1> DEFINE was == req[r]
<1>1. /\ TypeInv /\ Deleting(was) /\ Holds(was.pc, was) /\ was \in RequestStates
      /\ req \in [Requests -> RequestStates] /\ was.pc \in {"scoped", "scopedRow"} \cup Removing
  <2>1. TypeInv
    BY DEF DeleteInv, AccountInv, SerialInv
  <2> QED BY <2>1, InHand DEF DeleteInv, Deleting, TypeInv, ReqsOK
<1>2. Fault => faults' > faults
  <2>1. faults \in Nat
    BY <1>1, PlatformsAssumption DEF TypeInv, TablesOK
  <2> QED BY <2>1 DEF Fault
<1>3. \/ ScopedUser(r) \/ DeleteFails(r) \/ ScopedUserRow(r) \/ Unserve(r) \/ RemoveTree(r)
      \/ DeleteRow(r)
  BY <1>1 DEF Removing, Step, CheckName, MakeAccount, SaveUser, UndoAccount, CheckDomains, Insert,
    Fetch, Store, Load, Home, SaveOwner, Share, Vhost, DropRow, DropTree, FindUser,
    DeleteAccount, DeleteUserRow, SetPassword, Relock, SetActive, Stamp
<1>4. CASE DeleteFails(r) \/ ScopedUserRow(r) \/ Unserve(r) \/ RemoveTree(r)
  BY <1>1, <1>2, <1>4, Moves DEF DeleteFails, ScopedUserRow, Unserve, RemoveTree, Phases
<1>5. CASE ScopedUser(r)
  <2>1. was.pc = "scoped"
    BY <1>5 DEF ScopedUser
  <2>2. ASSUME NEW u, req' = [req EXCEPT ![r].left = @ \ {u}] PROVE req'[r].pc = "scoped"
    BY <1>1, <2>1, <2>2 DEF RequestStates
  <2>3. ASSUME NEW u, req' = [req EXCEPT ![r].pc = "scopedRow", ![r].uid = u,
                                         ![r].name = users[u].name, ![r].left = @ \ {u}]
        PROVE  req'[r].pc = "scopedRow"
    BY <1>1, <2>3 DEF RequestStates
  <2>4. req'[r].pc \in {"scoped", "scopedRow"}
    BY <1>5, <2>2, <2>3 DEF ScopedUser
  <2> QED BY <2>4
<1>6. CASE DeleteRow(r)
  <2>1. CASE GiveUp(r) /\ Fault
    BY <1>1, <1>2, <2>1, Moves
  <2>2. CASE sites' = [sites EXCEPT ![was.site] = None] /\ Finish(r, "ok")
    <3>1. /\ was.pc = "deleteRow" /\ UNCHANGED <<users, trees, vhosts>> /\ was.site \in Ids
          /\ req'[r].pc = "ok"
      BY <1>1, <1>6, <2>2, Moves DEF DeleteRow, Resting, Holds, HoldsRow, Placed, OnRow
    <3>2. sites'[was.site] = None /\ \A j \in Ids \ {was.site} : sites'[j] = sites[j]
      BY <1>1, <2>2, <3>1 DEF TypeInv, TablesOK
    <3>3. /\ was.row.home \notin trees' /\ vhosts'[NameOf[was.row.home]] = {}
          /\ \A u \in UserIds : users[u] # None => Spared(was, u)
      BY <1>1, <3>1 DEF Deleting, Removing
    <3>4. \A u \in UserIds : users'[u] # None =>
            /\ users'[u].site # was.site
            /\ u = was.row.user => \E j \in Ids : sites'[j] # None /\ sites'[j].user = u
      BY <3>1, <3>2, <3>3 DEF Spared
    <3> QED BY <3>1, <3>2, <3>3, <3>4
  <2> QED BY <1>6, <2>1, <2>2 DEF DeleteRow
<1> QED BY <1>3, <1>4, <1>5, <1>6

\* A deletion that reports success leaves nothing of the platform, and one that reports
\* failure had a step that failed, as long as operators take turns: whatever an earlier
\* deletion or crash left half way, WebsiteService.Delete goes through all of it again,
\* and the row is the last to go.
THEOREM SerialDeletesComplete ==
  ASSUME ~Overlapping
  PROVE  Spec => DeletesComplete
<1> DEFINE Good(r) ==
       req[r].op = "delete" =>
         /\ req'[r].pc = "ok" =>
              LET i == req[r].site
                  row == req[r].row
              IN /\ sites'[i] = None /\ row.home \notin trees'
                 /\ vhosts'[NameOf[row.home]] = {}
                 /\ \A u \in UserIds : users'[u] # None =>
                      /\ users'[u].site # i
                      /\ u = row.user => \E j \in Ids : sites'[j] # None /\ sites'[j].user = u
         /\ req'[r].pc = "failed" => faults' > faults
<1>1. ASSUME DeleteInv, Next, NEW r \in Requests PROVE Good(r)
  <2> SUFFICES ASSUME req[r].op = "delete", req'[r].pc \in {"ok", "failed"} PROVE Good(r)
    OBVIOUS
  <2>1. req[r].pc \in {"scoped", "scopedRow"} \cup Removing /\ TypeInv
    BY <1>1 DEF DeleteInv, Deleting, AccountInv, SerialInv
  <2>2. ~Crash
    BY DEF Crash, NoReq
  <2>3. ASSUME NEW q \in Requests, Begin(q) PROVE FALSE
    <3>1. req[r].pc \in Resting
      BY <2>1, <2>3, BeginOpens
    <3> QED BY <2>1, <3>1 DEF Resting, Removing
  <2>4. ASSUME NEW q \in Requests, Step(q), q # r PROVE FALSE
    <3>1. req'[r] = req[r]
      BY <2>1, <2>4, OneStep DEF OneMoves
    <3> QED BY <2>1, <3>1 DEF Removing
  <2>5. Step(r)
    BY <1>1, <2>2, <2>3, <2>4 DEF Next
  <2> QED BY <1>1, <2>5, DeletionEnds
<1>2. DeleteInv /\ [Next]_vars => [\A r \in Requests : Good(r)]_vars
  BY <1>1
<1> QED BY <1>2, InitDeletes, NextDeletes, PTL DEF Spec, DeletesComplete
=============================================================================

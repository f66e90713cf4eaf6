------------------------------ MODULE Platforms ------------------------------
(***************************************************************************)
(* The life of a platform of DeployCP: its row and domains in the panel's  *)
(* database, the site users that log in to it, their accounts on the host, *)
(* its directory tree and its virtual host, under the handlers that        *)
(* create, change and delete platforms and site users                      *)
(* (src/internal/handlers/website_handler.go, and in                       *)
(* src/internal/services website_service.go and site_user_service.go).     *)
(*                                                                         *)
(* A handler is a sequence of database calls and host commands, each one a *)
(* step that may fail.  Nothing spans them: no lock, and no transaction    *)
(* beyond a repository call.  Writing a virtual host is one step here;     *)
(* NginxTransaction has its detail.                                        *)
(***************************************************************************)
EXTENDS Naturals, FiniteSets

CONSTANTS
  Domains,      \* domain names; the home of a platform is named for its first
  NameOf,       \* websiteNameFromDomain, the name of the configuration file
  Usernames,    \* names of accounts on the host
  Requests,     \* handlers that may be running
  MaxSites,     \* bound on the platforms ever created
  MaxUsers,     \* bound on the site users ever created
  Overlapping,  \* may requests be in flight together?
  MaxFaults,    \* bound on failing calls and commands
  MaxCrashes,   \* bound on crashes of the panel
  None

\* The keys are AUTOINCREMENT: one that was used is not used again.
Ids     == 1..MaxSites
UserIds == 1..MaxUsers
Names   == {NameOf[d] : d \in Domains}

ASSUME PlatformsAssumption ==
  /\ MaxSites \in Nat /\ MaxUsers \in Nat /\ MaxFaults \in Nat /\ MaxCrashes \in Nat
  /\ DOMAIN NameOf = Domains
  /\ Overlapping \in BOOLEAN
  /\ None \notin Ids \cup UserIds \cup Usernames \cup Domains
  /\ None \notin [home : Domains, domains : SUBSET Domains, user : UserIds \cup {None}]
  /\ None \notin [name : Usernames, home : Domains, site : Ids \cup {None}, active : BOOLEAN]
  /\ None \notin [home : Domains, locked : BOOLEAN]

VARIABLES
  sites,     \* table platforms, with the domains of table website_domains
  users,     \* table site_users
  accounts,  \* /etc/passwd and /etc/shadow
  trees,     \* the platform homes that hold their files
  vhosts,    \* the domains of each nginx file, {} where there is none
  req,       \* each request: where it is and what it holds in memory
  nextSite, nextUser, faults, crashes,
  scarred,   \* accounts a failure or a crash left out of step with the panel
  behind     \* platforms whose last change failed or was cut short

vars   == <<sites, users, accounts, trees, vhosts, req, nextSite, nextUser,
            faults, crashes, scarred, behind>>
keys   == <<nextSite, nextUser>>
ghosts == <<scarred, behind>>

Site    == [home : Domains, domains : SUBSET Domains, user : UserIds \cup {None}]
User    == [name : Usernames, home : Domains, site : Ids \cup {None}, active : BOOLEAN]
Account == [home : Domains, locked : BOOLEAN]

Resting == {"idle", "ok", "failed"}
Ops     == {"none", "create", "addUser", "deleteUser", "addDomain", "toggle",
            "delete", "reset", "setActive"}
Phases  == Resting \cup
  {"name", "account", "saveUser", "undoAccount", "domains", "insert", "fetch", "store",
   "load", "home", "saveOwner", "share", "vhost", "dropRow", "dropTree", "findUser",
   "userdel", "userRow", "scoped", "scopedRow", "removeTree", "deleteRow",
   "chpasswd", "relock", "setLock", "stamp"}

NoReq == [pc |-> "idle", op |-> "none",
          site |-> None, uid |-> None,           \* keys it works on
          name |-> None, home |-> None, domains |-> {},  \* its form
          made |-> FALSE,                        \* it created the user uid
          row |-> None, owner |-> None,          \* rows it has read
          left |-> {}]                           \* users its loop has to delete
RequestStates == [pc : Phases, op : Ops, site : Ids \cup {None}, uid : UserIds \cup {None},
              name : Usernames \cup {None}, home : Domains \cup {None},
              domains : SUBSET Domains, made : BOOLEAN, row : Site \cup {None},
              owner : User \cup {None}, left : SUBSET UserIds]

-----------------------------------------------------------------------------
Goto(r, step) == req' = [req EXCEPT ![r].pc = step]
Finish(r, result) == req' = [req EXCEPT ![r] = [NoReq EXCEPT !.pc = result]]
Fault   == faults < MaxFaults /\ faults' = faults + 1
NoFault == UNCHANGED faults

\* A handler that gives up: a platform it leaves is behind its row.
GiveUp(r) ==
  /\ Finish(r, "failed")
  /\ behind' = IF req[r].site = None THEN behind ELSE behind \cup {req[r].site}

UserOf(s)    == IF s.user = None THEN None ELSE users[s.user]
OthersOf(i)  == {s \in {sites[j] : j \in Ids \ {i}} : s # None}
Taken(n)     == \E u \in UserIds : users[u] # None /\ users[u].name = n
\* Mutants: the first domain of the others alone is compared; the platform is
\* compared with itself too.
ClashFirst(i, ds) == \E s \in OthersOf(i) : s.home \in ds
ClashSelf(i, ds)  == \E s \in OthersOf(0) : ds \cap s.domains # {}
Clash(i, ds) == \E s \in OthersOf(i) : ds \cap s.domains # {}

\* Those to whom a platform's tree is shared: its owner, its further users, and
\* whoever has its home.
Members(i, row, owner) ==
  (IF owner = None THEN {} ELSE {owner.name})
    \cup {u.name : u \in {v \in {users[k] : k \in UserIds} :
                            v # None /\ (v.site = i \/ v.home = row.home)}}

\* userdel -rf takes the home directory of the account with it.
Userdel(n) ==
  /\ trees'    = trees \ {accounts[n].home}
  /\ accounts' = [accounts EXCEPT ![n] = None]

\* The file of the platform, and none other with one of its domains.
VhostsWith(row) ==
  [n \in Names |-> IF n = NameOf[row.home] THEN row.domains
                   ELSE IF vhosts[n] \cap row.domains # {} THEN {} ELSE vhosts[n]]

-----------------------------------------------------------------------------
(* The handlers begin. *)
Idle(r) == /\ req[r].pc \in Resting
           /\ Overlapping \/ \A q \in Requests \ {r} : req[q].pc \in Resting
Start(r, rec) == /\ req' = [req EXCEPT ![r] = rec]
                 /\ UNCHANGED <<sites, users, accounts, trees, vhosts, keys,
                                faults, crashes, ghosts>>
Known == {i \in Ids : sites[i] # None}
\* A page is stale: the platform it names has been deleted.
NotFound(r) ==
  /\ Idle(r) /\ Known # Ids
  /\ Start(r, [NoReq EXCEPT !.pc = "failed"])

\* The bounds leave room for every request in flight.
RoomForSite == nextSite + Cardinality({q \in Requests : req[q].op = "create"}) \in Ids
RoomForUser ==
  nextUser + Cardinality({q \in Requests : req[q].op \in {"create", "addUser"}}) \in UserIds

\* A platform for domain d, with a user to be made or one named by the form.
BeginCreate(r) ==
  /\ Idle(r) /\ RoomForSite
  /\ \E d \in Domains :
       \/ RoomForUser /\ \E n \in Usernames :
            Start(r, [NoReq EXCEPT !.pc = "name", !.op = "create", !.name = n,
                                   !.home = d, !.domains = {d}])
       \/ \E u \in UserIds : u < nextUser /\
            Start(r, [NoReq EXCEPT !.pc = "domains", !.op = "create", !.uid = u,
                                   !.home = d, !.domains = {d}])

\* A further user of a platform, whose home is the platform's.
BeginAddUser(r) ==
  /\ Idle(r) /\ RoomForUser
  /\ \E i \in Known, n \in Usernames :
       Start(r, [NoReq EXCEPT !.pc = "name", !.op = "addUser", !.site = i, !.name = n,
                              !.home = sites[i].home])

\* Any user but the platform's own: that it belongs to the platform is not asked.
BeginDeleteUser(r) ==
  /\ Idle(r)
  /\ \E i \in Known, u \in UserIds :
       /\ u < nextUser /\ u # sites[i].user
       /\ Start(r, [NoReq EXCEPT !.pc = "findUser", !.op = "deleteUser", !.site = i, !.uid = u])

BeginAddDomain(r) ==
  /\ Idle(r)
  /\ \E i \in Known : \E d \in Domains \ sites[i].domains :
       Start(r, [NoReq EXCEPT !.pc = "domains", !.op = "addDomain", !.site = i,
                              !.domains = sites[i].domains \cup {d}])

\* ToggleEnabled and UpdateClientMaxBodySize: the row is read, saved and served.
BeginToggle(r) ==
  /\ Idle(r)
  /\ \E i \in Known :
       Start(r, [NoReq EXCEPT !.pc = "store", !.op = "toggle", !.site = i,
                              !.domains = sites[i].domains, !.row = sites[i],
                              !.owner = UserOf(sites[i])])

\* Mutants: only the platform's own user is deleted with it; a platform without
\* one is not told apart.
OwnUser(i) == {sites[i].user} \ {None}
ScopedUsersUnchecked(i) ==
  {sites[i].user} \cup {u \in UserIds : users[u] # None /\ users[u].site = i}
\* The platform's own user and those created for it.
ScopedUsers(i) ==
  ({sites[i].user} \ {None}) \cup {u \in UserIds : users[u] # None /\ users[u].site = i}
BeginDelete(r) ==
  /\ Idle(r)
  /\ \E i \in Known :
       Start(r, [NoReq EXCEPT !.pc = "scoped", !.op = "delete", !.site = i,
                              !.row = sites[i], !.left = ScopedUsers(i)])

\* A new password, or a user enabled or disabled.
BeginUserChange(r) ==
  /\ Idle(r)
  /\ \E u \in UserIds :
       /\ users[u] # None
       /\ \/ Start(r, [NoReq EXCEPT !.pc = "chpasswd", !.op = "reset", !.uid = u,
                                    !.name = users[u].name, !.owner = users[u]])
          \/ \E on \in BOOLEAN :
               Start(r, [NoReq EXCEPT !.pc = "setLock", !.op = "setActive", !.uid = u,
                                      !.name = users[u].name,
                                      !.owner = [users[u] EXCEPT !.active = on]])

-----------------------------------------------------------------------------
(* SiteUserService.Create. *)
CheckName(r) ==
  /\ req[r].pc = "name"
  /\ \/ ~Taken(req[r].name) /\ NoFault /\ Goto(r, "account")
     \/ Taken(req[r].name) /\ NoFault /\ Finish(r, "failed")
     \/ Fault /\ Finish(r, "failed")
  /\ UNCHANGED <<sites, users, accounts, trees, vhosts, keys, crashes, ghosts>>

\* The home is made, then the account is made or an existing one taken over, its
\* home set, and its password, which unlocks it.  A failure on the way undoes nothing.
MakeAccount(r) ==
  /\ req[r].pc = "account"
  /\ LET n == req[r].name
         was == accounts[n]
     IN \/ /\ accounts' = [accounts EXCEPT ![n] = [home |-> req[r].home, locked |-> FALSE]]
           /\ trees' = trees \cup {req[r].home}
           /\ NoFault /\ Goto(r, "saveUser") /\ UNCHANGED scarred
        \/ /\ \E a \in {was, [home |-> req[r].home, locked |-> was = None \/ was.locked],
                        [home |-> req[r].home, locked |-> FALSE]} :
                accounts' = [accounts EXCEPT ![n] = a]
           /\ trees' \in {trees, trees \cup {req[r].home}}
           /\ Fault /\ Finish(r, "failed")
           /\ scarred' = scarred \cup {n}
  /\ UNCHANGED <<sites, users, vhosts, keys, crashes, behind>>

Unsaved(r) == Goto(r, "undoAccount")
SaveUser(r) ==
  /\ req[r].pc = "saveUser"
  /\ \/ /\ ~Taken(req[r].name) /\ nextUser \in UserIds /\ NoFault
        /\ users' = [users EXCEPT ![nextUser] =
                       [name |-> req[r].name, home |-> req[r].home,
                        site |-> req[r].site, active |-> TRUE]]
        /\ nextUser' = nextUser + 1
        /\ req' = [req EXCEPT ![r].pc = IF req[r].op = "create" THEN "domains" ELSE "load",
                              ![r].uid = nextUser, ![r].made = TRUE]
     \/ /\ Unsaved(r)
        /\ \/ Taken(req[r].name) /\ NoFault
           \/ Fault
        /\ UNCHANGED <<users, nextUser>>
  /\ UNCHANGED <<sites, accounts, trees, vhosts, nextSite, crashes, ghosts>>

\* The unique index refused the name, or the insertion failed.
UndoAccount(r) ==
  /\ req[r].pc = "undoAccount"
  /\ \/ /\ accounts[req[r].name] # None /\ Userdel(req[r].name)
        /\ NoFault /\ scarred' = scarred \ {req[r].name}
     \/ /\ accounts[req[r].name] = None /\ NoFault
        /\ UNCHANGED <<accounts, trees, scarred>>
     \/ Fault /\ scarred' = scarred \cup {req[r].name} /\ UNCHANGED <<accounts, trees>>
  /\ Finish(r, "failed")
  /\ UNCHANGED <<sites, users, vhosts, keys, crashes, behind>>

-----------------------------------------------------------------------------
(* WebsiteService.Create, Update, ToggleEnabled and RefreshConfig. *)
\* A failure before the platform's row is made undoes the user made for it.
Refuse(r) == IF req[r].made THEN Goto(r, "findUser") ELSE Finish(r, "failed")

CheckDomains(r) ==
  /\ req[r].pc = "domains"
  /\ LET clash == Clash(IF req[r].site = None THEN 0 ELSE req[r].site, req[r].domains)
     IN \/ ~clash /\ NoFault /\ Goto(r, IF req[r].op = "create" THEN "insert" ELSE "fetch")
        \/ clash /\ NoFault /\ Refuse(r)
        \/ Fault /\ Refuse(r)
  /\ UNCHANGED <<sites, users, accounts, trees, vhosts, keys, crashes, ghosts>>

Insert(r) ==
  /\ req[r].pc = "insert"
  /\ \/ /\ nextSite \in Ids /\ NoFault
        /\ LET row == [home |-> req[r].home, domains |-> req[r].domains, user |-> req[r].uid]
           IN /\ sites' = [sites EXCEPT ![nextSite] = row]
              /\ req' = [req EXCEPT ![r].pc = "load", ![r].site = nextSite,
                                    ![r].row = [row EXCEPT !.domains = {}]]
        /\ nextSite' = nextSite + 1
     \/ Fault /\ Refuse(r) /\ UNCHANGED <<sites, nextSite>>
  /\ UNCHANGED <<users, accounts, trees, vhosts, nextUser, crashes, ghosts>>

\* Update reads the row again before it saves it.
Fetch(r) ==
  /\ req[r].pc = "fetch"
  /\ LET row == sites[req[r].site]
     IN \/ /\ row # None /\ NoFault /\ UNCHANGED behind
           /\ req' = [req EXCEPT ![r].pc = "store", ![r].row = row, ![r].owner = UserOf(row)]
        \/ row = None /\ NoFault /\ GiveUp(r)
        \/ Fault /\ GiveUp(r)
  /\ UNCHANGED <<sites, users, accounts, trees, vhosts, keys, crashes, scarred>>

\* Save writes the whole row that was read, and inserts it, and the user read with
\* it, where they have gone since.
Store(r) ==
  /\ req[r].pc = "store"
  /\ \/ /\ NoFault /\ behind' = behind \ {req[r].site}
        /\ sites' = [sites EXCEPT ![req[r].site] =
                       [req[r].row EXCEPT !.domains = req[r].domains]]
        /\ users' = IF req[r].owner = None THEN users
                    ELSE [users EXCEPT ![req[r].row.user] = IF @ = None THEN req[r].owner ELSE @]
        /\ req' = [req EXCEPT ![r].pc = IF req[r].op = "toggle" THEN "vhost" ELSE "load"]
     \/ Fault /\ GiveUp(r) /\ UNCHANGED <<sites, users>>
  /\ UNCHANGED <<accounts, trees, vhosts, keys, crashes, scarred>>

\* A failure once the row is there: Create takes everything back, the refresh that
\* follows a change of users is a best effort, Update leaves the row as it is.
Abandon(r) ==
  IF req[r].op = "create" THEN Goto(r, "dropRow") /\ UNCHANGED behind
  ELSE /\ Finish(r, IF req[r].op \in {"addUser", "deleteUser"} THEN "ok" ELSE "failed")
       /\ behind' = behind \cup {req[r].site}

\* The row is read back; RefreshConfig alone gives up when it is not there.
Load(r) ==
  /\ req[r].pc = "load"
  /\ LET row == sites[req[r].site]
     IN \/ /\ row # None /\ NoFault
           /\ req' = [req EXCEPT ![r].pc = "home", ![r].row = row, ![r].owner = UserOf(row)]
           /\ behind' = behind \ {req[r].site}
        \/ /\ \/ row = None /\ UNCHANGED <<faults, behind>>
              \/ Fault /\ behind' = behind \cup {req[r].site}
           /\ IF req[r].op \in {"create", "addDomain"}
              THEN Goto(r, "home") ELSE Finish(r, "ok")
  /\ UNCHANGED <<sites, users, accounts, trees, vhosts, keys, crashes, scarred>>

\* ensureWebsiteFilesystem: the directories, and the owner's home if it is another.
Home(r) ==
  /\ req[r].pc = "home"
  /\ LET o == req[r].owner
         home  == req[r].row.home
         moves == o # None /\ o.home # home
     IN \/ /\ ~moves /\ NoFault /\ Goto(r, "share")
           /\ trees' = trees \cup {home} /\ UNCHANGED <<accounts, ghosts>>
        \/ /\ moves /\ accounts[o.name] # None /\ NoFault
           /\ accounts' = [accounts EXCEPT ![o.name].home = home]
           /\ req' = [req EXCEPT ![r].pc = "saveOwner", ![r].owner.home = home]
           /\ trees' = trees \cup {home} /\ UNCHANGED ghosts
        \/ /\ moves /\ accounts[o.name] = None /\ NoFault /\ Abandon(r)
           /\ trees' = trees \cup {home} /\ UNCHANGED <<accounts, scarred>>
        \/ /\ Fault /\ Abandon(r)
           /\ trees' \in {trees, trees \cup {home}}
           /\ \/ UNCHANGED accounts
              \/ /\ moves /\ accounts[o.name] # None
                 /\ accounts' = [accounts EXCEPT ![o.name].home = home]
           /\ UNCHANGED scarred
  /\ UNCHANGED <<sites, users, vhosts, keys, crashes>>

SaveOwner(r) ==
  /\ req[r].pc = "saveOwner"
  /\ \/ /\ users' = [users EXCEPT ![req[r].row.user] = req[r].owner]
        /\ NoFault /\ Goto(r, "share") /\ UNCHANGED ghosts
     \/ /\ Fault /\ Abandon(r) /\ UNCHANGED users
        /\ scarred' = scarred \cup {req[r].owner.name}
  /\ UNCHANGED <<sites, accounts, trees, vhosts, keys, crashes>>

\* SyncSharedAccess fails at the first member without an account.
Share(r) ==
  /\ req[r].pc = "share"
  /\ LET absent == {n \in Members(req[r].site, req[r].row, req[r].owner) : accounts[n] = None}
         home   == req[r].row.home
     IN \/ absent = {} /\ NoFault /\ Goto(r, "vhost") /\ trees' = trees \cup {home} /\ UNCHANGED behind
        \/ absent # {} /\ NoFault /\ Abandon(r) /\ trees' = trees \cup {home}
        \/ Fault /\ Abandon(r) /\ trees' \in {trees, trees \cup {home}}
  /\ UNCHANGED <<sites, users, accounts, vhosts, keys, crashes, scarred>>

\* applyPlatformRuntime and writeNginxConfig.
Vhost(r) ==
  /\ req[r].pc = "vhost"
  /\ \/ vhosts' = VhostsWith(req[r].row) /\ NoFault /\ Finish(r, "ok") /\ UNCHANGED behind
     \/ Fault /\ Abandon(r) /\ UNCHANGED vhosts
  /\ UNCHANGED <<sites, users, accounts, trees, keys, crashes, scarred>>

\* rollbackCreate: both errors are ignored.
DropRow(r) ==
  /\ req[r].pc = "dropRow"
  /\ \/ sites' = [sites EXCEPT ![req[r].site] = None] /\ NoFault /\ UNCHANGED behind
     \/ Fault /\ behind' = behind \cup {req[r].site} /\ UNCHANGED sites
  /\ Goto(r, "dropTree")
  /\ UNCHANGED <<users, accounts, trees, vhosts, keys, crashes, scarred>>

DropTree(r) ==
  /\ req[r].pc = "dropTree"
  /\ \/ trees' = trees \ {req[r].home} /\ NoFault
     \/ Fault /\ UNCHANGED trees
  /\ Refuse(r)
  /\ UNCHANGED <<sites, users, accounts, vhosts, keys, crashes, ghosts>>

-----------------------------------------------------------------------------
(* SiteUserService.Delete, asked for or as the undoing of a creation. *)
FindUser(r) ==
  /\ req[r].pc = "findUser"
  /\ LET u == users[req[r].uid]
     IN \/ /\ u # None /\ NoFault
           /\ req' = [req EXCEPT ![r].pc = "userdel", ![r].name = u.name]
        \/ u = None /\ NoFault /\ Finish(r, "failed")
        \/ Fault /\ Finish(r, "failed")
  /\ UNCHANGED <<sites, users, accounts, trees, vhosts, keys, crashes, ghosts>>

\* userdel refuses a name it does not know.
DeleteAccount(r) ==
  /\ req[r].pc = "userdel"
  /\ \/ /\ accounts[req[r].name] # None /\ Userdel(req[r].name)
        /\ NoFault /\ Goto(r, "userRow")
     \/ /\ \/ accounts[req[r].name] = None /\ NoFault
           \/ Fault
        /\ Finish(r, "failed") /\ UNCHANGED <<accounts, trees>>
  /\ UNCHANGED <<sites, users, vhosts, keys, crashes, ghosts>>

\* SiteUserRepository.Delete also clears the references to the user.
WithoutUser(u) ==
  /\ users' = [users EXCEPT ![u] = None]
  /\ sites' = [i \in Ids |-> IF sites[i] # None /\ sites[i].user = u
                             THEN [sites[i] EXCEPT !.user = None] ELSE sites[i]]

DeleteUserRow(r) ==
  /\ req[r].pc = "userRow"
  /\ \/ /\ WithoutUser(req[r].uid)
        /\ IF req[r].op = "deleteUser" THEN Goto(r, "load") ELSE Finish(r, "failed")
        /\ NoFault /\ UNCHANGED scarred
     \/ /\ Fault /\ Finish(r, "failed") /\ UNCHANGED <<users, sites>>
        /\ scarred' = scarred \cup {req[r].name}
  /\ UNCHANGED <<accounts, trees, vhosts, keys, crashes, behind>>

-----------------------------------------------------------------------------
(* WebsiteService.Delete.  The platform's row goes last: a deletion that    *)
(* fails can be asked for again.                                           *)
\* The platform's own user stays while another platform refers to it.
Shared(r, u) == u = req[r].row.user /\ \E s \in OthersOf(req[r].site) : s.user = u

\* deleteWebsiteScopedUsers ignores the error of userdel.
ScopedUser(r) ==
  /\ req[r].pc = "scoped"
  /\ \E u \in req[r].left :
       \/ /\ users[u] = None \/ Shared(r, u)
          /\ req' = [req EXCEPT ![r].left = @ \ {u}]
          /\ NoFault /\ UNCHANGED <<accounts, trees, ghosts>>
       \/ /\ users[u] # None /\ ~Shared(r, u)
          /\ req' = [req EXCEPT ![r].pc = "scopedRow", ![r].uid = u,
                                ![r].name = users[u].name, ![r].left = @ \ {u}]
          /\ LET n == users[u].name
             IN \/ accounts[n] # None /\ Userdel(n) /\ NoFault /\ UNCHANGED scarred
                \/ accounts[n] = None /\ NoFault /\ UNCHANGED <<accounts, trees, scarred>>
                \/ /\ accounts[n] # None /\ Fault /\ scarred' = scarred \cup {n}
                   /\ UNCHANGED <<accounts, trees>>
          /\ UNCHANGED behind
  /\ UNCHANGED <<sites, users, vhosts, keys, crashes>>

ScopedUserRow(r) ==
  /\ req[r].pc = "scopedRow"
  /\ \/ WithoutUser(req[r].uid) /\ NoFault /\ Goto(r, "scoped") /\ UNCHANGED ghosts
     \/ /\ Fault /\ GiveUp(r) /\ UNCHANGED <<users, sites>>
        /\ scarred' = scarred \cup {req[r].name}
  /\ UNCHANGED <<accounts, trees, vhosts, keys, crashes>>

\* The linked runtime, the databases and the other records of the platform go
\* before and after its users; a failure there ends the deletion.
DeleteFails(r) ==
  /\ req[r].pc = "scoped" /\ Fault /\ GiveUp(r)
  /\ UNCHANGED <<sites, users, accounts, trees, vhosts, keys, crashes, scarred>>

\* Mutant: the configuration of a deleted platform is left in place.
StillServed(r) == vhosts
Unserved(r) == [vhosts EXCEPT ![NameOf[req[r].row.home]] = {}]
Unserve(r) ==
  /\ req[r].pc = "scoped" /\ req[r].left = {}
  /\ \/ vhosts' = Unserved(r) /\ NoFault /\ Goto(r, "removeTree") /\ UNCHANGED behind
     \/ vhosts' \in {vhosts, Unserved(r)} /\ Fault /\ GiveUp(r)
  /\ UNCHANGED <<sites, users, accounts, trees, keys, crashes, scarred>>

RemoveTree(r) ==
  /\ req[r].pc = "removeTree"
  /\ LET gone == trees \ {req[r].row.home}
     IN \/ trees' = gone /\ NoFault /\ Goto(r, "deleteRow") /\ UNCHANGED behind
        \/ trees' \in {trees, gone} /\ Fault /\ GiveUp(r)
  /\ UNCHANGED <<sites, users, accounts, vhosts, keys, crashes, scarred>>

DeleteRow(r) ==
  /\ req[r].pc = "deleteRow"
  /\ \/ /\ sites' = [sites EXCEPT ![req[r].site] = None]
        /\ behind' = behind \ {req[r].site}
        /\ NoFault /\ Finish(r, "ok")
     \/ Fault /\ GiveUp(r) /\ UNCHANGED sites
  /\ UNCHANGED <<users, accounts, trees, vhosts, keys, crashes, scarred>>

-----------------------------------------------------------------------------
(* SiteUserService.ResetPassword and ToggleEnabled. *)
Lock(n, on) == accounts' = [accounts EXCEPT ![n].locked = on]

\* A command on an account: it sets the lock and goes on, or fails, the lock set or not.
SetLockThen(r, on, next) ==
  LET n == req[r].name
  IN \/ accounts[n] # None /\ Lock(n, on) /\ NoFault /\ Goto(r, next) /\ UNCHANGED scarred
     \/ accounts[n] = None /\ NoFault /\ Finish(r, "failed") /\ UNCHANGED <<accounts, scarred>>
     \/ /\ Fault /\ Finish(r, "failed") /\ scarred' = scarred \cup {n}
        /\ UNCHANGED accounts \/ (accounts[n] # None /\ Lock(n, on))

\* Mutant: the lock is not put back.
NoRelock(r) == "stamp"
\* chpasswd unlocks the account of a disabled user, which is then locked again.
AfterPassword(r) == IF req[r].owner.active THEN "stamp" ELSE "relock"
SetPassword(r) ==
  /\ req[r].pc = "chpasswd" /\ SetLockThen(r, FALSE, AfterPassword(r))
  /\ UNCHANGED <<sites, users, trees, vhosts, keys, crashes, behind>>
Relock(r) ==
  /\ req[r].pc = "relock" /\ SetLockThen(r, TRUE, "stamp")
  /\ UNCHANGED <<sites, users, trees, vhosts, keys, crashes, behind>>
SetActive(r) ==
  /\ req[r].pc = "setLock" /\ SetLockThen(r, ~req[r].owner.active, "stamp")
  /\ UNCHANGED <<sites, users, trees, vhosts, keys, crashes, behind>>

\* The whole row is saved as it was read, the changed field apart.
Stamp(r) ==
  /\ req[r].pc = "stamp"
  /\ \/ users' = [users EXCEPT ![req[r].uid] = req[r].owner] /\ NoFault
        /\ Finish(r, "ok") /\ UNCHANGED scarred
     \/ /\ Fault /\ Finish(r, "failed") /\ UNCHANGED users
        /\ scarred' = scarred \cup {req[r].name}
  /\ UNCHANGED <<sites, accounts, trees, vhosts, keys, crashes, behind>>

\* The panel's process dies: the database and the host stay as they are.
Crash ==
  /\ crashes < MaxCrashes
  /\ \E r \in Requests : req[r].pc \notin Resting
  /\ crashes' = crashes + 1
  /\ scarred' = scarred \cup ({req[r].name : r \in Requests} \ {None})
  /\ behind'  = behind \cup ({req[r].site : r \in Requests} \ {None})
  /\ req'     = [r \in Requests |-> NoReq]
  /\ UNCHANGED <<sites, users, accounts, trees, vhosts, keys, faults>>

-----------------------------------------------------------------------------
Init ==
  /\ sites    = [i \in Ids |-> None]
  /\ users    = [u \in UserIds |-> None]
  /\ accounts = [n \in Usernames |-> None]
  /\ trees    = {}
  /\ vhosts   = [n \in Names |-> {}]
  /\ req      = [r \in Requests |-> NoReq]
  /\ nextSite = 1 /\ nextUser = 1
  /\ faults = 0 /\ crashes = 0
  /\ scarred = {} /\ behind = {}

Begin(r) == \/ NotFound(r) \/ BeginCreate(r) \/ BeginAddUser(r) \/ BeginDeleteUser(r) \/ BeginAddDomain(r)
            \/ BeginToggle(r) \/ BeginDelete(r) \/ BeginUserChange(r)
Step(r) ==
  \/ CheckName(r) \/ MakeAccount(r) \/ SaveUser(r) \/ UndoAccount(r)
  \/ CheckDomains(r) \/ Insert(r) \/ Fetch(r) \/ Store(r) \/ Load(r)
  \/ Home(r) \/ SaveOwner(r) \/ Share(r) \/ Vhost(r) \/ DropRow(r) \/ DropTree(r)
  \/ FindUser(r) \/ DeleteAccount(r) \/ DeleteUserRow(r)
  \/ ScopedUser(r) \/ ScopedUserRow(r) \/ DeleteFails(r)
  \/ Unserve(r) \/ RemoveTree(r) \/ DeleteRow(r)
  \/ SetPassword(r) \/ Relock(r) \/ SetActive(r) \/ Stamp(r)
Next == Crash \/ \E r \in Requests : Begin(r) \/ Step(r)
Spec == Init /\ [][Next]_vars

-----------------------------------------------------------------------------
\* The tables, the accounts and what each handler holds are of the types of
\* models.Website, models.SiteUser and the host's account file.
TypeOK ==
  /\ sites \in [Ids -> Site \cup {None}]
  /\ users \in [UserIds -> User \cup {None}]
  /\ accounts \in [Usernames -> Account \cup {None}]
  /\ trees \subseteq Domains
  /\ vhosts \in [Names -> SUBSET Domains]
  /\ req \in [Requests -> RequestStates]
  /\ nextSite \in 1..(MaxSites + 1) /\ nextUser \in 1..(MaxUsers + 1)
  /\ faults \in 0..MaxFaults /\ crashes \in 0..MaxCrashes
  /\ scarred \subseteq Usernames /\ behind \subseteq Ids

InFlight(i) == \E r \in Requests : req[r].site = i
Using(n)    == \E r \in Requests : req[r].name = n

\* No domain belongs to two platforms: ensureDomainsAvailable looks before Create
\* and Update save, and no index of the table would refuse the second.
DomainsOwned ==
  \A i, j \in Known : i # j => sites[i].domains \cap sites[j].domains = {}

\* Every virtual host answers for a platform of the panel and for domains of that platform
\* only, so that nothing left behind hides the catch-all; and a platform is served under
\* exactly its domains, unless a change of it is in flight or the last one failed or was cut
\* short: no handler reports success with a virtual host older than the row.
VhostsMatchRows ==
  /\ \A n \in Names : vhosts[n] # {} =>
       \E i \in Known : NameOf[sites[i].home] = n /\ vhosts[n] \subseteq sites[i].domains
  /\ \A i \in Known : \/ vhosts[NameOf[sites[i].home]] = sites[i].domains
                      \/ i \in behind \/ InFlight(i)

\* Every account the panel made belongs to a site user, unless a handler has it in hand or a
\* command failed on it; and a disabled user cannot log in, whatever resets, refreshes and
\* platform changes came since: its account is gone or locked.
AccountsMatchUsers ==
  /\ \A n \in Usernames : accounts[n] # None => Taken(n) \/ Using(n) \/ n \in scarred
  /\ \A u \in UserIds : users[u] # None /\ ~users[u].active =>
       LET n == users[u].name
       IN \/ accounts[n] = None \/ accounts[n].locked \/ Using(n) \/ n \in scarred

\* A deletion that succeeds leaves nothing of the platform: no row, no virtual host, no tree,
\* and no user that was made for it or was its own alone.  It fails only at a step that
\* fails: whatever earlier failures and crashes left, asking again can complete it.
DeletesComplete ==
  [][\A r \in Requests : req[r].op = "delete" =>
       /\ req'[r].pc = "ok" =>
            LET i == req[r].site
                row == req[r].row
            IN /\ sites'[i] = None /\ row.home \notin trees'
               /\ vhosts'[NameOf[row.home]] = {}
               /\ \A u \in UserIds : users'[u] # None =>
                    /\ users'[u].site # i
                    /\ u = row.user => \E j \in Ids : sites'[j] # None /\ sites'[j].user = u
       /\ req'[r].pc = "failed" => faults' > faults]_vars

OwnDomains(i) == IF i = None THEN {} ELSE sites[i].domains
\* A change of a platform whose domains are free is refused only when a step of it
\* fails, or an account is missing since an earlier failure on it.
SoundChangesSucceed ==
  [][\A r \in Requests :
       req[r].op \in {"create", "addDomain", "toggle"}
         /\ req[r].pc \in {"domains", "store", "home", "share", "vhost"}
         /\ req'[r].pc \in {"failed", "findUser", "dropRow"}
       => faults' > faults \/ scarred # {}
          \/ (req[r].pc = "domains" /\ Clash(0, req[r].domains \ OwnDomains(req[r].site)))]_vars

\* The files of a platform go only by its own deletion, or with the rollback of its
\* own creation.
FilesKept ==
  [][\A i \in Known :
       sites[i].home \in trees \ trees' =>
         \E r \in Requests : req[r].site = i /\ req[r].op \in {"delete", "create"}]_vars
=============================================================================

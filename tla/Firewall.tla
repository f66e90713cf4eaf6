------------------------------ MODULE Firewall ------------------------------
(***************************************************************************)
(* The firewall rules of DeployCP: a table of rules, the host's firewall,  *)
(* and the handlers that add, change and delete a rule, import what the    *)
(* host has, and re-apply the table (FirewallService in src/internal/      *)
(* services/firewall_service.go, the Firewall handlers of settings_handler *)
(* and ReconcileService.Run).                                              *)
(*                                                                         *)
(* A change goes to the host first, one command after another, and to the  *)
(* table last.  Nothing takes a command back.  A guard refuses changes that*)
(* would close SSH to the operator who asks.                               *)
(***************************************************************************)
EXTENDS Integers, Sequences, FiniteSets, Bags

CONSTANTS
  Backends,     \* the kinds of firewall the host may have
  Rules,        \* rules the form may ask for
  Natives,      \* Natives[b]: entries the host had before the panel
  Requests,     \* handlers and commands that may be running
  MaxRules,     \* bound on the rows ever made
  MaxCopies,    \* bound on the copies of one entry that iptables is given
  Overlapping,  \* may requests be in flight together?
  MaxFailures,  \* bound on failing calls and commands, and crashes of the panel
  None

Ids       == 1..MaxRules
Protocols == {"tcp", "any", "service"}
Ports     == {"ssh", "web", "other"}
\* A port as ufw lists it for IPv6, where the rule is for every protocol: the suffix stays.
V6(port)  == CASE port = "ssh" -> "ssh (v6)" [] port = "web" -> "web (v6)"
               [] port = "other" -> "other (v6)"
Spelled   == Ports \cup {V6(port) : port \in Ports}
Anywhere  == {"0.0.0.0/0", "::/0", "any"}
Sources   == Anywhere \cup {"here", "here/32"}   \* here: the operator's address
Names     == {rule.name : rule \in Rules} \cup {"imported"}
Rule  == [name : Names, proto : Protocols, port : Spelled, source : Sources,
          action : {"allow", "deny"}, enabled : BOOLEAN]
Tags  == Names \cup {"", "native"}
Entry == [tag : Tags, proto : Protocols, port : Ports, source : {"0.0.0.0/0", "here"},
          action : {"allow", "deny"}]

ASSUME FirewallAssumption ==
  /\ Backends \subseteq {"ufw", "firewalld", "iptables"} /\ Backends # {}
  /\ Rules \subseteq [name : STRING, proto : {"tcp", "any"}, port : Ports, source : Sources,
                      action : {"allow", "deny"}, enabled : BOOLEAN]
  /\ Natives \in [Backends -> SUBSET Entry]
  /\ MaxRules \in Nat /\ MaxCopies \in Nat /\ MaxFailures \in Nat
  /\ Overlapping \in BOOLEAN
  /\ None \notin Ids \cup Rule

VARIABLES
  backend,  \* what detectBackend finds, the same at every call
  rows,     \* table panel_firewall_rules
  host,     \* the host's configuration, a bag of entries
  loaded,   \* what the host enforces: firewalld loads its configuration at a reload
  req,      \* each request: where it is and what it holds in memory
  nextId, failures,
  adrift,   \* rows whose entry a failure, or a removal for another rule, took away, or
            \* that Create stored as active where the form asked for an inactive rule
  scarred   \* entries a failure or a crash left out of step with the table

vars  == <<backend, rows, host, loaded, req, nextId, failures, adrift, scarred>>
table == <<rows, nextId>>
wall  == <<host, loaded>>
ghosts == <<adrift, scarred>>

Resting == {"idle", "ok", "failed"}
Command == [verb : {"add", "remove"}, rule : Rule]
             \cup [verb : {"reload"}, rule : {None}]
NoReq == [pc |-> "idle", op |-> "none", id |-> None, old |-> None, new |-> None,
          plan |-> <<>>, listed |-> {}]
RequestStates ==
  [pc : Resting \cup {"host", "row", "import", "next"},
   op : {"none", "create", "update", "delete", "import", "reconcile"},
   id : Ids \cup {None}, old : Rule \cup {None}, new : Rule \cup {None},
   plan : Seq(Command), listed : SUBSET ((Ids \cup {0}) \X Rule)]

-----------------------------------------------------------------------------
(* What the program makes of a rule. *)
NormSource(s) == IF s \in Anywhere THEN "0.0.0.0/0" ELSE s

\* sourceAllowsIP; an empty requester is let in from anywhere only.
AllowsIP(source, ip) == source \in Anywhere \/ ip = "here"

UsesSsh(rule) == rule.enabled /\ rule.proto \in {"tcp", "any"} /\ rule.port = "ssh"
AllowsSsh(rule, ip) == UsesSsh(rule) /\ AllowsIP(rule.source, ip) /\ rule.action = "allow"
DeniesSsh(rule, ip) == UsesSsh(rule) /\ AllowsIP(rule.source, ip) /\ rule.action = "deny"

SameHostEffect(a, b) ==
  /\ a.enabled = b.enabled /\ a.proto = b.proto /\ a.port = b.port
  /\ NormSource(a.source) = NormSource(b.source) /\ a.action = b.action

ValidRule(rule) == rule.proto # "service"

PlainPort(p) == CASE p = V6("ssh") -> "ssh" [] p = V6("web") -> "web"
                  [] p = V6("other") -> "other" [] OTHER -> p
\* The entry a rule is rendered to.  firewalld knows no rule for every protocol of a
\* port; an entry of iptables carries the name of the rule.
EntryOf(rule) ==
  [tag    |-> IF backend = "iptables" THEN rule.name ELSE "",
   proto  |-> IF backend = "firewalld" /\ rule.proto = "any" THEN "tcp" ELSE rule.proto,
   port   |-> PlainPort(rule.port),
   source |-> IF rule.source \in Anywhere THEN "0.0.0.0/0" ELSE "here",
   action |-> rule.action]

\* The commands a host refuses: iptables takes a port with a protocol only, and none
\* knows a protocol "service" or a port with the suffix of ufw's listing.
Accepts(rule) == /\ ValidRule(rule) /\ rule.port \in Ports
                 /\ backend = "iptables" => rule.proto # "any"

Reload  == IF backend = "firewalld" THEN <<[verb |-> "reload", rule |-> None]>> ELSE <<>>
Applied(rule) ==
  IF rule.enabled THEN <<[verb |-> "add", rule |-> rule]>> \o Reload ELSE <<>>
Deleted(rule) == <<[verb |-> "remove", rule |-> rule]>> \o Reload

\* Mutants: the rule that lets the operator in goes before its successor is there; the
\* rule stays; a rule that has not changed is not applied.
DeletedFirst(old, new, ip)   == Deleted(old) \o Applied(new)
NotDeleted(old, new, ip)     == Applied(new)
NotIfUnchanged(old, new, ip) ==
  IF SameHostEffect(old, new) THEN <<>> ELSE Deleted(old) \o Applied(new)
\* ReplaceRule, once it has passed the guard: a rule that lets the operator in on SSH
\* goes after its successor has come, and any other before.
Replaced(old, new, ip) ==
  IF AllowsSsh(old, ip)
  THEN IF SameHostEffect(old, new) THEN <<>> ELSE Applied(new) \o Deleted(old)
  ELSE Deleted(old) \o Applied(new)

MayReplace(old, new, ip) ==
  /\ ValidRule(new)
  /\ IF AllowsSsh(old, ip) THEN SameHostEffect(old, new) \/ AllowsSsh(new, ip)
     ELSE ~DeniesSsh(new, ip)

-----------------------------------------------------------------------------
(* The host. *)
Copy(e) == SetToBag({e})
\* Only iptables keeps an entry twice.
Added(e) == IF backend # "iptables" /\ BagIn(e, host) THEN host ELSE host (+) Copy(e)

\* A configuration takes effect at once, or at firewalld's next reload.
Configure(h) == host' = h /\ loaded' = IF backend = "firewalld" THEN loaded ELSE h

Effect(c) == CASE c.verb = "add"    -> Configure(Added(EntryOf(c.rule)))
               [] c.verb = "remove" -> Configure(host (-) Copy(EntryOf(c.rule)))
               [] c.verb = "reload" -> host' = host /\ loaded' = host

\* Removing what is not there is an error for iptables, a warning for the others.
Succeeds(c) ==
  \/ c.verb = "reload"
  \/ c.verb = "add" /\ Accepts(c.rule)
  \/ c.verb = "remove" /\ Accepts(c.rule)
       /\ (backend = "iptables" => BagIn(EntryOf(c.rule), host))

\* What HostStatus reads back, each entry once: ufw lists a rule for anywhere twice, for
\* IPv4 and for IPv6, and of firewalld only the ports and services are asked for.  The
\* suffix of IPv6 is taken off a protocol, not off a port that comes without one.
\* Mutant: the spelling of ufw is kept.
PortListed(e, source) ==
  IF backend = "ufw" /\ source = "::/0" /\ e.proto = "any" THEN V6(e.port) ELSE e.port
ListingRaw(e, source) ==
  [name |-> "imported", proto |-> e.proto, port |-> e.port, action |-> e.action,
   source |-> IF source = "::/0" THEN "Anywhere (v6)" ELSE source, enabled |-> TRUE]
Listing(e, source) == [name |-> "imported", proto |-> e.proto, port |-> PortListed(e, source),
                       source |-> source, action |-> e.action, enabled |-> TRUE]
HostStatus ==
  CASE backend = "ufw" ->
         {Listing(e, "0.0.0.0/0") : e \in {x \in BagToSet(loaded) : x.source # "here"}}
           \cup {Listing(e, "::/0") : e \in {x \in BagToSet(loaded) : x.source # "here"}}
           \cup {Listing(e, "here") : e \in {x \in BagToSet(loaded) : x.source = "here"}}
    [] backend = "firewalld" ->
         {Listing(e, "any") : e \in {x \in BagToSet(loaded) : x.tag = "native"}}
    [] backend = "iptables" ->
         {Listing(e, IF e.source = "here" THEN "here/32" ELSE e.source) : e \in BagToSet(loaded)}

-----------------------------------------------------------------------------
Fault   == failures < MaxFailures /\ failures' = failures + 1
NoFault == UNCHANGED failures
Known   == {i \in Ids : rows[i] # None}

Finish(r, result) == req' = [req EXCEPT ![r] = [NoReq EXCEPT !.pc = result]]
Entries(S) == {EntryOf(rule) : rule \in S \ {None}}
\* The handler gives up; what it has done to the host stays, and the rows lost with it.
GiveUp(r, lost) ==
  /\ Finish(r, "failed")
  /\ adrift'  = adrift \cup ({req[r].id} \ {None}) \cup lost
  /\ scarred' = scarred \cup Entries({req[r].old, req[r].new})

Idle(r) == /\ req[r].pc \in Resting
           /\ Overlapping \/ \A q \in Requests \ {r} : req[q].pc \in Resting
Start(r, rec) == req' = [req EXCEPT ![r] = rec] /\ UNCHANGED <<backend, table, wall>>
Refuse(r) == Start(r, [NoReq EXCEPT !.pc = "failed"]) /\ NoFault /\ UNCHANGED ghosts
\* A plan without commands goes to the table at once.
Perform(plan) == IF plan = <<>> THEN "row" ELSE "host"
Room(n) == nextId + n <= MaxRules + 1
Fits(rule) == BagIn(EntryOf(rule), host) => host[EntryOf(rule)] < MaxCopies
Creating == {q \in Requests : req[q].op = "create"}

\* A page is stale: the rule to change is not in the table.
NotFound(r) == Idle(r) /\ Known # Ids /\ Refuse(r)

\* FirewallCreate.
BeginCreate(r) ==
  /\ Idle(r) /\ Room(Cardinality(Creating) + 1)
  /\ \E rule \in {x \in Rules : Fits(x)} :
       IF DeniesSsh(rule, "here") THEN Refuse(r)
       ELSE /\ Start(r, [NoReq EXCEPT !.pc = Perform(Applied(rule)), !.op = "create",
                                      !.new = rule, !.plan = Applied(rule)])
            /\ NoFault /\ UNCHANGED ghosts

\* FirewallUpdate: the rule is read, and replaced on the host.
BeginUpdate(r) ==
  /\ Idle(r)
  /\ \E i \in Known, rule \in {x \in Rules : Fits(x)} :
       IF ~MayReplace(rows[i], rule, "here") THEN Refuse(r)
       ELSE LET plan == Replaced(rows[i], rule, "here")
            IN /\ Start(r, [NoReq EXCEPT !.pc = Perform(plan), !.op = "update", !.id = i,
                                         !.old = rows[i], !.new = rule, !.plan = plan])
               /\ NoFault /\ UNCHANGED ghosts

MayDelete(rule) == ~AllowsSsh(rule, "here")
\* FirewallDelete: a disabled rule is removed from the host as well.  Where the rule
\* cannot be read the row alone goes.
BeginDelete(r) ==
  /\ Idle(r)
  /\ \E i \in Known :
       \/ ~MayDelete(rows[i]) /\ Refuse(r)
       \/ /\ MayDelete(rows[i])
          /\ Start(r, [NoReq EXCEPT !.pc = "host", !.op = "delete", !.id = i,
                                    !.old = rows[i], !.plan = Deleted(rows[i])])
          /\ NoFault /\ UNCHANGED ghosts
       \/ /\ Start(r, [NoReq EXCEPT !.pc = "row", !.op = "delete", !.id = i])
          /\ Fault /\ scarred' = scarred \cup {EntryOf(rows[i])} /\ UNCHANGED adrift

\* The settings page: syncHostFirewallRules compares the host with one listing of the
\* table, by protocol, port, source and action as they are spelled.
Signature(rule) == <<rule.proto, rule.port, rule.source, rule.action>>
Missing == {rule \in HostStatus : \A i \in Known : Signature(rows[i]) # Signature(rule)}
BeginImport(r) ==
  /\ Idle(r) /\ Missing # {} /\ Room(Cardinality(Missing) + Cardinality(Creating))
  /\ Start(r, [NoReq EXCEPT !.pc = "import", !.op = "import",
                            !.listed = {<<0, rule>> : rule \in Missing}])
  /\ NoFault /\ UNCHANGED ghosts

\* reconcile-managed, which runs for no address: the table is listed.
BeginReconcile(r) ==
  /\ Idle(r) /\ Known # {}
  /\ Start(r, [NoReq EXCEPT !.pc = "next", !.op = "reconcile",
                            !.listed = {<<i, rows[i]>> : i \in Known}])
  /\ NoFault /\ UNCHANGED ghosts

ImportOne(r) ==
  /\ req[r].pc = "import"
  /\ \/ /\ nextId \in Ids /\ NoFault
        /\ \E item \in req[r].listed :
             /\ rows' = [rows EXCEPT ![nextId] = item[2]]
             /\ IF req[r].listed = {item} THEN Finish(r, "ok")
                ELSE req' = [req EXCEPT ![r].listed = @ \ {item}]
        /\ nextId' = nextId + 1
     \/ Fault /\ Finish(r, "failed") /\ UNCHANGED table
  /\ UNCHANGED <<backend, wall, ghosts>>

\* The next rule of the listing, the latest first.
Latest(r) == {item \in req[r].listed : \A other \in req[r].listed : other[1] <= item[1]}
NextRule(r) ==
  /\ req[r].pc = "next"
  /\ \/ req[r].listed = {} /\ Finish(r, "ok") /\ UNCHANGED ghosts
     \/ \E item \in Latest(r) :
          LET rule == item[2]
              plan == IF rule.enabled THEN Replaced(rule, rule, "") ELSE Deleted(rule)
          IN IF rule.enabled /\ ~MayReplace(rule, rule, "") THEN GiveUp(r, {})
             ELSE /\ req' = [req EXCEPT ![r] =
                        [req[r] EXCEPT !.pc = IF plan = <<>> THEN "next" ELSE "host",
                                       !.id = item[1], !.old = rule, !.new = rule,
                                       !.plan = plan, !.listed = @ \ {item}]]
                  /\ UNCHANGED ghosts
  /\ NoFault /\ UNCHANGED <<backend, table, wall>>

Advance(r) ==
  LET rest == Tail(req[r].plan)
  IN req' = [req EXCEPT ![r].plan = rest,
                        ![r].pc = IF rest # <<>> THEN "host"
                                  ELSE IF req[r].op = "reconcile" THEN "next" ELSE "row"]
\* The error of a disabled rule's removal is ignored, and the rest of its plan dropped.
Ignores(r) == req[r].op = "reconcile" /\ ~req[r].old.enabled
SkipRule(r) == req' = [req EXCEPT ![r].plan = <<>>, ![r].pc = "next"]

\* Entries that let in or keep out the same; a rule that one of the bag stands for.
Alike(e, f) == [e EXCEPT !.tag = ""] = [f EXCEPT !.tag = ""]
Enforced(rule, bag) == \E e \in BagToSet(bag) : Alike(e, EntryOf(rule))

\* Rows, and the rule being written, whose entry is no longer there.
Uncovered(r) ==
  {i \in Known : i # req[r].id /\ rows[i].enabled
                  /\ Enforced(rows[i], host) /\ ~Enforced(rows[i], host')}
    \cup {i \in {req[r].id} \ {None} :
             /\ req[r].new # None /\ ~Enforced(req[r].new, host')
             /\ EntryOf(req[r].new) = EntryOf(req[r].old)}

RunCommand(r) ==
  /\ req[r].pc = "host"
  /\ LET c == Head(req[r].plan)
     IN \/ /\ Succeeds(c) /\ Effect(c) /\ NoFault /\ Advance(r)
           /\ adrift' = IF c.verb = "reload" THEN adrift
                        ELSE (adrift \ {req[r].id}) \cup Uncovered(r)
           /\ UNCHANGED scarred
        \/ /\ ~Succeeds(c) /\ NoFault /\ UNCHANGED wall
           /\ IF Ignores(r) THEN SkipRule(r) /\ UNCHANGED ghosts ELSE GiveUp(r, {})
        \/ /\ Fault /\ (UNCHANGED wall \/ (Succeeds(c) /\ Effect(c)))
           /\ IF Ignores(r)
              THEN SkipRule(r) /\ adrift' = adrift \cup Uncovered(r)
                     /\ scarred' = scarred \cup Entries({req[r].old})
              ELSE GiveUp(r, Uncovered(r))
  /\ UNCHANGED <<backend, table>>

\* gorm inserts the default of the column, TRUE, for a rule that is not enabled; an update
\* writes what it is given.
Inserted(rule) == [rule EXCEPT !.enabled = TRUE]
WriteRow(r) ==
  /\ req[r].pc = "row"
  /\ \/ /\ req[r].op = "create" /\ nextId \in Ids /\ NoFault /\ Finish(r, "ok")
        /\ rows' = [rows EXCEPT ![nextId] = Inserted(req[r].new)] /\ nextId' = nextId + 1
        /\ adrift' = IF req[r].new.enabled THEN adrift ELSE adrift \cup {nextId}
        /\ UNCHANGED scarred
     \/ /\ req[r].op # "create" /\ NoFault /\ Finish(r, "ok")
        /\ rows' = [rows EXCEPT ![req[r].id] = req[r].new]
        /\ UNCHANGED <<nextId, ghosts>>
     \/ Fault /\ GiveUp(r, {}) /\ UNCHANGED table
  /\ UNCHANGED <<backend, wall>>

Crash ==
  /\ Fault
  /\ \E r \in Requests : req[r].pc \notin Resting
  /\ adrift'  = adrift \cup ({req[r].id : r \in Requests} \ {None})
  /\ scarred' = scarred \cup Entries({req[r].old : r \in Requests}
                                       \cup {req[r].new : r \in Requests})
  /\ req' = [r \in Requests |-> NoReq]
  /\ UNCHANGED <<backend, table, wall>>

-----------------------------------------------------------------------------
\* What the firewalls had before the panel: firewalld lists ports and services, which have
\* one protocol and are for anywhere, and no entry of iptables carries the name of a rule.
NativesListed ==
  /\ "firewalld" \in Backends =>
       \A e \in Natives["firewalld"] :
         e.tag # "" => e.proto # "any" /\ e.source = "0.0.0.0/0"
  /\ "iptables" \in Backends => \A e \in Natives["iptables"] : e.tag \notin Names

Init ==
  /\ backend \in Backends
  /\ rows = [i \in Ids |-> None] /\ nextId = 1
  /\ host = SetToBag(Natives[backend]) /\ loaded = host
  /\ req = [r \in Requests |-> NoReq]
  /\ failures = 0
  /\ adrift = {} /\ scarred = {}

Begin(r) == \/ NotFound(r) \/ BeginCreate(r) \/ BeginUpdate(r) \/ BeginDelete(r)
            \/ BeginImport(r) \/ BeginReconcile(r)
Step(r)  == ImportOne(r) \/ NextRule(r) \/ RunCommand(r) \/ WriteRow(r)
Next == Crash \/ \E r \in Requests : Begin(r) \/ Step(r)
Spec == Init /\ [][Next]_vars

-----------------------------------------------------------------------------
\* The table, the bags of entries and what each handler holds are of the types of
\* models.PanelFirewallRule and of the commands built from it.
TypeOK ==
  /\ backend \in Backends
  /\ rows \in [Ids -> Rule \cup {None}]
  /\ IsABag(host) /\ BagToSet(host) \subseteq Entry
  /\ IsABag(loaded) /\ BagToSet(loaded) \subseteq Entry
  /\ req \in [Requests -> RequestStates]
  /\ nextId \in 1..(MaxRules + 1)
  /\ failures \in 0..MaxFailures
  /\ adrift \subseteq Ids /\ scarred \subseteq Entry

\* The operator's address is let in on SSH.
Open(bag) == \E e \in BagToSet(bag) :
               e.port = "ssh" /\ e.action = "allow" /\ e.proto \in {"tcp", "any"}

\* No change of a rule that an operator asks of the panel takes away the last entry that
\* lets the operator in on SSH ("refusing to delete firewall rule that allows the active
\* SSH port").
SshNeverLost ==
  [][\A r \in Requests :
       req[r].pc = "host" /\ req[r].op # "reconcile" /\ Open(host) => Open(host')]_vars

\* The same of a change of an enabled rule to one that is rendered otherwise, through
\* commands that fail, faults and crashes: the guard judges what the rule says, and a
\* disabled rule, or two rules of one rendering, get past it.
SshKept ==
  [][\A r \in Requests :
       /\ req[r].pc = "host" /\ req[r].op # "reconcile"
       /\ req[r].old # None => req[r].old.enabled
                               /\ EntryOf(req[r].old) \notin Entries({req[r].new})
       => (Open(host) => Open(host'))]_vars

InHand(i)     == \E r \in Requests : req[r].id = i
\* What the panel shows as active the host enforces, unless a change of the rule failed or
\* was cut short, its entry went with another rule that is rendered alike, or the rule was
\* created inactive (it is stored as active then and nothing is done for it); and whatever
\* the panel put into the host's firewall belongs to an active rule, unless a handler has it
\* in hand or one gave up on it: no change leaves the entry of the rule that was.
RowsMatchHost ==
  /\ \A i \in Known : rows[i].enabled =>
       Enforced(rows[i], loaded) \/ InHand(i) \/ i \in adrift
  /\ \A e \in BagToSet(host) \ Natives[backend] :
       \/ \E i \in Known : rows[i].enabled /\ Alike(e, EntryOf(rows[i]))
       \/ \E f \in scarred : Alike(e, f)
       \/ \E r \in Requests : \E f \in Entries({req[r].old, req[r].new}) : Alike(e, f)

\* A reconciliation that reports success leaves every active rule enforced, whatever failed
\* before it, but for those it does not touch: the rules that let everyone in on SSH, and
\* those a disabled rule of the same rendering takes away again.
ReconcileRestores ==
  [][\A r \in Requests :
       req[r].op = "reconcile" /\ req'[r].pc = "ok" =>
         \A i \in Known :
           \/ ~rows[i].enabled \/ AllowsSsh(rows[i], "")
           \/ \E j \in Known : ~rows[j].enabled /\ EntryOf(rows[j]) = EntryOf(rows[i])
           \/ Enforced(rows[i], loaded')]_vars
=============================================================================

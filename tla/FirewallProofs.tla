--------------------------- MODULE FirewallProofs ---------------------------
(***************************************************************************)
(* What is proved of Firewall, for any rules, hosts and bounds.            *)
(***************************************************************************)
EXTENDS Firewall, TLAPS, FiniteSetTheorems

(* Facts of bags of entries. *)
LEMMA BagAdd ==
  ASSUME NEW B, IsABag(B), NEW e
  PROVE  IsABag(B (+) Copy(e)) /\ BagToSet(B (+) Copy(e)) = BagToSet(B) \cup {e}
BY DEF IsABag, BagToSet, Copy, SetToBag, (+)

LEMMA BagRemove ==
  ASSUME NEW B, IsABag(B), NEW e
  PROVE  /\ IsABag(B (-) Copy(e))
         /\ BagToSet(B (-) Copy(e)) \subseteq BagToSet(B)
         /\ BagToSet(B) \ {e} \subseteq BagToSet(B (-) Copy(e))
BY DEF IsABag, BagToSet, Copy, SetToBag, (-)

LEMMA BagOfSet == \A S : IsABag(SetToBag(S)) /\ BagToSet(SetToBag(S)) = S
BY DEF IsABag, BagToSet, SetToBag

LEMMA EntryOfType ==
  ASSUME NEW rule \in Rule PROVE EntryOf(rule) \in Entry
<1>1. PlainPort(rule.port) \in Ports
  BY DEF PlainPort, Rule, Spelled, Ports, V6
<1> QED BY <1>1 DEF EntryOf, Rule, Entry, Tags, Protocols, Anywhere, Sources, Names

LEMMA EntriesType ==
  ASSUME NEW S, S \subseteq Rule \cup {None} PROVE Entries(S) \subseteq Entry
BY EntryOfType DEF Entries

LEMMA RulesType == Rules \subseteq Rule
BY FirewallAssumption DEF Rule, Names, Protocols, Ports, Spelled, Sources, Anywhere

LEMMA PlanType ==
  ASSUME NEW old \in Rule, NEW new \in Rule, NEW ip
  PROVE  /\ Applied(new) \in Seq(Command)
         /\ Deleted(old) \in Seq(Command) /\ Deleted(old) # <<>>
         /\ Replaced(old, new, ip) \in Seq(Command)
<1>1. Reload \in Seq(Command)
  <2>1. [verb |-> "reload", rule |-> None] \in Command
    BY DEF Command
  <2>2. <<[verb |-> "reload", rule |-> None]>> \in Seq(Command) /\ <<>> \in Seq(Command)
    BY <2>1
  <2> QED BY <2>2 DEF Reload
<1>2. Applied(new) \in Seq(Command)
  <2>1. <<[verb |-> "add", rule |-> new]>> \in Seq(Command)
    BY DEF Command
  <2> QED BY <1>1, <2>1 DEF Applied
<1>3. Deleted(old) \in Seq(Command) /\ Deleted(old) # <<>>
  <2>1. <<[verb |-> "remove", rule |-> old]>> \in Seq(Command)
    BY DEF Command
  <2>2. Len(Deleted(old)) # 0
    BY <1>1, <2>1 DEF Deleted
  <2> QED BY <1>1, <2>1, <2>2 DEF Deleted
<1>4. Replaced(old, new, ip) \in Seq(Command)
  BY <1>2, <1>3 DEF Replaced
<1> QED BY <1>2, <1>3, <1>4

LEMMA ListingType ==
  ASSUME NEW e \in Entry, NEW s \in Sources PROVE Listing(e, s) \in Rule
<1>1. PortListed(e, s) \in Spelled
  BY DEF PortListed, Entry, Spelled, Ports, V6
<1> QED BY <1>1 DEF Listing, Entry, Rule, Names

LEMMA HostStatusType ==
  ASSUME backend \in Backends, BagToSet(loaded) \subseteq Entry
  PROVE  HostStatus \subseteq Rule
<1>1. backend \in {"ufw", "firewalld", "iptables"}
  BY FirewallAssumption
<1>2. "0.0.0.0/0" \in Sources /\ "::/0" \in Sources /\ "here" \in Sources
        /\ "any" \in Sources /\ "here/32" \in Sources
  BY DEF Sources, Anywhere
<1>3. \A e \in Entry : e.source \in Sources
  BY DEF Entry, Sources, Anywhere
<1>4. CASE backend = "ufw"
  BY <1>2, <1>4, ListingType DEF HostStatus
<1>5. CASE backend = "firewalld"
  BY <1>2, <1>5, ListingType DEF HostStatus
<1>6. CASE backend = "iptables"
  BY <1>2, <1>3, <1>6, ListingType DEF HostStatus
<1> QED BY <1>1, <1>4, <1>5, <1>6

-----------------------------------------------------------------------------
(* Types.  A request that has a command to run has one, and a reconciliation walks *)
(* through rows only.                                                              *)
Flow == \A r \in Requests :
  /\ req[r].pc = "host" => req[r].plan # <<>>
  /\ req[r].pc = "next" => req[r].op = "reconcile"
  /\ req[r].op = "reconcile" => req[r].listed \subseteq Ids \X Rule
  /\ req[r].op = "create" => req[r].new # None
TypeInv == TypeOK /\ Flow

LEMMA NoReqType == NoReq \in RequestStates
BY DEF NoReq, RequestStates, Resting

LEMMA RestType ==
  ASSUME NEW result \in Resting
  PROVE  [NoReq EXCEPT !.pc = result] \in RequestStates
BY NoReqType DEF RequestStates

LEMMA InitType == ASSUME Init PROVE TypeInv
<1>1. IsABag(host) /\ BagToSet(host) \subseteq Entry
  BY BagOfSet, FirewallAssumption DEF Init
<1>2. req \in [Requests -> RequestStates]
  BY NoReqType DEF Init
<1>3. Flow
  BY DEF Init, Flow, NoReq
<1> QED BY <1>1, <1>2, <1>3, FirewallAssumption DEF Init, TypeInv, TypeOK

LEMMA KnownType ==
  ASSUME TypeOK, NEW i \in Known PROVE i \in Ids /\ rows[i] \in Rule
BY DEF TypeOK, Known

(* A request that begins takes up a state of its own, and touches neither side. *)
LEMMA StartType ==
  ASSUME TypeInv, NEW r \in Requests, NEW rec \in RequestStates, Start(r, rec),
         rec.pc = "host" => rec.plan # <<>>,
         rec.pc = "next" => rec.op = "reconcile",
         rec.op = "reconcile" => rec.listed \subseteq Ids \X Rule,
         rec.op = "create" => rec.new # None,
         adrift' \subseteq Ids, scarred' \subseteq Entry, failures' \in 0..MaxFailures
  PROVE  TypeInv'
<1>1. req' \in [Requests -> RequestStates]
  BY DEF TypeInv, TypeOK, Start
<1>2. TypeOK'
  BY <1>1 DEF TypeInv, TypeOK, Start, table, wall
<1>3. Flow'
  BY DEF TypeInv, TypeOK, Flow, Start
<1> QED BY <1>2, <1>3 DEF TypeInv

LEMMA RefuseType ==
  ASSUME TypeInv, NEW r \in Requests, Refuse(r) PROVE TypeInv'
<1> DEFINE rec == [NoReq EXCEPT !.pc = "failed"]
<1>1. rec \in RequestStates /\ rec.pc = "failed" /\ rec.op = "none"
  BY RestType DEF Resting, NoReq
<1>2. adrift' \subseteq Ids /\ scarred' \subseteq Entry /\ failures' \in 0..MaxFailures
  BY DEF Refuse, NoFault, ghosts, TypeInv, TypeOK
<1>3. Start(r, rec)
  BY DEF Refuse
<1> HIDE DEF rec
<1> QED BY <1>1, <1>2, <1>3, StartType

LEMMA FaultType == ASSUME TypeOK, Fault \/ NoFault PROVE failures' \in 0..MaxFailures
BY FirewallAssumption DEF TypeOK, Fault, NoFault

LEMMA BeginType == ASSUME TypeInv, NEW r \in Requests, Begin(r) PROVE TypeInv'
<1> USE DEF TypeInv
<1>1. CASE NotFound(r)
  BY <1>1, RefuseType DEF NotFound
<1>2. CASE BeginCreate(r)
  <2>1. PICK rule \in Rules :
          IF DeniesSsh(rule, "here") THEN Refuse(r)
          ELSE /\ Start(r, [NoReq EXCEPT !.pc = Perform(Applied(rule)), !.op = "create",
                                         !.new = rule, !.plan = Applied(rule)])
               /\ NoFault /\ UNCHANGED ghosts
    BY <1>2 DEF BeginCreate
  <2> DEFINE rec == [NoReq EXCEPT !.pc = Perform(Applied(rule)), !.op = "create",
                                  !.new = rule, !.plan = Applied(rule)]
  <2>2. CASE Refuse(r)
    BY <2>2, RefuseType
  <2>3. CASE Start(r, rec) /\ NoFault /\ UNCHANGED ghosts
    <3>1. rule \in Rule /\ Applied(rule) \in Seq(Command)
      BY RulesType, PlanType
    <3>2. /\ rec \in RequestStates
          /\ rec.op = "create" /\ rec.pc \in {"row", "host"} /\ rec.new # None
          /\ rec.pc = "host" => rec.plan # <<>>
      BY <3>1, FirewallAssumption DEF RequestStates, NoReq, Perform
    <3>3. adrift' \subseteq Ids /\ scarred' \subseteq Entry /\ failures' \in 0..MaxFailures
      BY <2>3, FaultType DEF ghosts, TypeOK
    <3> HIDE DEF rec
    <3> QED BY <2>3, <3>2, <3>3, StartType
  <2> QED BY <2>1, <2>2, <2>3
<1>3. CASE BeginUpdate(r)
  <2>1. PICK i \in Known, rule \in Rules :
          IF ~MayReplace(rows[i], rule, "here") THEN Refuse(r)
          ELSE LET plan == Replaced(rows[i], rule, "here")
               IN /\ Start(r, [NoReq EXCEPT !.pc = Perform(plan), !.op = "update", !.id = i,
                                            !.old = rows[i], !.new = rule, !.plan = plan])
                  /\ NoFault /\ UNCHANGED ghosts
    BY <1>3 DEF BeginUpdate
  <2> DEFINE plan == Replaced(rows[i], rule, "here")
             rec  == [NoReq EXCEPT !.pc = Perform(plan), !.op = "update", !.id = i,
                                   !.old = rows[i], !.new = rule, !.plan = plan]
  <2>2. CASE Refuse(r)
    BY <2>2, RefuseType
  <2>3. CASE Start(r, rec) /\ NoFault /\ UNCHANGED ghosts
    <3>1. i \in Ids /\ rows[i] \in Rule /\ rule \in Rule
      BY RulesType, KnownType
    <3>2. plan \in Seq(Command)
      BY <3>1, PlanType
    <3>3. /\ rec \in RequestStates
          /\ rec.op = "update" /\ rec.pc \in {"row", "host"}
          /\ rec.pc = "host" => rec.plan # <<>>
      <4> HIDE DEF plan
      <4> QED BY <3>1, <3>2 DEF RequestStates, NoReq, Perform
    <3>4. adrift' \subseteq Ids /\ scarred' \subseteq Entry /\ failures' \in 0..MaxFailures
      BY <2>3, FaultType DEF ghosts, TypeOK
    <3> HIDE DEF rec
    <3> QED BY <2>3, <3>3, <3>4, StartType
  <2> QED BY <2>1, <2>2, <2>3
<1>4. CASE BeginDelete(r)
  <2>1. PICK i \in Known :
       \/ ~MayDelete(rows[i]) /\ Refuse(r)
       \/ /\ MayDelete(rows[i])
          /\ Start(r, [NoReq EXCEPT !.pc = "host", !.op = "delete", !.id = i,
                                    !.old = rows[i], !.plan = Deleted(rows[i])])
          /\ NoFault /\ UNCHANGED ghosts
       \/ /\ Start(r, [NoReq EXCEPT !.pc = "row", !.op = "delete", !.id = i])
          /\ Fault /\ scarred' = scarred \cup {EntryOf(rows[i])} /\ UNCHANGED adrift
    BY <1>4 DEF BeginDelete
  <2> DEFINE taken == [NoReq EXCEPT !.pc = "host", !.op = "delete", !.id = i,
                                    !.old = rows[i], !.plan = Deleted(rows[i])]
             bare  == [NoReq EXCEPT !.pc = "row", !.op = "delete", !.id = i]
  <2>2. i \in Ids /\ rows[i] \in Rule
    BY KnownType
  <2>3. CASE Refuse(r)
    BY <2>3, RefuseType
  <2>4. CASE Start(r, taken) /\ NoFault /\ UNCHANGED ghosts
    <3>1. Deleted(rows[i]) \in Seq(Command) /\ Deleted(rows[i]) # <<>>
      BY <2>2, PlanType
    <3>2. /\ taken \in RequestStates /\ taken.op = "delete" /\ taken.pc = "host"
          /\ taken.plan # <<>>
      BY <2>2, <3>1 DEF RequestStates, NoReq
    <3>3. adrift' \subseteq Ids /\ scarred' \subseteq Entry /\ failures' \in 0..MaxFailures
      BY <2>4, FaultType DEF ghosts, TypeOK
    <3> HIDE DEF taken
    <3> QED BY <2>4, <3>2, <3>3, StartType
  <2>5. CASE Start(r, bare) /\ Fault /\ scarred' = scarred \cup {EntryOf(rows[i])}
               /\ UNCHANGED adrift
    <3>1. bare \in RequestStates /\ bare.op = "delete" /\ bare.pc = "row"
      BY <2>2, NoReqType DEF RequestStates
    <3>2. adrift' \subseteq Ids /\ scarred' \subseteq Entry /\ failures' \in 0..MaxFailures
      BY <2>2, <2>5, FaultType, EntryOfType DEF TypeOK
    <3> HIDE DEF bare
    <3> QED BY <2>5, <3>1, <3>2, StartType
  <2> QED BY <2>1, <2>3, <2>4, <2>5
<1>5. CASE BeginImport(r)
  <2> DEFINE rec == [NoReq EXCEPT !.pc = "import", !.op = "import",
                                  !.listed = {<<0, rule>> : rule \in Missing}]
  <2>1. Missing \subseteq Rule
    BY HostStatusType DEF Missing, TypeOK
  <2>2. rec \in RequestStates /\ rec.op = "import" /\ rec.pc = "import"
    <3>1. {<<0, rule>> : rule \in Missing} \in SUBSET ((Ids \cup {0}) \X Rule)
      BY <2>1
    <3> HIDE DEF Missing
    <3> QED BY <3>1, NoReqType DEF RequestStates
  <2>3. Start(r, rec) /\ adrift' \subseteq Ids /\ scarred' \subseteq Entry
          /\ failures' \in 0..MaxFailures
    BY <1>5, FaultType DEF BeginImport, ghosts, TypeOK
  <2> HIDE DEF rec
  <2> QED BY <2>2, <2>3, StartType
<1>6. CASE BeginReconcile(r)
  <2> DEFINE rec == [NoReq EXCEPT !.pc = "next", !.op = "reconcile",
                                  !.listed = {<<i, rows[i]>> : i \in Known}]
  <2>1. {<<i, rows[i]>> : i \in Known} \subseteq Ids \X Rule
    BY KnownType
  <2>2. /\ rec \in RequestStates /\ rec.op = "reconcile" /\ rec.pc = "next"
        /\ rec.listed \subseteq Ids \X Rule
    BY <2>1, NoReqType DEF RequestStates
  <2>3. Start(r, rec) /\ adrift' \subseteq Ids /\ scarred' \subseteq Entry
          /\ failures' \in 0..MaxFailures
    BY <1>6, FaultType DEF BeginReconcile, ghosts, TypeOK
  <2> HIDE DEF rec
  <2> QED BY <2>2, <2>3, StartType
<1> QED BY <1>1, <1>2, <1>3, <1>4, <1>5, <1>6 DEF Begin

(* What a step of a request keeps, where it changes its state to rec. *)
LEMMA MoveType ==
  ASSUME TypeInv, NEW r \in Requests, NEW rec \in RequestStates, req' = [req EXCEPT ![r] = rec],
         rec.pc = "host" => rec.plan # <<>>,
         rec.pc = "next" => rec.op = "reconcile",
         rec.op = "reconcile" => rec.listed \subseteq Ids \X Rule,
         rec.op = "create" => rec.new # None
  PROVE  req' \in [Requests -> RequestStates] /\ Flow'
BY DEF TypeInv, TypeOK, Flow

LEMMA FinishType ==
  ASSUME TypeInv, NEW r \in Requests, NEW result \in Resting, Finish(r, result)
  PROVE  req' \in [Requests -> RequestStates] /\ Flow'
<1> DEFINE rec == [NoReq EXCEPT !.pc = result]
<1>1. rec \in RequestStates /\ rec.pc \in Resting /\ rec.op = "none"
  BY RestType DEF NoReq
<1>2. rec.pc # "host" /\ rec.pc # "next"
  BY <1>1 DEF Resting
<1>3. req' = [req EXCEPT ![r] = rec]
  BY DEF Finish
<1> HIDE DEF rec
<1> QED BY <1>1, <1>2, <1>3, MoveType

LEMMA GiveUpType ==
  ASSUME TypeInv, NEW r \in Requests, NEW lost \in SUBSET Ids, GiveUp(r, lost)
  PROVE  /\ req' \in [Requests -> RequestStates] /\ Flow'
         /\ adrift' \subseteq Ids /\ scarred' \subseteq Entry
<1>1. req[r] \in RequestStates
  BY DEF TypeInv, TypeOK
<1>2. {req[r].old, req[r].new} \subseteq Rule \cup {None} /\ req[r].id \in Ids \cup {None}
  BY <1>1 DEF RequestStates
<1>3. Entries({req[r].old, req[r].new}) \subseteq Entry
  BY <1>2, EntriesType
<1>4. adrift' \subseteq Ids /\ scarred' \subseteq Entry
  BY <1>2, <1>3 DEF GiveUp, TypeInv, TypeOK
<1> QED BY <1>4, FinishType DEF GiveUp, Resting

LEMMA ImportOneType == ASSUME TypeInv, NEW r \in Requests, ImportOne(r) PROVE TypeInv'
<1> USE DEF TypeInv
<1>1. UNCHANGED <<backend, host, loaded, adrift, scarred>> /\ failures' \in 0..MaxFailures
  BY FaultType DEF ImportOne, wall, ghosts
<1>2. req[r] \in RequestStates /\ req[r].pc = "import"
  BY DEF ImportOne, TypeOK
<1>3. CASE Fault /\ Finish(r, "failed") /\ UNCHANGED table
  <2>1. req' \in [Requests -> RequestStates] /\ Flow'
    BY <1>3, FinishType DEF Resting
  <2> QED BY <1>1, <1>3, <2>1 DEF TypeOK, table
<1>4. ASSUME NEW item \in req[r].listed, nextId \in Ids, nextId' = nextId + 1,
             rows' = [rows EXCEPT ![nextId] = item[2]],
             IF req[r].listed = {item} THEN Finish(r, "ok")
             ELSE req' = [req EXCEPT ![r].listed = @ \ {item}]
      PROVE  TypeInv'
  <2>1. item[2] \in Rule
    BY <1>2 DEF RequestStates
  <2>2. rows' \in [Ids -> Rule \cup {None}] /\ nextId' \in 1..(MaxRules + 1)
    BY <1>4, <2>1, FirewallAssumption DEF TypeOK, Ids
  <2>3. req' \in [Requests -> RequestStates] /\ Flow'
    <3>1. CASE Finish(r, "ok")
      BY <3>1, FinishType DEF Resting
    <3>2. CASE req' = [req EXCEPT ![r].listed = @ \ {item}]
      <4> DEFINE rec == [req[r] EXCEPT !.listed = @ \ {item}]
      <4>1. /\ rec \in RequestStates /\ rec.pc = "import" /\ rec.op = req[r].op
            /\ rec.listed \subseteq req[r].listed /\ rec.new = req[r].new
        BY <1>2 DEF RequestStates
      <4>2. req' = [req EXCEPT ![r] = rec]
        BY <3>2
      <4>3. /\ rec.op = "reconcile" => rec.listed \subseteq Ids \X Rule
            /\ rec.op = "create" => rec.new # None
        BY <4>1 DEF Flow
      <4> HIDE DEF rec
      <4> QED BY <4>1, <4>2, <4>3, MoveType
    <3> QED BY <1>4, <3>1, <3>2
  <2> QED BY <1>1, <2>2, <2>3 DEF TypeOK
<1> QED BY <1>3, <1>4 DEF ImportOne

LEMMA NextRuleType == ASSUME TypeInv, NEW r \in Requests, NextRule(r) PROVE TypeInv'
<1> USE DEF TypeInv
<1>1. UNCHANGED <<backend, host, loaded, rows, nextId>> /\ failures' \in 0..MaxFailures
  BY FaultType DEF NextRule, wall, table
<1>2. /\ req[r] \in RequestStates /\ req[r].op = "reconcile"
      /\ req[r].listed \subseteq Ids \X Rule
  BY DEF NextRule, TypeOK, Flow
<1>3. CASE Finish(r, "ok") /\ UNCHANGED ghosts
  <2>1. req' \in [Requests -> RequestStates] /\ Flow'
    BY <1>3, FinishType DEF Resting
  <2> QED BY <1>1, <1>3, <2>1 DEF TypeOK, ghosts
<1>4. CASE GiveUp(r, {})
  <2>1. /\ req' \in [Requests -> RequestStates] /\ Flow'
        /\ adrift' \subseteq Ids /\ scarred' \subseteq Entry
    BY <1>4, GiveUpType
  <2> QED BY <1>1, <2>1 DEF TypeOK
<1>5. ASSUME NEW item \in req[r].listed, NEW plan \in {Replaced(item[2], item[2], ""),
                                                       Deleted(item[2])},
             req' = [req EXCEPT ![r] =
                        [req[r] EXCEPT !.pc = IF plan = <<>> THEN "next" ELSE "host",
                                       !.id = item[1], !.old = item[2], !.new = item[2],
                                       !.plan = plan, !.listed = @ \ {item}]],
             UNCHANGED ghosts
      PROVE  TypeInv'
  <2>1. item[1] \in Ids /\ item[2] \in Rule
    BY <1>2
  <2>2. plan \in Seq(Command)
    BY <2>1, PlanType
  <2> DEFINE rec == [req[r] EXCEPT !.pc = IF plan = <<>> THEN "next" ELSE "host",
                                   !.id = item[1], !.old = item[2], !.new = item[2],
                                   !.plan = plan, !.listed = @ \ {item}]
  <2>3. /\ rec \in RequestStates /\ rec.op = "reconcile"
        /\ rec.pc = "host" => rec.plan # <<>>
        /\ rec.listed \subseteq Ids \X Rule
    BY <1>2, <2>1, <2>2 DEF RequestStates
  <2>4. req' = [req EXCEPT ![r] = rec]
    BY <1>5
  <2>5. req' \in [Requests -> RequestStates] /\ Flow'
    <3> HIDE DEF rec
    <3> QED BY <2>3, <2>4, MoveType
  <2> QED BY <1>1, <1>5, <2>5 DEF TypeOK, ghosts
<1> QED BY <1>3, <1>4, <1>5 DEF NextRule, Latest

LEMMA EffectType ==
  ASSUME TypeOK, NEW c \in Command, Effect(c) \/ UNCHANGED wall
  PROVE  /\ IsABag(host') /\ BagToSet(host') \subseteq Entry
         /\ IsABag(loaded') /\ BagToSet(loaded') \subseteq Entry
<1> USE DEF TypeOK
<1>1. CASE UNCHANGED wall
  BY <1>1 DEF wall
<1>2. ASSUME NEW h, IsABag(h), BagToSet(h) \subseteq Entry, Configure(h)
      PROVE  /\ IsABag(host') /\ BagToSet(host') \subseteq Entry
             /\ IsABag(loaded') /\ BagToSet(loaded') \subseteq Entry
  BY <1>2 DEF Configure
<1>3. CASE c.verb = "add" /\ Effect(c)
  <2>1. EntryOf(c.rule) \in Entry
    BY <1>3, EntryOfType DEF Command
  <2>2. IsABag(Added(EntryOf(c.rule))) /\ BagToSet(Added(EntryOf(c.rule))) \subseteq Entry
    BY <2>1, BagAdd DEF Added
  <2>3. Configure(Added(EntryOf(c.rule)))
    BY <1>3 DEF Effect
  <2> QED BY <1>2, <2>2, <2>3
<1>4. CASE c.verb = "remove" /\ Effect(c)
  <2>1. /\ IsABag(host (-) Copy(EntryOf(c.rule)))
        /\ BagToSet(host (-) Copy(EntryOf(c.rule))) \subseteq Entry
    BY BagRemove
  <2>2. Configure(host (-) Copy(EntryOf(c.rule)))
    BY <1>4 DEF Effect
  <2> QED BY <1>2, <2>1, <2>2
<1>5. CASE c.verb = "reload" /\ Effect(c)
  BY <1>5 DEF Effect
<1> QED BY <1>1, <1>3, <1>4, <1>5 DEF Command

LEMMA CommandType ==
  ASSUME TypeInv, NEW r \in Requests, req[r].pc = "host"
  PROVE  /\ req[r] \in RequestStates /\ Head(req[r].plan) \in Command
         /\ Tail(req[r].plan) \in Seq(Command)
BY DEF TypeInv, TypeOK, Flow, RequestStates

LEMMA AdvanceType ==
  ASSUME TypeInv, NEW r \in Requests, req[r].pc = "host", Advance(r) \/ (SkipRule(r) /\ Ignores(r))
  PROVE  req' \in [Requests -> RequestStates] /\ Flow'
<1>1. /\ req[r] \in RequestStates /\ Tail(req[r].plan) \in Seq(Command)
      /\ req[r].op = "reconcile" => req[r].listed \subseteq Ids \X Rule
      /\ req[r].op = "create" => req[r].new # None
  BY CommandType DEF TypeInv, Flow
<1>2. ASSUME NEW p, NEW plan \in Seq(Command), p \in {"host", "next", "row"},
             p = "host" => plan # <<>>, p = "next" => req[r].op = "reconcile",
             req' = [req EXCEPT ![r].plan = plan, ![r].pc = p]
      PROVE  req' \in [Requests -> RequestStates] /\ Flow'
  <2> DEFINE rec == [req[r] EXCEPT !.plan = plan, !.pc = p]
  <2>1. /\ rec \in RequestStates /\ rec.plan = plan /\ rec.pc = p /\ rec.op = req[r].op
        /\ rec.listed = req[r].listed /\ rec.new = req[r].new
    BY <1>1, <1>2 DEF RequestStates
  <2>2. req' = [req EXCEPT ![r] = rec]
    BY <1>2 DEF TypeInv, TypeOK
  <2> HIDE DEF rec
  <2> QED BY <1>1, <1>2, <2>1, <2>2, MoveType
<1>3. CASE Advance(r)
  <2> DEFINE rest == Tail(req[r].plan)
             p == IF rest # <<>> THEN "host"
                  ELSE IF req[r].op = "reconcile" THEN "next" ELSE "row"
  <2>1. req' = [req EXCEPT ![r].plan = rest, ![r].pc = p]
    BY <1>3 DEF Advance
  <2>2. /\ rest \in Seq(Command) /\ p \in {"host", "next", "row"}
        /\ p = "host" => rest # <<>>
        /\ p = "next" => req[r].op = "reconcile"
    BY <1>1
  <2> HIDE DEF rest, p
  <2> QED BY <1>2, <2>1, <2>2
<1>4. CASE SkipRule(r) /\ Ignores(r)
  <2>1. <<>> \in Seq(Command)
    OBVIOUS
  <2> DEFINE plan == <<>>
             p == "next"
  <2>2. req' = [req EXCEPT ![r].plan = plan, ![r].pc = p] /\ req[r].op = "reconcile"
    BY <1>4 DEF SkipRule, Ignores
  <2>3. plan \in Seq(Command) /\ p \in {"host", "next", "row"} /\ p # "host"
    BY <2>1
  <2> HIDE DEF plan, p
  <2> QED BY <1>2, <2>2, <2>3
<1> QED BY <1>3, <1>4

LEMMA UncoveredType ==
  ASSUME TypeInv, NEW r \in Requests PROVE Uncovered(r) \subseteq Ids
BY DEF Uncovered, Known, TypeInv, TypeOK, RequestStates

LEMMA RunCommandType == ASSUME TypeInv, NEW r \in Requests, RunCommand(r) PROVE TypeInv'
<1> DEFINE c == Head(req[r].plan)
<1>1. req[r].pc = "host" /\ req[r] \in RequestStates /\ c \in Command
  BY CommandType DEF RunCommand
<1>2. UNCHANGED <<backend, rows, nextId>> /\ failures' \in 0..MaxFailures
  BY FaultType DEF RunCommand, table, TypeInv
<1>3. /\ IsABag(host') /\ BagToSet(host') \subseteq Entry
      /\ IsABag(loaded') /\ BagToSet(loaded') \subseteq Entry
  <2>1. Effect(c) \/ UNCHANGED wall
    BY DEF RunCommand
  <2> QED BY <1>1, <2>1, EffectType DEF TypeInv
<1>4. Uncovered(r) \subseteq Ids /\ {} \subseteq Ids
  BY UncoveredType
<1>5. /\ req' \in [Requests -> RequestStates] /\ Flow'
      /\ adrift' \subseteq Ids /\ scarred' \subseteq Entry
  <2>1. CASE /\ Advance(r) /\ UNCHANGED scarred
             /\ adrift' = IF c.verb = "reload" THEN adrift
                          ELSE (adrift \ {req[r].id}) \cup Uncovered(r)
    <3>1. req' \in [Requests -> RequestStates] /\ Flow'
      BY <1>1, <2>1, AdvanceType
    <3> QED BY <1>4, <2>1, <3>1 DEF TypeInv, TypeOK
  <2>2. CASE Ignores(r) /\ SkipRule(r) /\ UNCHANGED ghosts
    <3>1. req' \in [Requests -> RequestStates] /\ Flow'
      BY <1>1, <2>2, AdvanceType
    <3> QED BY <2>2, <3>1 DEF TypeInv, TypeOK, ghosts
  <2>3. CASE GiveUp(r, {})
    BY <1>4, <2>3, GiveUpType
  <2>4. CASE /\ Ignores(r) /\ SkipRule(r) /\ adrift' = adrift \cup Uncovered(r)
             /\ scarred' = scarred \cup Entries({req[r].old})
    <3>1. req' \in [Requests -> RequestStates] /\ Flow'
      BY <1>1, <2>4, AdvanceType
    <3>2. Entries({req[r].old}) \subseteq Entry
      BY <1>1, EntriesType DEF RequestStates
    <3> QED BY <1>4, <2>4, <3>1, <3>2 DEF TypeInv, TypeOK
  <2>5. CASE GiveUp(r, Uncovered(r))
    BY <1>4, <2>5, GiveUpType
  <2> QED BY <2>1, <2>2, <2>3, <2>4, <2>5 DEF RunCommand
<1> QED BY <1>2, <1>3, <1>5 DEF TypeInv, TypeOK

LEMMA WriteRowType == ASSUME TypeInv, NEW r \in Requests, WriteRow(r) PROVE TypeInv'
<1>1. UNCHANGED <<backend, host, loaded>> /\ failures' \in 0..MaxFailures
  BY FaultType DEF WriteRow, wall, TypeInv
<1>2. req[r].new \in Rule \cup {None}
  BY DEF TypeInv, TypeOK, RequestStates
<1>3. CASE Finish(r, "ok") /\ UNCHANGED scarred /\ adrift' \subseteq Ids
             /\ rows' \in [Ids -> Rule \cup {None}] /\ nextId' \in 1..(MaxRules + 1)
  <2>1. req' \in [Requests -> RequestStates] /\ Flow'
    BY <1>3, FinishType DEF Resting
  <2> QED BY <1>1, <1>3, <2>1 DEF TypeInv, TypeOK
<1>4. CASE GiveUp(r, {}) /\ UNCHANGED table
  <2>1. /\ req' \in [Requests -> RequestStates] /\ Flow'
        /\ adrift' \subseteq Ids /\ scarred' \subseteq Entry
    BY <1>4, GiveUpType
  <2> QED BY <1>1, <1>4, <2>1 DEF TypeInv, TypeOK, table
<1>5. CASE /\ req[r].op = "create" /\ nextId \in Ids /\ Finish(r, "ok") /\ UNCHANGED scarred
           /\ rows' = [rows EXCEPT ![nextId] = Inserted(req[r].new)] /\ nextId' = nextId + 1
           /\ adrift' = IF req[r].new.enabled THEN adrift ELSE adrift \cup {nextId}
  <2>1. Inserted(req[r].new) \in Rule
    BY <1>2, <1>5 DEF TypeInv, Flow, Inserted, Rule
  <2>2. rows' \in [Ids -> Rule \cup {None}] /\ nextId' \in 1..(MaxRules + 1)
    BY <1>5, <2>1, FirewallAssumption DEF TypeInv, TypeOK, Ids
  <2>3. adrift' \subseteq Ids
    BY <1>5 DEF TypeInv, TypeOK
  <2> QED BY <1>3, <1>5, <2>2, <2>3
<1>6. CASE /\ Finish(r, "ok") /\ UNCHANGED <<nextId, ghosts>>
           /\ rows' = [rows EXCEPT ![req[r].id] = req[r].new]
  <2>1. rows' \in [Ids -> Rule \cup {None}] /\ nextId' \in 1..(MaxRules + 1)
    BY <1>2, <1>6 DEF TypeInv, TypeOK
  <2> QED BY <1>3, <1>6, <2>1 DEF TypeInv, TypeOK, ghosts
<1> QED BY <1>4, <1>5, <1>6 DEF WriteRow

LEMMA CrashType == ASSUME TypeInv, Crash PROVE TypeInv'
<1>1. req' \in [Requests -> RequestStates] /\ Flow'
  BY NoReqType DEF Crash, Flow, NoReq
<1>2. failures' \in 0..MaxFailures
  BY FaultType DEF Crash, TypeInv
<1>3. \A r \in Requests : /\ req[r].id \in Ids \cup {None}
                          /\ req[r].old \in Rule \cup {None} /\ req[r].new \in Rule \cup {None}
  BY DEF TypeInv, TypeOK, RequestStates
<1>4. adrift' \subseteq Ids
  BY <1>3 DEF Crash, TypeInv, TypeOK
<1>5. scarred' \subseteq Entry
  <2> DEFINE held == {req[r].old : r \in Requests} \cup {req[r].new : r \in Requests}
  <2>1. held \subseteq Rule \cup {None}
    BY <1>3
  <2>2. Entries(held) \subseteq Entry
    BY <2>1, EntriesType
  <2>3. scarred' = scarred \cup Entries(held)
    BY DEF Crash
  <2> QED BY <2>2, <2>3 DEF TypeInv, TypeOK
<1> QED BY <1>1, <1>2, <1>4, <1>5 DEF Crash, table, wall, TypeInv, TypeOK

LEMMA NextType == ASSUME TypeInv, [Next]_vars PROVE TypeInv'
<1>1. CASE UNCHANGED vars
  BY <1>1 DEF vars, TypeInv, TypeOK, Flow
<1>2. CASE Next
  BY <1>2, BeginType, ImportOneType, NextRuleType, RunCommandType, WriteRowType, CrashType
     DEF Next, Step
<1> QED BY <1>1, <1>2

LEMMA TypeInvariant == Spec => []TypeInv
BY InitType, NextType, PTL DEF Spec

\* The table, the host's entries and what each handler holds keep their types, for any
\* rules and hosts, any interleaving, failures and crashes: no step of the services in
\* firewall_service.go leaves a command, a row or an entry of another shape.
THEOREM FirewallTypeCorrect == Spec => []TypeOK
BY TypeInvariant, PTL DEF TypeInv

-----------------------------------------------------------------------------
(* Operators who take turns.  A request that replaces a rule that lets the operator in *)
(* has the successor on the host, or is about to put it there.                         *)
AtMostOne ==
  \A r, q \in Requests : req[r].pc \notin Resting /\ req[q].pc \notin Resting => r = q
\* The only rule that s removes from the host.
OnlyRemoves(s, rule) == \A k \in 1..Len(s) : s[k].verb = "remove" => s[k].rule = rule
Changing(q) == q.pc = "host" /\ q.op # "reconcile"
\* What is removed for a request that changes the table is the rule it changes.
RemovesOld == \A r \in Requests : Changing(req[r]) => OnlyRemoves(req[r].plan, req[r].old)
\* The rule lets the operator in, and goes.
Leaving(q) == /\ q.old # None /\ AllowsSsh(q.old, "here")
              /\ q.new # None => EntryOf(q.new) # EntryOf(q.old)
Successor(q) ==
  /\ q.new # None /\ AllowsSsh(q.new, "here")
  /\ \/ BagIn(EntryOf(q.new), host)
     \/ Head(q.plan) = [verb |-> "add", rule |-> q.new]
Succeeded == \A r \in Requests : Changing(req[r]) /\ Leaving(req[r]) => Successor(req[r])
TurnsInv == TypeInv /\ AtMostOne /\ RemovesOld /\ Succeeded

LEMMA ConcatRemoves ==
  ASSUME NEW s \in Seq(Command), NEW t \in Seq(Command), NEW rule,
         OnlyRemoves(s, rule), OnlyRemoves(t, rule)
  PROVE  OnlyRemoves(s \o t, rule)
<1> SUFFICES ASSUME NEW k \in 1..Len(s \o t), (s \o t)[k].verb = "remove"
             PROVE  (s \o t)[k].rule = rule
  BY DEF OnlyRemoves
<1>1. CASE k \in 1..Len(s)
  BY <1>1 DEF OnlyRemoves
<1>2. CASE k \in (Len(s) + 1)..(Len(s) + Len(t))
  <2>1. (s \o t)[k] = t[k - Len(s)] /\ k - Len(s) \in 1..Len(t)
    BY <1>2
  <2> QED BY <2>1 DEF OnlyRemoves
<1> QED BY <1>1, <1>2

LEMMA TailRemoves ==
  ASSUME NEW s \in Seq(Command), s # <<>>, NEW rule, OnlyRemoves(s, rule)
  PROVE  /\ OnlyRemoves(Tail(s), rule)
         /\ Head(s).verb = "remove" => Head(s).rule = rule
BY DEF OnlyRemoves

LEMMA PlanRemoves ==
  ASSUME NEW old \in Rule, NEW new \in Rule, NEW ip, NEW rule
  PROVE  /\ OnlyRemoves(Applied(new), rule)
         /\ OnlyRemoves(Deleted(old), old)
         /\ OnlyRemoves(Replaced(old, new, ip), old)
<1>1. OnlyRemoves(<<>>, rule) /\ OnlyRemoves(<<>>, old) /\ <<>> \in Seq(Command)
  BY DEF OnlyRemoves
<1>2. /\ Reload \in Seq(Command)
      /\ OnlyRemoves(Reload, rule) /\ OnlyRemoves(Reload, old)
  <2>1. <<[verb |-> "reload", rule |-> None]>> \in Seq(Command)
    BY DEF Command
  <2>2. ASSUME NEW x PROVE OnlyRemoves(<<[verb |-> "reload", rule |-> None]>>, x)
    BY DEF OnlyRemoves
  <2> QED BY <1>1, <2>1, <2>2 DEF Reload
<1>3. \A x : x \in {rule, old} => OnlyRemoves(Applied(new), x)
  <2>1. <<[verb |-> "add", rule |-> new]>> \in Seq(Command)
    BY DEF Command
  <2>2. ASSUME NEW x PROVE OnlyRemoves(<<[verb |-> "add", rule |-> new]>>, x)
    BY DEF OnlyRemoves
  <2>3. \A x : x \in {rule, old} => OnlyRemoves(<<[verb |-> "add", rule |-> new]>> \o Reload, x)
    BY <1>2, <2>1, <2>2, ConcatRemoves
  <2> QED BY <1>1, <2>3 DEF Applied
<1>4. OnlyRemoves(Deleted(old), old)
  <2>1. <<[verb |-> "remove", rule |-> old]>> \in Seq(Command)
    BY DEF Command
  <2>2. OnlyRemoves(<<[verb |-> "remove", rule |-> old]>>, old)
    BY DEF OnlyRemoves
  <2> QED BY <1>2, <2>1, <2>2, ConcatRemoves DEF Deleted
<1>5. OnlyRemoves(Replaced(old, new, ip), old)
  BY <1>1, <1>3, <1>4, PlanType, ConcatRemoves DEF Replaced
<1> QED BY <1>3, <1>4, <1>5

LEMMA AddedFirst ==
  ASSUME NEW old \in Rule, NEW new \in Rule, new.enabled
  PROVE  Head(Applied(new) \o Deleted(old)) = [verb |-> "add", rule |-> new]
<1>1. /\ Reload \in Seq(Command) /\ Deleted(old) \in Seq(Command)
      /\ [verb |-> "add", rule |-> new] \in Command
  <2>1. <<>> \in Seq(Command) /\ <<[verb |-> "reload", rule |-> None]>> \in Seq(Command)
    BY DEF Command
  <2> QED BY <2>1, PlanType DEF Reload, Command
<1>2. Applied(new) = <<[verb |-> "add", rule |-> new]>> \o Reload
  BY DEF Applied
<1>3. Applied(new) \in Seq(Command) /\ Len(Applied(new)) >= 1
        /\ Applied(new)[1] = [verb |-> "add", rule |-> new]
  BY <1>1, <1>2
<1> QED BY <1>1, <1>3

LEMMA InitTurns == ASSUME Init PROVE TurnsInv
<1>1. \A r \in Requests : req[r].pc = "idle"
  BY DEF Init, NoReq
<1> QED BY <1>1, InitType DEF TurnsInv, AtMostOne, RemovesOld, Succeeded, Changing, Resting

(* A step of a request, the others at rest, keeps the invariant where its own state does. *)
LEMMA OwnStep ==
  ASSUME TypeInv', NEW r \in Requests,
         \A q \in Requests \ {r} : req'[q].pc \in Resting,
         Changing(req[r])' => OnlyRemoves(req[r].plan, req[r].old)',
         Changing(req[r])' /\ Leaving(req[r])' => Successor(req[r])'
  PROVE  TurnsInv'
<1>1. \A q \in Requests \ {r} : req'[q].pc # "host"
  BY DEF Resting
<1>2. AtMostOne'
  BY DEF AtMostOne
<1>3. RemovesOld'
  BY <1>1 DEF RemovesOld, Changing
<1>4. Succeeded'
  BY <1>1 DEF Succeeded, Changing
<1> QED BY <1>2, <1>3, <1>4 DEF TurnsInv

LEMMA Elsewhere ==
  ASSUME TypeInv, NEW r \in Requests, \A q \in Requests \ {r} : req[q].pc \in Resting,
         NEW rec, req' = [req EXCEPT ![r] = rec]
  PROVE  req'[r] = rec /\ \A q \in Requests \ {r} : req'[q].pc \in Resting
BY DEF TypeInv, TypeOK

LEMMA RestStep ==
  ASSUME TypeInv', TypeInv, NEW r \in Requests, \A q \in Requests \ {r} : req[q].pc \in Resting,
         NEW rec, req' = [req EXCEPT ![r] = rec], rec.pc # "host" \/ rec.op = "reconcile"
  PROVE  TurnsInv'
<1>1. req'[r] = rec /\ \A q \in Requests \ {r} : req'[q].pc \in Resting
  BY Elsewhere
<1>2. ~Changing(req[r])'
  BY <1>1 DEF Changing
<1> QED BY <1>1, <1>2, OwnStep

LEMMA FinishTurns ==
  ASSUME TypeInv', TypeInv, NEW r \in Requests, \A q \in Requests \ {r} : req[q].pc \in Resting,
         NEW result \in Resting, Finish(r, result)
  PROVE  TurnsInv'
<1> DEFINE rec == [NoReq EXCEPT !.pc = result]
<1>1. rec.pc # "host"
  BY DEF NoReq, Resting
<1>2. req' = [req EXCEPT ![r] = rec]
  BY DEF Finish
<1> HIDE DEF rec
<1> QED BY <1>1, <1>2, RestStep

LEMMA BeginTurns ==
  ASSUME TurnsInv, ~Overlapping, NEW r \in Requests, Begin(r) PROVE TurnsInv'
<1>1. TypeInv /\ TypeInv'
  BY BeginType DEF TurnsInv
<1>2. \A q \in Requests \ {r} : req[q].pc \in Resting
  BY DEF Begin, NotFound, BeginCreate, BeginUpdate, BeginDelete, BeginImport, BeginReconcile, Idle
<1>3. CASE Refuse(r)
  <2>1. Finish(r, "failed")
    BY <1>3 DEF Refuse, Start, Finish
  <2> QED BY <1>1, <1>2, <2>1, FinishTurns DEF Resting
<1>4. CASE BeginCreate(r) /\ ~Refuse(r)
  <2>1. PICK rule \in Rules :
          Start(r, [NoReq EXCEPT !.pc = Perform(Applied(rule)), !.op = "create",
                                 !.new = rule, !.plan = Applied(rule)])
    BY <1>4 DEF BeginCreate
  <2> DEFINE rec == [NoReq EXCEPT !.pc = Perform(Applied(rule)), !.op = "create",
                                  !.new = rule, !.plan = Applied(rule)]
  <2>2. rec.old = None /\ rec.plan = Applied(rule)
    BY DEF NoReq
  <2>3. OnlyRemoves(Applied(rule), None)
    BY RulesType, PlanRemoves
  <2>4. req' = [req EXCEPT ![r] = rec]
    BY <2>1 DEF Start
  <2> HIDE DEF rec
  <2>5. req'[r] = rec /\ \A q \in Requests \ {r} : req'[q].pc \in Resting
    BY <1>1, <1>2, <2>4, Elsewhere
  <2>6. ~Leaving(req[r])' /\ OnlyRemoves(req[r].plan, req[r].old)'
    BY <2>2, <2>3, <2>5 DEF Leaving, OnlyRemoves
  <2> QED BY <1>1, <2>5, <2>6, OwnStep
<1>5. CASE BeginUpdate(r) /\ ~Refuse(r)
  <2>1. PICK i \in Known, rule \in Rules :
          /\ MayReplace(rows[i], rule, "here")
          /\ Start(r, [NoReq EXCEPT !.pc = Perform(Replaced(rows[i], rule, "here")),
                                    !.op = "update", !.id = i, !.old = rows[i], !.new = rule,
                                    !.plan = Replaced(rows[i], rule, "here")])
    BY <1>5 DEF BeginUpdate
  <2> DEFINE old  == rows[i]
             plan == Replaced(old, rule, "here")
             rec  == [NoReq EXCEPT !.pc = Perform(plan), !.op = "update", !.id = i,
                                   !.old = old, !.new = rule, !.plan = plan]
  <2>2. old \in Rule /\ rule \in Rule
    BY <1>1, RulesType, KnownType DEF TypeInv
  <2>3. /\ rec.old = old /\ rec.new = rule /\ rec.plan = plan
        /\ rec.pc = Perform(plan)
    BY DEF NoReq
  <2>4. OnlyRemoves(plan, old)
    BY <2>2, PlanRemoves
  <2>5. req' = [req EXCEPT ![r] = rec]
    BY <2>1 DEF Start
  <2>6. req'[r] = rec /\ \A q \in Requests \ {r} : req'[q].pc \in Resting
    <3> HIDE DEF rec
    <3> QED BY <1>1, <1>2, <2>5, Elsewhere
  <2>7. ASSUME rec.pc = "host", AllowsSsh(old, "here")
        PROVE  /\ AllowsSsh(rule, "here") /\ rule # None
               /\ Head(plan) = [verb |-> "add", rule |-> rule]
    <3>1. plan # <<>>
      BY <2>3, <2>7 DEF Perform
    <3>2. ~SameHostEffect(old, rule) /\ plan = Applied(rule) \o Deleted(old)
      BY <3>1, <2>7 DEF Replaced
    <3>3. AllowsSsh(rule, "here") /\ rule.enabled
      BY <2>1, <2>7, <3>2 DEF MayReplace, AllowsSsh, UsesSsh
    <3>4. Head(plan) = [verb |-> "add", rule |-> rule]
      BY <2>2, <3>2, <3>3, AddedFirst
    <3> QED BY <2>2, <3>3, <3>4, FirewallAssumption
  <2> HIDE DEF rec, plan, old
  <2>8. OnlyRemoves(req[r].plan, req[r].old)'
    BY <2>3, <2>4, <2>6 DEF OnlyRemoves
  <2>9. ASSUME Changing(req[r])', Leaving(req[r])' PROVE Successor(req[r])'
    <3>1. rec.pc = "host"
      BY <2>6, <2>9 DEF Changing
    <3>2. AllowsSsh(old, "here")
      BY <2>3, <2>6, <2>9 DEF Leaving, AllowsSsh, UsesSsh
    <3>3. /\ AllowsSsh(rule, "here") /\ rule # None
          /\ Head(plan) = [verb |-> "add", rule |-> rule]
      BY <2>7, <3>1, <3>2
    <3> QED BY <2>3, <2>6, <3>3 DEF Successor, AllowsSsh, UsesSsh
  <2> QED BY <1>1, <2>6, <2>8, <2>9, OwnStep
<1>6. CASE BeginDelete(r) /\ ~Refuse(r)
  <2>1. PICK i \in Known :
       \/ /\ MayDelete(rows[i])
          /\ Start(r, [NoReq EXCEPT !.pc = "host", !.op = "delete", !.id = i,
                                    !.old = rows[i], !.plan = Deleted(rows[i])])
       \/ Start(r, [NoReq EXCEPT !.pc = "row", !.op = "delete", !.id = i])
    BY <1>6 DEF BeginDelete
  <2> DEFINE taken == [NoReq EXCEPT !.pc = "host", !.op = "delete", !.id = i,
                                    !.old = rows[i], !.plan = Deleted(rows[i])]
             bare  == [NoReq EXCEPT !.pc = "row", !.op = "delete", !.id = i]
  <2>2. CASE MayDelete(rows[i]) /\ Start(r, taken)
    <3>1. rows[i] \in Rule
      BY <1>1, KnownType DEF TypeInv
    <3>2. taken.old = rows[i] /\ taken.plan = Deleted(rows[i])
      BY DEF NoReq
    <3>3. OnlyRemoves(taken.plan, taken.old)
      BY <3>1, <3>2, PlanRemoves
    <3>4. ~AllowsSsh(taken.old, "here")
      BY <2>2, <3>2 DEF MayDelete
    <3>5. req' = [req EXCEPT ![r] = taken]
      BY <2>2 DEF Start
    <3> HIDE DEF taken
    <3>6. req'[r] = taken /\ \A q \in Requests \ {r} : req'[q].pc \in Resting
      BY <1>1, <1>2, <3>5, Elsewhere
    <3>7. ~Leaving(req[r])'
      BY <3>4, <3>6 DEF Leaving, AllowsSsh, UsesSsh
    <3>8. OnlyRemoves(req[r].plan, req[r].old)'
      BY <3>3, <3>6 DEF OnlyRemoves
    <3> QED BY <1>1, <3>6, <3>7, <3>8, OwnStep
  <2>3. CASE Start(r, bare)
    <3>1. bare.pc = "row"
      BY DEF NoReq
    <3>2. req' = [req EXCEPT ![r] = bare]
      BY <2>3 DEF Start
    <3> HIDE DEF bare
    <3> QED BY <1>1, <1>2, <3>1, <3>2, RestStep
  <2> QED BY <2>1, <2>2, <2>3
<1>7. CASE BeginImport(r)
  <2> DEFINE rec == [NoReq EXCEPT !.pc = "import", !.op = "import",
                                  !.listed = {<<0, rule>> : rule \in Missing}]
  <2>1. rec.pc = "import" /\ req' = [req EXCEPT ![r] = rec]
    BY <1>7 DEF BeginImport, Start, NoReq
  <2> HIDE DEF rec
  <2> QED BY <1>1, <1>2, <2>1, RestStep
<1>8. CASE BeginReconcile(r)
  <2> DEFINE rec == [NoReq EXCEPT !.pc = "next", !.op = "reconcile",
                                  !.listed = {<<i, rows[i]>> : i \in Known}]
  <2>1. rec.pc = "next" /\ req' = [req EXCEPT ![r] = rec]
    BY <1>8 DEF BeginReconcile, Start, NoReq
  <2> HIDE DEF rec
  <2> QED BY <1>1, <1>2, <2>1, RestStep
<1> QED BY <1>3, <1>4, <1>5, <1>6, <1>7, <1>8 DEF Begin, NotFound

LEMMA OthersRest ==
  ASSUME AtMostOne, NEW r \in Requests, req[r].pc \notin Resting
  PROVE  \A q \in Requests \ {r} : req[q].pc \in Resting
BY DEF AtMostOne

LEMMA GiveUpTurns ==
  ASSUME TypeInv', TypeInv, NEW r \in Requests, \A q \in Requests \ {r} : req[q].pc \in Resting,
         NEW lost, GiveUp(r, lost)
  PROVE  TurnsInv'
BY FinishTurns DEF GiveUp, Resting

(* A command of a change to the table that succeeds. *)
LEMMA AdvanceTurns ==
  ASSUME TurnsInv, TypeInv', NEW r \in Requests, req[r].pc = "host",
         Effect(Head(req[r].plan)), Advance(r), backend' = backend
  PROVE  TurnsInv'
<1> DEFINE q    == req[r]
           c    == Head(q.plan)
           rest == Tail(q.plan)
<1>1. /\ TypeInv /\ q \in RequestStates /\ c \in Command /\ q.plan # <<>>
      /\ q.plan \in Seq(Command) /\ rest \in Seq(Command)
  BY CommandType DEF TurnsInv, TypeInv, Flow, RequestStates
<1>2. \A p \in Requests \ {r} : req[p].pc \in Resting
  BY OthersRest DEF TurnsInv, Resting
<1>3. /\ \A p \in Requests \ {r} : req'[p].pc \in Resting
      /\ req'[r].plan = rest /\ req'[r].op = q.op
      /\ req'[r].old = q.old /\ req'[r].new = q.new
  BY <1>1, <1>2 DEF Advance, TypeInv, TypeOK, RequestStates
<1> HIDE DEF q, c, rest
<1>4. ASSUME q.op # "reconcile"
      PROVE  /\ OnlyRemoves(rest, q.old)
             /\ c.verb = "remove" => c.rule = q.old
  <2>1. OnlyRemoves(q.plan, q.old)
    BY <1>4 DEF TurnsInv, RemovesOld, Changing, q
  <2> QED BY <1>1, <2>1, TailRemoves DEF c, rest
<1>5. ASSUME Changing(req[r])' PROVE OnlyRemoves(req[r].plan, req[r].old)'
  BY <1>3, <1>4, <1>5 DEF Changing, OnlyRemoves
<1>6. ASSUME Changing(req[r])', Leaving(req[r])' PROVE Successor(req[r])'
  <2>1. q.op # "reconcile"
    BY <1>3, <1>6 DEF Changing
  <2>2. Leaving(q)
    BY <1>3, <1>6 DEF Leaving, EntryOf, AllowsSsh, UsesSsh, AllowsIP
  <2>3. Successor(q)
    BY <2>1, <2>2 DEF TurnsInv, Succeeded, Changing, q
  <2>4. q.new # None /\ EntryOf(q.new) # EntryOf(q.old) /\ q.new \in Rule
    BY <1>1, <2>2, <2>3 DEF Successor, Leaving, RequestStates
  <2>5. BagIn(EntryOf(q.new), host')
    <3>1. IsABag(host)
      BY <1>1 DEF TypeInv, TypeOK
    <3>2. CASE c.verb = "add"
      <4>1. host' = Added(EntryOf(c.rule))
        BY <3>2 DEF Effect, Configure, c, q
      <4>2. BagToSet(Added(EntryOf(c.rule))) = BagToSet(host) \cup {EntryOf(c.rule)}
        BY <3>1, BagAdd DEF Added, BagIn
      <4>3. BagIn(EntryOf(q.new), host) \/ c.rule = q.new
        BY <2>3 DEF Successor, c
      <4> QED BY <4>1, <4>2, <4>3 DEF BagIn
    <3>3. CASE c.verb = "remove"
      <4>1. host' = host (-) Copy(EntryOf(q.old))
        BY <1>4, <2>1, <3>3 DEF Effect, Configure, c, q
      <4>2. BagIn(EntryOf(q.new), host)
        BY <2>3, <3>3 DEF Successor, c
      <4> QED BY <2>4, <3>1, <4>1, <4>2, BagRemove DEF BagIn
    <3>4. CASE c.verb = "reload"
      <4>1. host' = host
        BY <3>4 DEF Effect, c, q
      <4> QED BY <2>3, <3>4, <4>1 DEF Successor, c
    <3> QED BY <1>1, <3>2, <3>3, <3>4 DEF Command
  <2>6. EntryOf(req[r].new)' = EntryOf(q.new)
    BY <1>3 DEF EntryOf
  <2> QED BY <1>3, <2>3, <2>5, <2>6 DEF Successor, BagIn, BagToSet, AllowsSsh, UsesSsh
<1> QED BY <1>3, <1>5, <1>6, OwnStep

LEMMA RunCommandTurns ==
  ASSUME TurnsInv, NEW r \in Requests, RunCommand(r) PROVE TurnsInv'
<1>1. TypeInv /\ TypeInv' /\ req[r].pc = "host" /\ backend' = backend
  BY RunCommandType DEF TurnsInv, RunCommand
<1>2. \A q \in Requests \ {r} : req[q].pc \in Resting
  BY <1>1, OthersRest DEF TurnsInv, Resting
<1>3. CASE Effect(Head(req[r].plan)) /\ Advance(r)
  BY <1>1, <1>3, AdvanceTurns
<1>4. CASE Ignores(r) /\ SkipRule(r)
  <2> DEFINE rec == [req[r] EXCEPT !.plan = <<>>, !.pc = "next"]
  <2>1. req[r] \in RequestStates
    BY <1>1 DEF TypeInv, TypeOK
  <2>2. rec.pc = "next"
    BY <2>1 DEF RequestStates
  <2>3. req' = [req EXCEPT ![r] = rec]
    BY <1>1, <1>4 DEF SkipRule, TypeInv, TypeOK
  <2> HIDE DEF rec
  <2> QED BY <1>1, <1>2, <2>2, <2>3, RestStep
<1>5. CASE GiveUp(r, {})
  BY <1>1, <1>2, <1>5, GiveUpTurns
<1>6. CASE GiveUp(r, Uncovered(r))
  BY <1>1, <1>2, <1>6, FinishTurns DEF GiveUp, Resting
<1> QED BY <1>3, <1>4, <1>5, <1>6 DEF RunCommand

LEMMA StepTurns == ASSUME TurnsInv, NEW r \in Requests, Step(r) PROVE TurnsInv'
<1>1. TypeInv /\ TypeInv'
  BY ImportOneType, NextRuleType, RunCommandType, WriteRowType DEF Step, TurnsInv
<1>2. req[r] \in RequestStates
  BY <1>1 DEF TypeInv, TypeOK
<1>3. \A q \in Requests \ {r} : req[q].pc \in Resting
  BY OthersRest DEF TurnsInv, Step, ImportOne, NextRule, RunCommand, WriteRow, Resting
<1>4. ASSUME NEW result \in Resting, Finish(r, result) PROVE TurnsInv'
  BY <1>1, <1>3, <1>4, FinishTurns
<1>5. CASE ImportOne(r)
  <2>1. CASE Finish(r, "ok") \/ Finish(r, "failed")
    BY <1>4, <2>1 DEF Resting
  <2>2. ASSUME NEW item, req' = [req EXCEPT ![r].listed = @ \ {item}] PROVE TurnsInv'
    <3> DEFINE rec == [req[r] EXCEPT !.listed = @ \ {item}]
    <3>1. rec.pc = "import"
      BY <1>2, <1>5 DEF ImportOne, RequestStates
    <3>2. req' = [req EXCEPT ![r] = rec]
      BY <2>2
    <3> HIDE DEF rec
    <3> QED BY <1>1, <1>3, <3>1, <3>2, RestStep
  <2> QED BY <1>5, <2>1, <2>2 DEF ImportOne
<1>6. CASE NextRule(r)
  <2>1. CASE Finish(r, "ok") \/ GiveUp(r, {})
    BY <1>4, <2>1 DEF Resting, GiveUp
  <2>2. ASSUME NEW item, NEW plan,
               req' = [req EXCEPT ![r] =
                        [req[r] EXCEPT !.pc = IF plan = <<>> THEN "next" ELSE "host",
                                       !.id = item[1], !.old = item[2], !.new = item[2],
                                       !.plan = plan, !.listed = @ \ {item}]]
        PROVE  TurnsInv'
    <3> DEFINE rec == [req[r] EXCEPT !.pc = IF plan = <<>> THEN "next" ELSE "host",
                                     !.id = item[1], !.old = item[2], !.new = item[2],
                                     !.plan = plan, !.listed = @ \ {item}]
    <3>1. rec.op = "reconcile"
      BY <1>1, <1>2, <1>6 DEF NextRule, RequestStates, TypeInv, Flow
    <3>2. req' = [req EXCEPT ![r] = rec]
      BY <2>2
    <3> HIDE DEF rec
    <3> QED BY <1>1, <1>3, <3>1, <3>2, RestStep
  <2> QED BY <1>6, <2>1, <2>2 DEF NextRule
<1>7. CASE RunCommand(r)
  BY <1>7, RunCommandTurns
<1>8. CASE WriteRow(r)
  BY <1>4, <1>8 DEF WriteRow, GiveUp, Resting
<1> QED BY <1>5, <1>6, <1>7, <1>8 DEF Step

LEMMA NextTurns == ASSUME ~Overlapping, TurnsInv, [Next]_vars PROVE TurnsInv'
<1>1. CASE UNCHANGED vars
  <2>1. TypeInv'
    BY <1>1, NextType DEF TurnsInv
  <2>2. AtMostOne' /\ RemovesOld'
    BY <1>1 DEF vars, TurnsInv, AtMostOne, RemovesOld, OnlyRemoves, Changing
  <2>3. ASSUME NEW r \in Requests, Changing(req[r])', Leaving(req[r])'
        PROVE  Successor(req[r])'
    <3>1. req' = req /\ host' = host /\ backend' = backend
      BY <1>1 DEF vars
    <3>2. \A x : EntryOf(x)' = EntryOf(x)
      BY <3>1 DEF EntryOf
    <3>3. Changing(req[r]) /\ Leaving(req[r])
      BY <2>3, <3>1, <3>2 DEF Changing, Leaving, EntryOf
    <3>4. Successor(req[r])
      BY <3>3 DEF TurnsInv, Succeeded
    <3> QED BY <3>1, <3>4 DEF Successor, BagIn, BagToSet, EntryOf
  <2> QED BY <2>1, <2>2, <2>3 DEF TurnsInv, Succeeded
<1>2. CASE Crash
  <2>1. \A r \in Requests : req'[r].pc = "idle"
    BY <1>2 DEF Crash, NoReq
  <2>2. TypeInv'
    BY <1>2, CrashType DEF TurnsInv
  <2> QED BY <2>1, <2>2 DEF TurnsInv, AtMostOne, RemovesOld, Succeeded, Changing, Resting
<1> QED BY <1>1, <1>2, BeginTurns, StepTurns DEF Next

LEMMA TurnsInvariant == ASSUME ~Overlapping PROVE Spec => []TurnsInv
BY InitTurns, NextTurns, PTL DEF Spec

LEMMA OpenEntry == ASSUME TypeInv, NEW rule \in Rule, AllowsSsh(rule, "here")
  PROVE EntryOf(rule).port = "ssh" /\ EntryOf(rule).action = "allow"
          /\ EntryOf(rule).proto \in {"tcp", "any"}
<1>1. PlainPort("ssh") = "ssh"
  BY DEF PlainPort, V6
<1> QED BY <1>1 DEF AllowsSsh, UsesSsh, EntryOf

LEMMA ClosedEntry ==
  ASSUME NEW rule \in Rule, rule.enabled, ~AllowsSsh(rule, "here"), Accepts(rule)
  PROVE ~(EntryOf(rule).port = "ssh" /\ EntryOf(rule).action = "allow"
            /\ EntryOf(rule).proto \in {"tcp", "any"})
<1>1. rule.port \in Ports /\ PlainPort(rule.port) = rule.port
  BY DEF Accepts, PlainPort, Ports, V6
<1> QED BY <1>1 DEF AllowsSsh, UsesSsh, AllowsIP, EntryOf, Rule, Sources

\* Where operators take turns, a change of an enabled rule to one that is rendered otherwise
\* never takes away the last entry that lets the operator in on SSH, for any rules and
\* hosts, whatever fails (guards of ReplaceRule and DeleteRule, and the order in which
\* ReplaceRule applies and deletes).
THEOREM SshKeptInTurns == ASSUME ~Overlapping PROVE Spec => SshKept
<1> DEFINE Kept(r) == /\ req[r].pc = "host" /\ req[r].op # "reconcile"
                      /\ req[r].old # None => req[r].old.enabled
                             /\ EntryOf(req[r].old) \notin Entries({req[r].new})
                      => (Open(host) => Open(host'))
<1>1. TurnsInv /\ [Next]_vars => [\A r \in Requests : Kept(r)]_vars
  <2> SUFFICES ASSUME TurnsInv, Next, NEW r \in Requests, req[r].pc = "host",
                      req[r].op # "reconcile",
                      req[r].old # None => req[r].old.enabled
                             /\ EntryOf(req[r].old) \notin Entries({req[r].new}),
                      Open(host)
               PROVE  Open(host')
    OBVIOUS
  <2> DEFINE q == req[r]
             c == Head(q.plan)
  <2>1. \A p \in Requests : p # r => req[p].pc \in Resting
    BY OthersRest DEF TurnsInv, Resting
  <2>2. CASE UNCHANGED wall
    BY <2>2 DEF wall, Open, BagToSet
  <2>3. CASE Effect(c) /\ Succeeds(c)
    <3>1. /\ TypeInv /\ q \in RequestStates /\ c \in Command /\ IsABag(host)
          /\ q.plan \in Seq(Command) /\ q.plan # <<>>
      BY CommandType DEF TurnsInv, TypeInv, TypeOK, Flow, RequestStates
    <3>2. CASE c.verb = "add"
      <4>1. host' = Added(EntryOf(c.rule))
        BY <2>3, <3>2 DEF Effect, Configure
      <4>2. BagToSet(Added(EntryOf(c.rule))) = BagToSet(host) \cup {EntryOf(c.rule)}
        BY <3>1, BagAdd DEF Added, BagIn
      <4> QED BY <4>1, <4>2 DEF Open
    <3>3. CASE c.verb = "remove"
      <4>1. c.rule = q.old /\ c.rule \in Rule
        <5>1. OnlyRemoves(q.plan, q.old)
          BY DEF TurnsInv, RemovesOld, Changing
        <5> QED BY <3>1, <3>3, <5>1, TailRemoves DEF Command
      <4>2. host' = host (-) Copy(EntryOf(q.old))
        BY <2>3, <3>3, <4>1 DEF Effect, Configure
      <4>3. /\ BagToSet(host) \ {EntryOf(q.old)} \subseteq BagToSet(host')
        BY <3>1, <4>2, BagRemove
      <4>4. q.old # None /\ q.old.enabled
        BY <4>1, FirewallAssumption
      <4>5. CASE AllowsSsh(q.old, "here")
        <5>1. Leaving(q)
          BY <4>4, <4>5 DEF Leaving, Entries
        <5>2. Successor(q)
          BY <5>1 DEF TurnsInv, Succeeded, Changing
        <5>3. BagIn(EntryOf(q.new), host) /\ EntryOf(q.new) # EntryOf(q.old) /\ q.new \in Rule
                /\ AllowsSsh(q.new, "here")
          BY <3>1, <3>3, <5>1, <5>2 DEF Successor, Leaving, RequestStates
        <5>4. EntryOf(q.new) \in BagToSet(host')
          BY <4>3, <5>3 DEF BagIn
        <5> QED BY <3>1, <5>3, <5>4, OpenEntry DEF Open
      <4>6. CASE ~AllowsSsh(q.old, "here")
        <5>1. PICK e \in BagToSet(host) :
                e.port = "ssh" /\ e.action = "allow" /\ e.proto \in {"tcp", "any"}
          BY DEF Open
        <5>2. Accepts(q.old)
          BY <2>3, <3>3, <4>1 DEF Succeeds
        <5>3. e # EntryOf(q.old)
          BY <4>1, <4>4, <4>6, <5>1, <5>2, ClosedEntry
        <5> QED BY <4>3, <5>1, <5>3 DEF Open
      <4> QED BY <4>5, <4>6
    <3>4. CASE c.verb = "reload"
      BY <2>3, <3>4 DEF Effect, Open
    <3> QED BY <3>1, <3>2, <3>3, <3>4 DEF Command
  <2>4. UNCHANGED wall \/ (Effect(c) /\ Succeeds(c))
    <3>1. ASSUME NEW p \in Requests, Begin(p) PROVE UNCHANGED wall
      BY <3>1 DEF Begin, NotFound, BeginCreate, BeginUpdate, BeginDelete, BeginImport,
                  BeginReconcile, Refuse, Start
    <3>2. ASSUME NEW p \in Requests, ImportOne(p) \/ NextRule(p) \/ WriteRow(p)
          PROVE  UNCHANGED wall
      BY <3>2 DEF ImportOne, NextRule, WriteRow
    <3>3. ASSUME NEW p \in Requests, RunCommand(p) PROVE p = r
      BY <2>1, <3>3 DEF RunCommand, Resting
    <3>4. RunCommand(r) => UNCHANGED wall \/ (Effect(c) /\ Succeeds(c))
      BY DEF RunCommand
    <3>5. Crash => UNCHANGED wall
      BY DEF Crash
    <3> QED BY <3>1, <3>2, <3>3, <3>4, <3>5 DEF Next, Step
  <2> QED BY <2>2, <2>3, <2>4
<1> QED BY <1>1, TurnsInvariant, PTL DEF Spec, SshKept

-----------------------------------------------------------------------------
(***************************************************************************)
(* The table and the host, where operators take turns.  At most one        *)
(* request is at work; what it has done of its plan says which side is     *)
(* ahead of the other.                                                     *)
(***************************************************************************)
Current == IF \A r \in Requests : req[r].pc \in Resting THEN NoReq
           ELSE req[CHOOSE r \in Requests : req[r].pc \notin Resting]

HasVerb(plan, verb) == \E k \in DOMAIN plan : plan[k].verb = verb
Working(q) == q.pc \in {"host", "row"}
\* An update that has nothing to do on the host.
Same(q)    == q.op = "update" /\ AllowsSsh(q.old, "here") /\ SameHostEffect(q.old, q.new)
Changes(q) == Working(q) /\ ~Same(q)
\* The new rule has been added to the host; the old one has been removed.
Given(q)   == Changes(q) /\ q.new # None /\ q.new.enabled /\ ~HasVerb(q.plan, "add")
Taken(q)   == Changes(q) /\ q.old # None /\ ~HasVerb(q.plan, "remove")

\* What is left of a plan adds the new rule and removes the old one, each once, and ends
\* with a reload where the host needs one.
Ordered(plan, old, new) ==
  \A k \in DOMAIN plan :
    /\ plan[k].verb = "add" => plan[k].rule = new /\ new # None /\ new.enabled
    /\ plan[k].verb = "remove" => plan[k].rule = old /\ old # None
    /\ \A j \in DOMAIN plan :
         plan[j].verb = plan[k].verb => j = k \/ plan[k].verb = "reload"
Loading(plan) == backend = "firewalld" /\ plan # <<>> => plan[Len(plan)].verb = "reload"
Planned(q)    == Ordered(q.plan, q.old, q.new) /\ Loading(q.plan)

\* The rows a request holds are those of the table.
Stands(rule) == Enforced(rule, host) /\ Enforced(rule, loaded)
Holding(q) ==
  /\ q.pc = "host" => ~Same(q)
  /\ q.pc \in {"row", "next"} => q.plan = <<>>
  /\ Working(q) =>
       /\ q.op \in {"create", "update", "delete", "reconcile"}
       /\ q.op = "create" => q.id = None /\ q.old = None /\ q.new # None
       /\ q.op # "create" =>
            /\ q.id \in Known
            /\ \/ q.old = rows[q.id]
               \/ /\ q.pc = "row" /\ q.op = "delete" /\ q.old = None
                  /\ EntryOf(rows[q.id]) \in scarred
       /\ q.op = "update" => q.new # None
       /\ q.op = "delete" => q.new = None
       /\ q.op = "reconcile" => q.new = q.old /\ q.pc = "host"
  /\ q.op = "reconcile" => \A item \in q.listed : item[1] \in Known /\ item[2] = rows[item[1]]
  /\ q.pc = "import" => q.op = "import" /\ \A item \in q.listed : Stands(item[2])

\* What the host has besides what it came with is the panel's.
Walled ==
  /\ backend # "firewalld" => loaded = host
  /\ backend = "firewalld" =>
       \A e \in BagToSet(loaded) : e.tag # "" => e \in BagToSet(host) \cap Natives[backend]
  /\ backend # "iptables" =>
       \A e \in BagToSet(host) : host[e] = 1 /\ (e.tag = "" \/ e \in Natives[backend])
Unused == \A i \in Ids : i >= nextId => rows[i] = None

\* The active rules that no request changes are enforced.
Covers(q) ==
  \A i \in Known :
    rows[i].enabled /\ i \notin adrift /\ ~(Changes(q) /\ q.id = i) => Stands(rows[i])
\* So is the new rule once it has been added, unless the old one's removal took it away.
Settles(q) ==
  Given(q) =>
    /\ HasVerb(q.plan, "remove") => EntryOf(q.new) \in BagToSet(host)
    /\ ~HasVerb(q.plan, "remove") => Enforced(q.new, host) \/ q.id \in adrift
    /\ q.pc = "row" => Enforced(q.new, loaded) \/ q.id \in adrift

\* There are no more copies of an entry than rules they belong to; 0 is the new rule.
Copies(c) == UNION {{e} \X (1..host[e]) : e \in {f \in BagToSet(host) \ Natives[backend] :
                                                   Alike(f, c)}}
Owners(q, c) ==
  {i \in Known : /\ rows[i].enabled /\ Alike(EntryOf(rows[i]), c)
                 /\ ~(Taken(q) /\ q.id = i)}
    \cup {i \in {0} : Given(q) /\ Alike(EntryOf(q.new), c)}
Counts(q) ==
  \A c \in Entry : (\A f \in scarred : ~Alike(c, f)) =>
    IsFiniteSet(Copies(c)) /\ Cardinality(Copies(c)) <= Cardinality(Owners(q, c))

\* A reconciliation leads every active rule back to the host, but for those it does not
\* touch and those a disabled rule takes away.
Restorable(i) == /\ rows[i].enabled /\ ~AllowsSsh(rows[i], "")
                 /\ \A j \in Known : rows[j].enabled \/ EntryOf(rows[j]) # EntryOf(rows[i])
Restores(q) ==
  q.op = "reconcile" =>
    /\ q.pc = "host" /\ q.old.enabled /\ HasVerb(q.plan, "remove") =>
         Head(q.plan).verb = "remove" /\ HasVerb(q.plan, "add")
    /\ \A i \in {j \in Known : Restorable(j)} :
         \/ <<i, rows[i]>> \in q.listed
         \/ /\ EntryOf(rows[i]) \in BagToSet(host)
            /\ (q.pc = "host" /\ q.old.enabled) \/ EntryOf(rows[i]) \in BagToSet(loaded)
         \/ q.pc = "host" /\ HasVerb(q.plan, "add") /\ EntryOf(rows[i]) = EntryOf(q.new)

Matched(q) == Planned(q) /\ Holding(q) /\ Covers(q) /\ Settles(q) /\ Counts(q) /\ Restores(q)
Rested   == \A r \in Requests : req[r].pc \in Resting => req[r].op = "none"
MatchInv == TurnsInv /\ Walled /\ Unused /\ Rested /\ \A q \in {Current} : Matched(q)

-----------------------------------------------------------------------------
(* Counting copies. *)
LEMMA AddCounts ==
  ASSUME NEW B, IsABag(B), NEW e
  PROVE  /\ \A f \in BagToSet(B) \ {e} : (B (+) Copy(e))[f] = B[f]
         /\ (B (+) Copy(e))[e] = IF e \in BagToSet(B) THEN B[e] + 1 ELSE 1
BY DEF IsABag, BagToSet, Copy, SetToBag, (+)

LEMMA RemoveCounts ==
  ASSUME NEW B, IsABag(B), NEW e
  PROVE  /\ \A f \in BagToSet(B) \ {e} : (B (-) Copy(e))[f] = B[f]
         /\ e \in BagToSet(B (-) Copy(e)) =>
              e \in BagToSet(B) /\ B[e] > 1 /\ (B (-) Copy(e))[e] = B[e] - 1
BY DEF IsABag, BagToSet, Copy, SetToBag, (-)

LEMMA BagCounts == ASSUME NEW B, IsABag(B), NEW e \in BagToSet(B)
                   PROVE  B[e] \in Nat \ {0}
BY DEF IsABag, BagToSet

(* Alike entries. *)
LEMMA AlikeFields ==
  ASSUME NEW e \in Entry, NEW f \in Entry
  PROVE  Alike(e, f) <=> /\ e.proto = f.proto /\ e.port = f.port
                         /\ e.source = f.source /\ e.action = f.action
<1> DEFINE E == [e EXCEPT !.tag = ""]
           F == [f EXCEPT !.tag = ""]
<1>1. /\ E \in Entry /\ E.tag = "" /\ E.proto = e.proto /\ E.port = e.port
      /\ E.source = e.source /\ E.action = e.action
  BY DEF Entry, Tags
<1>2. /\ F \in Entry /\ F.tag = "" /\ F.proto = f.proto /\ F.port = f.port
      /\ F.source = f.source /\ F.action = f.action
  BY DEF Entry, Tags
<1> HIDE DEF E, F
<1>3. \A x \in Entry : x = [tag |-> x.tag, proto |-> x.proto, port |-> x.port,
                            source |-> x.source, action |-> x.action]
  BY DEF Entry
<1>4. Alike(e, f) <=> E = F
  BY DEF Alike, E, F
<1> QED BY <1>1, <1>2, <1>3, <1>4

LEMMA AlikeOrder ==
  ASSUME NEW e \in Entry, NEW f \in Entry, NEW g \in Entry
  PROVE  /\ Alike(e, e) /\ (Alike(e, f) => Alike(f, e))
         /\ Alike(e, f) /\ Alike(f, g) => Alike(e, g)
BY AlikeFields

LEMMA SameAlike ==
  ASSUME NEW a \in Rule, NEW b \in Rule, SameHostEffect(a, b)
  PROVE  Alike(EntryOf(a), EntryOf(b))
<1>1. EntryOf(a) \in Entry /\ EntryOf(b) \in Entry
  BY EntryOfType
<1>2. a.source \in Anywhere <=> b.source \in Anywhere
  BY DEF SameHostEffect, NormSource, Anywhere
<1> QED BY <1>1, <1>2, AlikeFields DEF SameHostEffect, EntryOf

(* The plans. *)
LEMMA ConcatVerbs ==
  ASSUME NEW s \in Seq(Command), NEW t \in Seq(Command)
  PROVE  \A verb : HasVerb(s \o t, verb) <=> HasVerb(s, verb) \/ HasVerb(t, verb)
<1>1. /\ DOMAIN s = 1..Len(s) /\ DOMAIN t = 1..Len(t) /\ DOMAIN (s \o t) = 1..(Len(s) + Len(t))
      /\ \A k \in 1..Len(s) : (s \o t)[k] = s[k]
      /\ \A k \in 1..Len(t) : (s \o t)[Len(s) + k] = t[k]
      /\ Len(s) \in Nat /\ Len(t) \in Nat
  OBVIOUS
<1>2. \A k \in 1..(Len(s) + Len(t)) : k \in 1..Len(s) \/ k - Len(s) \in 1..Len(t)
  BY <1>1
<1>3. \A k \in 1..Len(t) : Len(s) + k \in 1..(Len(s) + Len(t))
  BY <1>1
<1>4. \A k \in 1..(Len(s) + Len(t)) : (s \o t)[k] = IF k \in 1..Len(s) THEN s[k]
                                                   ELSE t[k - Len(s)]
  BY <1>1, <1>2
<1> QED BY <1>1, <1>2, <1>3, <1>4 DEF HasVerb

LEMMA ConcatOrdered ==
  ASSUME NEW s \in Seq(Command), NEW t \in Seq(Command), NEW old, NEW new,
         Ordered(s, old, new), Ordered(t, old, new),
         \A verb \in {"add", "remove"} : ~(HasVerb(s, verb) /\ HasVerb(t, verb))
  PROVE  Ordered(s \o t, old, new)
<1>1. /\ DOMAIN s = 1..Len(s) /\ DOMAIN t = 1..Len(t) /\ DOMAIN (s \o t) = 1..(Len(s) + Len(t))
      /\ Len(s) \in Nat /\ Len(t) \in Nat
  OBVIOUS
<1>2. \A k \in 1..(Len(s) + Len(t)) : /\ k \in 1..Len(s) \/ k - Len(s) \in 1..Len(t)
                                      /\ (s \o t)[k] = IF k \in 1..Len(s) THEN s[k]
                                                       ELSE t[k - Len(s)]
  BY <1>1
<1>3. \A k \in 1..Len(s) : s[k].verb \in {"add", "remove", "reload"}
  BY DEF Command
<1>4. \A k \in 1..Len(s), j \in 1..Len(t) : s[k].verb = t[j].verb => s[k].verb = "reload"
  BY <1>1, <1>3 DEF HasVerb
<1>5. \A j, k \in 1..(Len(s) + Len(t)) : j - Len(s) = k - Len(s) => j = k
  BY <1>1
<1> QED BY <1>1, <1>2, <1>4, <1>5 DEF Ordered

LEMMA ConcatLength ==
  ASSUME NEW s \in Seq(Command), NEW t \in Seq(Command)
  PROVE  /\ Len(s \o t) = Len(s) + Len(t) /\ Len(s) \in Nat /\ Len(t) \in Nat
         /\ s \o t = <<>> <=> s = <<>> /\ t = <<>>
         /\ t # <<>> => (s \o t)[Len(s \o t)] = t[Len(t)]
<1>1. Len(s \o t) = Len(s) + Len(t) /\ Len(s) \in Nat /\ Len(t) \in Nat
  OBVIOUS
<1>2. \A u \in Seq(Command) : u = <<>> <=> Len(u) = 0
  OBVIOUS
<1>3. s \o t \in Seq(Command)
  OBVIOUS
<1>4. t # <<>> => (s \o t)[Len(s \o t)] = t[Len(t)]
  OBVIOUS
<1> QED BY <1>1, <1>2, <1>3, <1>4

LEMMA AppliedPlan ==
  ASSUME NEW new \in Rule, NEW old
  PROVE  /\ Applied(new) \in Seq(Command)
         /\ Ordered(Applied(new), old, new) /\ Loading(Applied(new))
         /\ HasVerb(Applied(new), "add") <=> new.enabled
         /\ ~HasVerb(Applied(new), "remove")
         /\ new.enabled <=> Applied(new) # <<>>
<1>1. /\ <<[verb |-> "reload", rule |-> None]>> \in Seq(Command)
      /\ <<[verb |-> "add", rule |-> new]>> \in Seq(Command) /\ <<>> \in Seq(Command)
      /\ new # None
  BY FirewallAssumption DEF Command
<1>2. Reload \in Seq(Command) /\ ~HasVerb(Reload, "add") /\ ~HasVerb(Reload, "remove")
      /\ Ordered(Reload, old, new)
  BY <1>1 DEF Reload, HasVerb, Ordered
<1>3. CASE ~new.enabled
  BY <1>1, <1>3 DEF Applied, HasVerb, Ordered, Loading
<1>4. CASE new.enabled
  <2> DEFINE s == <<[verb |-> "add", rule |-> new]>>
  <2>1. /\ s \in Seq(Command) /\ Ordered(s, old, new) /\ HasVerb(s, "add")
        /\ ~HasVerb(s, "remove") /\ Len(s) = 1
    BY <1>1, <1>4 DEF HasVerb, Ordered
  <2>2. Applied(new) = s \o Reload
    BY <1>4 DEF Applied
  <2> HIDE DEF s
  <2>3. Ordered(Applied(new), old, new)
    BY <1>2, <2>1, <2>2, ConcatOrdered
  <2>4. /\ Applied(new) \in Seq(Command) /\ HasVerb(Applied(new), "add")
        /\ ~HasVerb(Applied(new), "remove")
    BY <1>2, <2>1, <2>2, ConcatVerbs
  <2>5. Applied(new) # <<>>
    BY <1>2, <2>1, <2>2, ConcatLength
  <2>6. Loading(Applied(new))
    <3>1. backend = "firewalld" => Len(Reload) = 1 /\ Reload[1].verb = "reload"
      BY DEF Reload
    <3>2. backend = "firewalld" => (s \o Reload)[Len(s \o Reload)] = Reload[1]
      BY <1>2, <2>1, <3>1, ConcatLength
    <3> QED BY <2>2, <3>1, <3>2 DEF Loading
  <2> QED BY <1>4, <2>3, <2>4, <2>5, <2>6
<1> QED BY <1>3, <1>4

LEMMA DeletedPlan ==
  ASSUME NEW old \in Rule, NEW new
  PROVE  /\ Deleted(old) \in Seq(Command) /\ Deleted(old) # <<>>
         /\ Ordered(Deleted(old), old, new) /\ Loading(Deleted(old))
         /\ HasVerb(Deleted(old), "remove") /\ ~HasVerb(Deleted(old), "add")
<1>1. /\ <<[verb |-> "reload", rule |-> None]>> \in Seq(Command) /\ <<>> \in Seq(Command)
      /\ old # None
  BY FirewallAssumption DEF Command
<1>2. Reload \in Seq(Command) /\ ~HasVerb(Reload, "add") /\ ~HasVerb(Reload, "remove")
      /\ Ordered(Reload, old, new)
  BY <1>1 DEF Reload, HasVerb, Ordered
<1> DEFINE s == <<[verb |-> "remove", rule |-> old]>>
<1>3. s \in Seq(Command)
  BY DEF Command
<1>4. Ordered(s, old, new) /\ HasVerb(s, "remove") /\ ~HasVerb(s, "add") /\ Len(s) = 1
  BY <1>1 DEF HasVerb, Ordered
<1>5. Deleted(old) = s \o Reload
  BY DEF Deleted
<1> HIDE DEF s
<1>6. Ordered(Deleted(old), old, new)
  BY <1>2, <1>3, <1>4, <1>5, ConcatOrdered
<1>7. /\ Deleted(old) \in Seq(Command) /\ HasVerb(Deleted(old), "remove")
      /\ ~HasVerb(Deleted(old), "add")
  BY <1>2, <1>3, <1>4, <1>5, ConcatVerbs
<1>8. Deleted(old) # <<>>
  BY <1>2, <1>3, <1>4, <1>5, ConcatLength
<1>9. Loading(Deleted(old))
  <2>1. backend = "firewalld" => Len(Reload) = 1 /\ Reload[1].verb = "reload"
    BY DEF Reload
  <2>2. backend = "firewalld" => (s \o Reload)[Len(s \o Reload)] = Reload[1]
    BY <1>2, <1>3, <1>4, <2>1, ConcatLength
  <2> QED BY <1>5, <2>1, <2>2 DEF Loading
<1> QED BY <1>5, <1>6, <1>7, <1>8, <1>9

\* What a rule is replaced by.
LEMMA ReplacedPlan ==
  ASSUME NEW old \in Rule, NEW new \in Rule, NEW ip
  PROVE  /\ Replaced(old, new, ip) \in Seq(Command)
         /\ Ordered(Replaced(old, new, ip), old, new) /\ Loading(Replaced(old, new, ip))
         /\ Replaced(old, new, ip) = <<>> <=> AllowsSsh(old, ip) /\ SameHostEffect(old, new)
         /\ Replaced(old, new, ip) # <<>> =>
              /\ HasVerb(Replaced(old, new, ip), "remove")
              /\ HasVerb(Replaced(old, new, ip), "add") <=> new.enabled
<1> DEFINE s == Applied(new)
           t == Deleted(old)
<1>1. /\ s \in Seq(Command) /\ Ordered(s, old, new) /\ Loading(s) /\ ~HasVerb(s, "remove")
      /\ HasVerb(s, "add") <=> new.enabled
  BY AppliedPlan
<1>2. /\ t \in Seq(Command) /\ t # <<>> /\ Ordered(t, old, new) /\ Loading(t)
      /\ HasVerb(t, "remove") /\ ~HasVerb(t, "add")
  BY DeletedPlan
<1>3. Replaced(old, new, ip) = IF AllowsSsh(old, ip)
                               THEN IF SameHostEffect(old, new) THEN <<>> ELSE s \o t
                               ELSE t \o s
  BY DEF Replaced
<1> HIDE DEF s, t
<1>4. /\ Ordered(s \o t, old, new) /\ Ordered(t \o s, old, new)
      /\ s \o t \in Seq(Command) /\ t \o s \in Seq(Command)
      /\ \A verb : HasVerb(s \o t, verb) <=> HasVerb(s, verb) \/ HasVerb(t, verb)
      /\ \A verb : HasVerb(t \o s, verb) <=> HasVerb(s, verb) \/ HasVerb(t, verb)
  BY <1>1, <1>2, ConcatOrdered, ConcatVerbs
<1>5. s \o t # <<>> /\ t \o s # <<>>
  BY <1>1, <1>2, ConcatLength
<1>6. Loading(s \o t) /\ Loading(t \o s)
  <2>1. (s \o t)[Len(s \o t)] = t[Len(t)]
    BY <1>1, <1>2, ConcatLength
  <2>2. s # <<>> => (t \o s)[Len(t \o s)] = s[Len(s)]
    BY <1>1, <1>2, ConcatLength
  <2>3. s = <<>> => t \o s = t
    BY <1>2
  <2> QED BY <1>1, <1>2, <2>1, <2>2, <2>3 DEF Loading
<1>7. Ordered(<<>>, old, new) /\ Loading(<<>>) /\ <<>> \in Seq(Command)
  BY DEF Ordered, Loading
<1> QED BY <1>1, <1>2, <1>3, <1>4, <1>5, <1>6, <1>7

\* The first command of a plan, and the rest.
LEMMA PlanTail ==
  ASSUME NEW plan \in Seq(Command), plan # <<>>, NEW old, NEW new, Ordered(plan, old, new),
         Loading(plan)
  PROVE  /\ Ordered(Tail(plan), old, new) /\ Loading(Tail(plan)) /\ Tail(plan) \in Seq(Command)
         /\ Head(plan) \in Command
         /\ Head(plan).verb = "add" => /\ Head(plan).rule = new /\ new # None /\ new.enabled
                                       /\ HasVerb(plan, "add") /\ ~HasVerb(Tail(plan), "add")
         /\ Head(plan).verb = "remove" => /\ Head(plan).rule = old /\ old # None
                                          /\ HasVerb(plan, "remove")
                                          /\ ~HasVerb(Tail(plan), "remove")
         /\ \A verb : HasVerb(plan, verb) <=> Head(plan).verb = verb \/ HasVerb(Tail(plan), verb)
         /\ Tail(plan) = <<>> /\ backend = "firewalld" => Head(plan).verb = "reload"
<1>1. /\ DOMAIN plan = 1..Len(plan) /\ Len(plan) \in Nat \ {0}
      /\ DOMAIN Tail(plan) = 1..(Len(plan) - 1) /\ Len(Tail(plan)) = Len(plan) - 1
      /\ \A k \in 1..(Len(plan) - 1) : Tail(plan)[k] = plan[k + 1]
      /\ Head(plan) = plan[1] /\ Tail(plan) \in Seq(Command)
  OBVIOUS
<1>2. \A k \in 1..(Len(plan) - 1) : k + 1 \in 1..Len(plan) /\ k + 1 # 1
  BY <1>1
<1>3. 1 \in 1..Len(plan) /\ \A k \in 1..Len(plan) : k = 1 \/ k - 1 \in 1..(Len(plan) - 1)
  BY <1>1
<1>4. Ordered(Tail(plan), old, new)
  <2>1. \A j, k \in 1..(Len(plan) - 1) : j + 1 = k + 1 => j = k
    BY <1>1
  <2> QED BY <1>1, <1>2, <2>1 DEF Ordered
<1>5. Loading(Tail(plan))
  <2>1. Tail(plan) # <<>> => Len(plan) - 1 \in 1..(Len(plan) - 1)
    BY <1>1
  <2>2. Tail(plan) # <<>> => Tail(plan)[Len(Tail(plan))] = plan[Len(plan)]
    BY <1>1, <2>1
  <2> QED BY <2>2 DEF Loading
<1>6. \A verb : HasVerb(plan, verb) <=> Head(plan).verb = verb \/ HasVerb(Tail(plan), verb)
  <2>1. \A k \in 1..Len(plan) : k # 1 => plan[k] = Tail(plan)[k - 1]
    BY <1>1, <1>3
  <2>2. ASSUME NEW verb, NEW k \in 1..Len(plan), plan[k].verb = verb
        PROVE  Head(plan).verb = verb \/ HasVerb(Tail(plan), verb)
    BY <1>1, <1>3, <2>1, <2>2 DEF HasVerb
  <2>3. ASSUME NEW verb, NEW k \in 1..(Len(plan) - 1), Tail(plan)[k].verb = verb
        PROVE  HasVerb(plan, verb)
    BY <1>1, <1>2, <2>3 DEF HasVerb
  <2>4. HasVerb(plan, Head(plan).verb)
    BY <1>1, <1>3 DEF HasVerb
  <2>5. \A verb : HasVerb(plan, verb) <=> \E k \in 1..Len(plan) : plan[k].verb = verb
    BY <1>1 DEF HasVerb
  <2>6. \A verb : HasVerb(Tail(plan), verb)
                    <=> \E k \in 1..(Len(plan) - 1) : Tail(plan)[k].verb = verb
    BY <1>1 DEF HasVerb
  <2> QED BY <2>2, <2>3, <2>4, <2>5, <2>6
<1>7. Head(plan).verb \in {"add", "remove"} => ~HasVerb(Tail(plan), Head(plan).verb)
  BY <1>1, <1>2, <1>3 DEF HasVerb, Ordered
<1>8. Tail(plan) = <<>> => Len(plan) = 1
  <2>1. \A u \in Seq(Command) : u = <<>> <=> Len(u) = 0
    OBVIOUS
  <2>2. Tail(plan) = <<>> => Len(Tail(plan)) = 0
    BY <1>1, <2>1
  <2>3. \A n \in Nat \ {0} : n - 1 = 0 => n = 1
    OBVIOUS
  <2>4. Len(plan) \in Nat \ {0} /\ Len(Tail(plan)) = Len(plan) - 1
    BY <1>1
  <2> QED BY <2>2, <2>3, <2>4
<1> QED BY <1>1, <1>3, <1>4, <1>5, <1>6, <1>7, <1>8 DEF Ordered, Loading

-----------------------------------------------------------------------------
(* What a command does to the two bags. *)
LEMMA Rigid ==
  ASSUME backend' = backend
  PROVE  /\ \A rule : EntryOf(rule)' = EntryOf(rule)
         /\ \A rule : /\ Enforced(rule, host)' <=> Enforced(rule, host')
                      /\ Enforced(rule, loaded)' <=> Enforced(rule, loaded')
                      /\ Stands(rule)' <=> Enforced(rule, host') /\ Enforced(rule, loaded')
<1>1. \A rule : EntryOf(rule)' = EntryOf(rule)
  BY DEF EntryOf
<1>2. ASSUME NEW rule
      PROVE  /\ Enforced(rule, host)' <=> Enforced(rule, host')
             /\ Enforced(rule, loaded)' <=> Enforced(rule, loaded')
  BY <1>1 DEF Enforced, BagToSet
<1>3. \A rule : Stands(rule)' <=> Enforced(rule, host)' /\ Enforced(rule, loaded)'
  BY DEF Stands
<1> QED BY <1>1, <1>2, <1>3

LEMMA CommandBags ==
  ASSUME TypeOK, NEW c \in Command, Effect(c)
  PROVE  /\ c.verb = "add" => /\ host' = Added(EntryOf(c.rule))
                              /\ BagToSet(host') = BagToSet(host) \cup {EntryOf(c.rule)}
         /\ c.verb = "remove" =>
              /\ host' = host (-) Copy(EntryOf(c.rule))
              /\ BagToSet(host') \subseteq BagToSet(host)
              /\ BagToSet(host) \ {EntryOf(c.rule)} \subseteq BagToSet(host')
         /\ c.verb = "reload" => host' = host /\ loaded' = host
         /\ c.verb # "reload" => loaded' = IF backend = "firewalld" THEN loaded ELSE host'
         /\ c.verb # "reload" => c.rule \in Rule
<1>1. CASE c.verb = "add"
  <2>1. host' = Added(EntryOf(c.rule)) /\ loaded' = IF backend = "firewalld" THEN loaded ELSE host'
    BY <1>1 DEF Effect, Configure
  <2>2. BagToSet(host') = BagToSet(host) \cup {EntryOf(c.rule)}
    BY <2>1, BagAdd DEF Added, BagIn, TypeOK
  <2> QED BY <1>1, <2>1, <2>2 DEF Command
<1>2. CASE c.verb = "remove"
  <2>1. /\ host' = host (-) Copy(EntryOf(c.rule))
        /\ loaded' = IF backend = "firewalld" THEN loaded ELSE host'
    BY <1>2 DEF Effect, Configure
  <2> QED BY <1>2, <2>1, BagRemove DEF Command, TypeOK
<1>3. CASE c.verb = "reload"
  BY <1>3 DEF Effect, Command
<1> QED BY <1>1, <1>2, <1>3 DEF Command

LEMMA EntryTag ==
  ASSUME NEW rule \in Rule
  PROVE  /\ EntryOf(rule) \in Entry
         /\ backend # "iptables" => EntryOf(rule).tag = ""
         /\ backend = "iptables" => EntryOf(rule).tag \in Names
BY EntryOfType DEF EntryOf, Rule

LEMMA CommandWalled ==
  ASSUME TypeOK, Walled, NEW c \in Command, Effect(c), backend' = backend
  PROVE  Walled'
<1>1. CASE c.verb = "reload"
  <2>1. host' = host /\ loaded' = host
    BY <1>1, CommandBags
  <2> QED BY <2>1 DEF Walled, BagToSet
<1>2. CASE c.verb # "reload"
  <2> DEFINE e == EntryOf(c.rule)
  <2>1. /\ e \in Entry
        /\ backend # "iptables" => e.tag = ""
        /\ loaded' = IF backend = "firewalld" THEN loaded ELSE host'
        /\ IsABag(host)
    BY <1>2, CommandBags, EntryTag DEF TypeOK
  <2>2. BagToSet(host) \ {e} \subseteq BagToSet(host')
    BY <1>2, CommandBags DEF Command
  <2>3. backend = "firewalld" =>
          \A x \in BagToSet(loaded') : x.tag # "" => x \in BagToSet(host') \cap Natives[backend]
    <3> HIDE DEF e
    <3> QED BY <2>1, <2>2 DEF Walled
  <2>4. ASSUME backend # "iptables", NEW x \in BagToSet(host')
        PROVE  host'[x] = 1 /\ (x.tag = "" \/ x \in Natives[backend])
    <3>1. CASE c.verb = "add"
      <4>1. host' = Added(e) /\ BagToSet(host') = BagToSet(host) \cup {e}
        BY <3>1, CommandBags
      <4>2. CASE e \in BagToSet(host)
        BY <2>4, <4>1, <4>2 DEF Added, BagIn, Walled
      <4>3. CASE e \notin BagToSet(host)
        <5>1. host' = host (+) Copy(e)
          BY <4>1, <4>3 DEF Added, BagIn
        <5> HIDE DEF e
        <5>2. host'[e] = 1 /\ \A f \in BagToSet(host) \ {e} : host'[f] = host[f]
          BY <2>1, <4>3, <5>1, AddCounts
        <5>3. CASE x = e
          BY <2>1, <2>4, <5>2, <5>3
        <5>4. CASE x \in BagToSet(host) \ {e}
          BY <2>4, <5>2, <5>4 DEF Walled
        <5> QED BY <2>4, <4>1, <5>3, <5>4
      <4> QED BY <4>2, <4>3
    <3>2. CASE c.verb = "remove"
      <4>1. host' = host (-) Copy(e) /\ BagToSet(host') \subseteq BagToSet(host)
        BY <3>2, CommandBags
      <4> HIDE DEF e
      <4>2. x # e
        <5>1. x = e => e \in BagToSet(host) /\ host[e] > 1 /\ host[e] = 1
          BY <2>1, <2>4, <4>1, RemoveCounts DEF Walled
        <5> QED BY <5>1
      <4>3. \A f \in BagToSet(host) \ {e} : host'[f] = host[f]
        BY <2>1, <4>1, RemoveCounts
      <4> QED BY <2>4, <4>1, <4>2, <4>3 DEF Walled
    <3> QED BY <1>2, <3>1, <3>2 DEF Command
  <2> QED BY <2>1, <2>3, <2>4 DEF Walled, BagToSet
<1> QED BY <1>1, <1>2

\* What stands and is still in the configuration goes on standing.
LEMMA CommandStands ==
  ASSUME TypeOK, Walled, Walled', NEW c \in Command, Effect(c) \/ UNCHANGED wall,
         backend' = backend, NEW rule, Stands(rule)
  PROVE  /\ Enforced(rule, host') => Stands(rule)'
         /\ c.verb = "reload" => Stands(rule)'
         /\ UNCHANGED wall => Stands(rule)'
<1>1. CASE UNCHANGED wall
  BY <1>1, Rigid DEF wall, Stands
<1>2. CASE Effect(c) /\ c.verb = "reload"
  BY <1>2, CommandBags, Rigid DEF Stands
<1>3. CASE Effect(c) /\ c.verb # "reload"
  <2>1. loaded' = IF backend = "firewalld" THEN loaded ELSE host'
    BY <1>3, CommandBags
  <2>2. UNCHANGED wall => Stands(rule)'
    BY Rigid DEF wall, Stands
  <2> QED BY <1>3, <2>1, <2>2, Rigid DEF Stands
<1> QED BY <1>1, <1>2, <1>3

(* Counting. *)
LEMMA CountGrow ==
  ASSUME NEW C, NEW C1, NEW O, NEW O1, NEW x, NEW y,
         IsFiniteSet(C), IsFiniteSet(O1), Cardinality(C) <= Cardinality(O),
         C1 \subseteq C \cup {x}, O \cup {y} \subseteq O1, y \notin O
  PROVE  IsFiniteSet(C1) /\ Cardinality(C1) <= Cardinality(O1)
<1>1. IsFiniteSet(O)
  BY FS_Subset
<1>2. IsFiniteSet(C \cup {x}) /\ Cardinality(C \cup {x}) <= Cardinality(C) + 1
  <2>1. /\ IsFiniteSet(C \cup {x})
        /\ Cardinality(C \cup {x}) = IF x \in C THEN Cardinality(C) ELSE Cardinality(C) + 1
    BY FS_AddElement
  <2>2. Cardinality(C) \in Nat
    BY FS_CardinalityType
  <2> QED BY <2>1, <2>2
<1>3. IsFiniteSet(C1) /\ Cardinality(C1) <= Cardinality(C \cup {x})
  BY <1>2, FS_Subset
<1>4. Cardinality(O \cup {y}) = Cardinality(O) + 1
  BY <1>1, FS_AddElement
<1>5. Cardinality(O \cup {y}) <= Cardinality(O1)
  BY FS_Subset
<1>6. /\ Cardinality(C) \in Nat /\ Cardinality(C1) \in Nat /\ Cardinality(O) \in Nat
      /\ Cardinality(O1) \in Nat /\ Cardinality(C \cup {x}) \in Nat
  BY <1>1, <1>2, <1>3, FS_CardinalityType
<1> QED BY <1>2, <1>3, <1>4, <1>5, <1>6

Without(C1, C, x) == C1 \subseteq C \ {x}
LEMMA CountShrink ==
  ASSUME NEW C, NEW C1, NEW O, NEW O1, NEW x, NEW y, x \in C,
         IsFiniteSet(C), IsFiniteSet(O), IsFiniteSet(O1), Cardinality(C) <= Cardinality(O),
         Without(C1, C, x), O \ {y} \subseteq O1
  PROVE  IsFiniteSet(C1) /\ Cardinality(C1) <= Cardinality(O1)
<1>1. IsFiniteSet(C \ {x}) /\ Cardinality(C \ {x}) = Cardinality(C) - 1
  BY FS_RemoveElement
<1>2. IsFiniteSet(C1) /\ Cardinality(C1) <= Cardinality(C \ {x})
  <2>1. C1 \subseteq C \ {x}
    BY DEF Without
  <2> QED BY <1>1, <2>1, FS_Subset
<1>3. IsFiniteSet(O \ {y}) /\ Cardinality(O \ {y}) >= Cardinality(O) - 1
  <2>1. /\ IsFiniteSet(O \ {y})
        /\ Cardinality(O \ {y}) = IF y \in O THEN Cardinality(O) - 1 ELSE Cardinality(O)
    BY FS_RemoveElement
  <2>2. Cardinality(O) \in Nat
    BY FS_CardinalityType
  <2> QED BY <2>1, <2>2
<1>4. Cardinality(O \ {y}) <= Cardinality(O1)
  <2>1. O \ {y} \subseteq O1
    OBVIOUS
  <2> QED BY <2>1, FS_Subset
<1>5. /\ Cardinality(C) \in Nat /\ Cardinality(C1) \in Nat /\ Cardinality(O) \in Nat
      /\ Cardinality(O1) \in Nat /\ Cardinality(O \ {y}) \in Nat
  BY <1>2, <1>3, FS_CardinalityType
<1> QED BY <1>1, <1>2, <1>3, <1>4, <1>5

LEMMA CountSame ==
  ASSUME NEW C, NEW C1, NEW O, NEW O1, IsFiniteSet(C), IsFiniteSet(O1),
         Cardinality(C) <= Cardinality(O), C1 \subseteq C, O \subseteq O1
  PROVE  IsFiniteSet(C1) /\ Cardinality(C1) <= Cardinality(O1)
<1>1. IsFiniteSet(C1) /\ Cardinality(C1) <= Cardinality(C)
  BY FS_Subset
<1>2. IsFiniteSet(O) /\ Cardinality(O) <= Cardinality(O1)
  BY FS_Subset
<1>3. /\ Cardinality(C) \in Nat /\ Cardinality(C1) \in Nat /\ Cardinality(O) \in Nat
      /\ Cardinality(O1) \in Nat
  BY <1>1, <1>2, FS_CardinalityType
<1> QED BY <1>1, <1>2, <1>3

LEMMA CountSwap ==
  ASSUME NEW C, NEW O, NEW O1, NEW y, NEW z, IsFiniteSet(O), IsFiniteSet(O1),
         IsFiniteSet(C), Cardinality(C) <= Cardinality(O),
         (O \ {y}) \cup {z} \subseteq O1, z \notin O
  PROVE  Cardinality(C) <= Cardinality(O1)
<1>1. IsFiniteSet(O \ {y}) /\ Cardinality(O \ {y}) >= Cardinality(O) - 1
  <2>1. /\ IsFiniteSet(O \ {y})
        /\ Cardinality(O \ {y}) = IF y \in O THEN Cardinality(O) - 1 ELSE Cardinality(O)
    BY FS_RemoveElement
  <2>2. Cardinality(O) \in Nat
    BY FS_CardinalityType
  <2> QED BY <2>1, <2>2
<1>2. /\ IsFiniteSet((O \ {y}) \cup {z})
      /\ Cardinality((O \ {y}) \cup {z}) = Cardinality(O \ {y}) + 1
  BY <1>1, FS_AddElement
<1>3. Cardinality((O \ {y}) \cup {z}) <= Cardinality(O1)
  BY FS_Subset
<1>4. /\ Cardinality(C) \in Nat /\ Cardinality(O) \in Nat /\ Cardinality(O1) \in Nat
      /\ Cardinality(O \ {y}) \in Nat
  BY <1>1, FS_CardinalityType
<1> QED BY <1>1, <1>2, <1>3, <1>4

-----------------------------------------------------------------------------
(* What a command does to the copies of the entries that are alike. *)
LEMMA CopyOf ==
  \A k, x : x \in Copies(k) <=> /\ x \in BagToSet(host) \X Int
                                /\ x[1] \notin Natives[backend] /\ Alike(x[1], k)
                                /\ x[2] \in 1..host[x[1]]
BY DEF Copies
LEMMA CopyAfter ==
  \A k, x : x \in Copies(k)' <=> /\ x \in BagToSet(host') \X Int
                                 /\ x[1] \notin Natives[backend'] /\ Alike(x[1], k)
                                 /\ x[2] \in 1..host'[x[1]]
<1>1. (\A k, x : x \in Copies(k) <=> /\ x \in BagToSet(host) \X Int
                                     /\ x[1] \notin Natives[backend] /\ Alike(x[1], k)
                                     /\ x[2] \in 1..host[x[1]])'
  BY CopyOf, PTL
<1>2. BagToSet(host)' = BagToSet(host')
  BY DEF BagToSet
<1> QED BY <1>1, <1>2 DEF Alike

LEMMA CopiesAdded ==
  ASSUME TypeOK, NEW c \in Command, c.verb = "add", Effect(c), backend' = backend,
         NEW k \in Entry
  PROVE  LET e == EntryOf(c.rule)
         IN /\ Copies(k)' \subseteq Copies(k) \cup {<<e, host'[e]>>}
            /\ ~Alike(e, k) => Copies(k)' \subseteq Copies(k)
<1> DEFINE e == EntryOf(c.rule)
<1>1. IsABag(host) /\ host' = Added(e) /\ BagToSet(host') = BagToSet(host) \cup {e}
  BY CommandBags DEF TypeOK
<1> HIDE DEF e
<1>2. \A f \in BagToSet(host) \ {e} : host'[f] = host[f]
  BY <1>1, AddCounts DEF Added
<1>3. e \in BagToSet(host) => host'[e] \in {host[e], host[e] + 1} /\ host[e] \in Nat
  BY <1>1, AddCounts, BagCounts DEF Added
<1>4. e \notin BagToSet(host) => host'[e] = 1
  BY <1>1, AddCounts DEF Added, BagIn
<1>5. ASSUME NEW x \in Copies(k)' PROVE x \in Copies(k) \/ (x = <<e, host'[e]>> /\ Alike(e, k))
  <2>1. /\ x \in BagToSet(host') \X Int /\ x[1] \notin Natives[backend] /\ Alike(x[1], k)
        /\ x[2] \in 1..host'[x[1]]
    BY <1>5, CopyAfter
  <2>2. CASE x[1] # e
    BY <1>1, <1>2, <2>1, <2>2, CopyOf
  <2>3. CASE x[1] = e /\ x[2] = host'[e]
    BY <2>1, <2>3
  <2>4. CASE x[1] = e /\ x[2] # host'[e]
    <3>1. e \in BagToSet(host) /\ x[2] \in 1..host[e]
      BY <1>3, <1>4, <2>1, <2>4
    <3> QED BY <2>1, <2>4, <3>1, CopyOf
  <2> QED BY <2>2, <2>3, <2>4
<1>6. /\ Copies(k)' \subseteq Copies(k) \cup {<<e, host'[e]>>}
      /\ ~Alike(e, k) => Copies(k)' \subseteq Copies(k)
  BY <1>5
<1> QED BY <1>6 DEF e

LEMMA CopiesRemoved ==
  ASSUME TypeOK, Walled, NativesListed, NEW c \in Command, c.verb = "remove", Effect(c),
         backend = "iptables" => BagIn(EntryOf(c.rule), host), backend' = backend,
         NEW k \in Entry
  PROVE  LET e == EntryOf(c.rule)
         IN /\ Copies(k)' \subseteq Copies(k)
            /\ Alike(e, k) => \/ Copies(k)' = {}
                              \/ \E x \in Copies(k) : Copies(k)' \subseteq Copies(k) \ {x}
<1> DEFINE e == EntryOf(c.rule)
<1>1. /\ IsABag(host) /\ host' = host (-) Copy(e) /\ BagToSet(host') \subseteq BagToSet(host)
      /\ BagToSet(host) \subseteq Entry
  BY CommandBags DEF TypeOK
<1>2. /\ e \in Entry
      /\ backend # "iptables" => e.tag = ""
      /\ backend = "iptables" => e.tag \in Names /\ e \in BagToSet(host)
  BY CommandBags, EntryTag DEF BagIn
<1> HIDE DEF e
<1>3. /\ \A f \in BagToSet(host) \ {e} : host'[f] = host[f]
      /\ e \in BagToSet(host') => host'[e] = host[e] - 1
  BY <1>1, RemoveCounts
<1>4. \A f \in BagToSet(host) : host[f] \in Nat \ {0}
  BY <1>1, BagCounts
<1>5. ASSUME NEW x \in Copies(k)' PROVE x \in Copies(k) /\ x # <<e, host[e]>>
  <2>1. /\ x \in BagToSet(host') \X Int /\ x[1] \notin Natives[backend] /\ Alike(x[1], k)
        /\ x[2] \in 1..host'[x[1]]
    BY <1>5, CopyAfter
  <2>2. CASE x[1] # e
    BY <1>1, <1>3, <2>1, <2>2, CopyOf
  <2>3. CASE x[1] = e
    <3>1. x[2] \in 1..(host[e] - 1) /\ host[e] \in Nat /\ e \in BagToSet(host)
      BY <1>1, <1>3, <1>4, <2>1, <2>3
    <3>2. x[2] \in 1..host[e] /\ x[2] # host[e]
      BY <3>1
    <3> QED BY <2>1, <2>3, <3>1, <3>2, CopyOf
  <2> QED BY <2>2, <2>3
<1>6. ASSUME Alike(e, k), e \in BagToSet(host) \ Natives[backend]
      PROVE  <<e, host[e]>> \in Copies(k)
  <2>1. host[e] \in 1..host[e] /\ host[e] \in Int
    BY <1>4, <1>6
  <2> QED BY <1>6, <2>1, CopyOf
<1>7. ASSUME Alike(e, k), e \notin BagToSet(host) \ Natives[backend], NEW x \in Copies(k)
      PROVE  FALSE
  <2>1. x[1] \in BagToSet(host) /\ x[1] \notin Natives[backend] /\ Alike(x[1], k)
    BY <1>7, CopyOf
  <2>2. backend # "iptables"
    BY <1>2, <1>7, FirewallAssumption DEF NativesListed, TypeOK
  <2>3. x[1] \in Entry /\ x[1].tag = ""
    BY <1>1, <2>1, <2>2 DEF Walled
  <2>4. Alike(x[1], e)
    BY <1>2, <1>7, <2>1, <2>3, AlikeOrder
  <2>5. \A f, g \in Entry : Alike(f, g) /\ f.tag = g.tag => f = g
    <3>1. \A f \in Entry : f = [tag |-> f.tag, proto |-> f.proto, port |-> f.port,
                                source |-> f.source, action |-> f.action]
      BY DEF Entry
    <3> QED BY <3>1, AlikeFields
  <2>6. x[1] = e
    BY <1>2, <2>2, <2>3, <2>4, <2>5
  <2> QED BY <1>7, <2>1, <2>6
<1>8. Copies(k)' \subseteq Copies(k)
  BY <1>5
<1>9. Alike(e, k) => \/ Copies(k)' = {}
                     \/ \E x \in Copies(k) : Copies(k)' \subseteq Copies(k) \ {x}
  <2>1. CASE Alike(e, k) /\ e \in BagToSet(host) \ Natives[backend]
    BY <1>5, <1>6, <2>1
  <2>2. CASE Alike(e, k) /\ e \notin BagToSet(host) \ Natives[backend]
    BY <1>5, <1>7, <2>2
  <2> QED BY <2>1, <2>2
<1> QED BY <1>8, <1>9 DEF e

LEMMA CopiesSame ==
  ASSUME UNCHANGED <<host, backend>>, NEW k PROVE Copies(k)' = Copies(k)
BY DEF Copies, BagToSet, Alike

LEMMA OwnersFinite == \A q, k : Owners(q, k) \subseteq 0..MaxRules /\ IsFiniteSet(Owners(q, k))
<1>1. IsFiniteSet(0..MaxRules)
  BY FirewallAssumption, FS_Interval
<1>2. \A q, k : Owners(q, k) \subseteq 0..MaxRules
  BY FirewallAssumption DEF Owners, Known, Ids
<1> QED BY <1>1, <1>2, FS_Subset
LEMMA OwnersFiniteAfter == \A q, k : IsFiniteSet(Owners(q, k)')
<1>1. (\A q, k : Owners(q, k) \subseteq 0..MaxRules /\ IsFiniteSet(Owners(q, k)))'
  BY OwnersFinite, PTL
<1> QED BY <1>1

-----------------------------------------------------------------------------
(* The table and the host unchanged. *)
LEMMA GrowMatch ==
  ASSUME UNCHANGED <<backend, rows, host, loaded>>, adrift \subseteq adrift',
         scarred \subseteq scarred', NEW q, Matched(q)
  PROVE  Matched(q)'
<1>1. /\ Known' = Known
      /\ \A rule : EntryOf(rule)' = EntryOf(rule)
      /\ BagToSet(host)' = BagToSet(host) /\ BagToSet(loaded)' = BagToSet(loaded)
  BY Rigid DEF Known, BagToSet
<1>2. /\ \A rule : Enforced(rule, host)' <=> Enforced(rule, host)
      /\ \A rule : Enforced(rule, loaded)' <=> Enforced(rule, loaded)
      /\ \A rule : Stands(rule)' <=> Stands(rule)
  BY Rigid DEF Stands
<1>3. /\ Same(q)' <=> Same(q)
      /\ Changes(q)' <=> Changes(q)
      /\ Given(q)' <=> Given(q)
      /\ Taken(q)' <=> Taken(q)
  BY DEF Same, Changes, Given, Taken, Working
<1>4. Planned(q)'
  BY DEF Matched, Planned, Ordered, Loading
<1>5. Holding(q)'
  BY <1>1, <1>2, <1>3 DEF Matched, Holding, Working
<1>6. Covers(q)'
  BY <1>1, <1>2, <1>3 DEF Matched, Covers
<1>7. Settles(q)'
  BY <1>1, <1>2, <1>3 DEF Matched, Settles
<1>8. Counts(q)'
  <2>1. \A c : Owners(q, c)' = Owners(q, c)
    BY <1>1, <1>3 DEF Owners, Alike
  <2>2. \A c : Copies(c)' = Copies(c)
    BY CopiesSame
  <2> QED BY <2>1, <2>2 DEF Matched, Counts, Alike
<1>9. Restores(q)'
  <2>1. \A i : Restorable(i)' <=> Restorable(i)
    BY <1>1 DEF Restorable, AllowsSsh, UsesSsh, AllowsIP
  <2> QED BY <1>1, <2>1 DEF Matched, Restores
<1> QED BY <1>4, <1>5, <1>6, <1>7, <1>8, <1>9 DEF Matched

\* A request that leaves its change half done leaves it with the lost rows and entries.
LEMMA RestMatch ==
  ASSUME NEW q, Matched(q),
         Changes(q) => /\ q.id \in Ids => q.id \in adrift
                       /\ q.new # None => EntryOf(q.new) \in scarred
  PROVE  Matched(NoReq)
<1>1. /\ NoReq.pc = "idle" /\ NoReq.op = "none" /\ NoReq.plan = <<>> /\ NoReq.old = None
      /\ NoReq.new = None
  BY DEF NoReq
<1>2. ~Working(NoReq) /\ ~Changes(NoReq) /\ ~Given(NoReq) /\ ~Taken(NoReq)
  BY <1>1 DEF Working, Changes, Given, Taken
<1>3. Planned(NoReq) /\ Holding(NoReq) /\ Settles(NoReq) /\ Restores(NoReq)
  BY <1>1, <1>2 DEF Planned, Ordered, Loading, Holding, Settles, Restores
<1>4. Covers(NoReq)
  BY <1>2 DEF Matched, Covers, Known
<1>5. Counts(NoReq)
  <2> SUFFICES ASSUME NEW c \in Entry, \A f \in scarred : ~Alike(c, f)
               PROVE  IsFiniteSet(Copies(c)) /\ Cardinality(Copies(c)) <= Cardinality(Owners(NoReq, c))
    BY DEF Counts
  <2>1. IsFiniteSet(Copies(c)) /\ Cardinality(Copies(c)) <= Cardinality(Owners(q, c))
    BY DEF Matched, Counts
  <2>2. Owners(q, c) \subseteq Owners(NoReq, c)
    <3>1. ~(Given(q) /\ Alike(EntryOf(q.new), c))
      BY DEF Given, Alike
    <3> QED BY <1>2, <3>1 DEF Owners
  <2> QED BY <2>1, <2>2, OwnersFinite, CountSame
<1> QED BY <1>3, <1>4, <1>5 DEF Matched

-----------------------------------------------------------------------------
(* A request takes up its work. *)
LEMMA TakeUp ==
  ASSUME Matched(NoReq), NEW p, Planned(p), Holding(p), Restores(p), ~Given(p),
         Taken(p) => p.id \in Known /\ EntryOf(rows[p.id]) \in scarred
  PROVE  Matched(p)
<1>1. ~Taken(NoReq) /\ ~Given(NoReq) /\ ~Changes(NoReq)
  BY DEF Taken, Given, Changes, Working, NoReq
<1>2. Covers(p) /\ Settles(p)
  BY <1>1 DEF Matched, Covers, Settles
<1>3. Counts(p)
  <2> SUFFICES ASSUME NEW c \in Entry, \A f \in scarred : ~Alike(c, f)
               PROVE  IsFiniteSet(Copies(c)) /\ Cardinality(Copies(c)) <= Cardinality(Owners(p, c))
    BY DEF Counts
  <2>1. IsFiniteSet(Copies(c)) /\ Cardinality(Copies(c)) <= Cardinality(Owners(NoReq, c))
    BY DEF Matched, Counts
  <2>2. Owners(NoReq, c) \subseteq Owners(p, c)
    BY <1>1 DEF Owners, Alike
  <2> QED BY <2>1, <2>2, OwnersFinite, CountSame
<1> QED BY <1>2, <1>3 DEF Matched

LEMMA CreateMatch ==
  ASSUME TypeOK, Matched(NoReq), NEW rule \in Rule, NEW p,
         p = [NoReq EXCEPT !.pc = Perform(Applied(rule)), !.op = "create", !.new = rule,
                           !.plan = Applied(rule)]
  PROVE  Matched(p)
<1>1. /\ p.pc = Perform(Applied(rule)) /\ p.op = "create" /\ p.id = None /\ p.old = None
      /\ p.new = rule /\ p.plan = Applied(rule) /\ rule # None
  BY FirewallAssumption DEF NoReq
<1>2. /\ Ordered(p.plan, p.old, rule) /\ Loading(p.plan)
      /\ HasVerb(p.plan, "add") <=> rule.enabled
      /\ rule.enabled <=> p.plan # <<>>
  BY <1>1, AppliedPlan
<1>3. p.pc \in {"row", "host"} /\ (p.pc = "row" => p.plan = <<>>)
  BY <1>1 DEF Perform
<1>4. Planned(p) /\ Restores(p) /\ ~Given(p) /\ ~Taken(p)
  BY <1>1, <1>2 DEF Planned, Restores, Given, Taken
<1>5. Holding(p)
  BY <1>1, <1>3 DEF Holding, Same
<1> QED BY <1>4, <1>5, TakeUp

LEMMA UpdateMatch ==
  ASSUME TypeOK, Matched(NoReq), NEW i \in Known, NEW rule \in Rule, NEW p,
         p = [NoReq EXCEPT !.pc = Perform(Replaced(rows[i], rule, "here")), !.op = "update",
                           !.id = i, !.old = rows[i], !.new = rule,
                           !.plan = Replaced(rows[i], rule, "here")]
  PROVE  Matched(p)
<1>1. /\ p.pc = Perform(p.plan) /\ p.op = "update" /\ p.id = i /\ p.old = rows[i]
      /\ p.new = rule /\ p.plan = Replaced(rows[i], rule, "here") /\ rule # None
      /\ rows[i] \in Rule
  BY FirewallAssumption, KnownType DEF NoReq
<1>2. /\ Ordered(p.plan, p.old, rule) /\ Loading(p.plan)
      /\ p.plan = <<>> <=> Same(p)
      /\ p.plan # <<>> => HasVerb(p.plan, "remove") /\ (HasVerb(p.plan, "add") <=> rule.enabled)
  BY <1>1, ReplacedPlan DEF Same
<1>3. /\ p.pc \in {"row", "host"} /\ (p.pc = "row" => p.plan = <<>>)
      /\ p.pc = "host" => ~Same(p)
      /\ p.pc = "row" => Same(p)
  <2>1. p.pc = IF p.plan = <<>> THEN "row" ELSE "host"
    BY <1>1 DEF Perform
  <2>2. CASE p.plan = <<>>
    BY <1>2, <2>1, <2>2
  <2>3. CASE p.plan # <<>>
    BY <1>2, <2>1, <2>3
  <2> QED BY <2>2, <2>3
<1>4. Planned(p) /\ Restores(p) /\ ~Given(p) /\ ~Taken(p)
  BY <1>1, <1>2 DEF Planned, Restores, Given, Taken, Changes
<1>5. Holding(p)
  BY <1>1, <1>3 DEF Holding
<1> QED BY <1>4, <1>5, TakeUp

LEMMA DeleteMatch ==
  ASSUME TypeOK, Matched(NoReq), NEW i \in Known, NEW p,
         \/ p = [NoReq EXCEPT !.pc = "host", !.op = "delete", !.id = i, !.old = rows[i],
                              !.plan = Deleted(rows[i])]
         \/ /\ p = [NoReq EXCEPT !.pc = "row", !.op = "delete", !.id = i]
            /\ EntryOf(rows[i]) \in scarred
  PROVE  Matched(p)
<1>1. CASE p = [NoReq EXCEPT !.pc = "host", !.op = "delete", !.id = i, !.old = rows[i],
                             !.plan = Deleted(rows[i])]
  <2>1. /\ p.pc = "host" /\ p.op = "delete" /\ p.id = i /\ p.old = rows[i]
        /\ p.new = None /\ p.plan = Deleted(rows[i]) /\ rows[i] \in Rule
    BY <1>1, KnownType DEF NoReq
  <2>2. Ordered(p.plan, p.old, None) /\ Loading(p.plan) /\ HasVerb(p.plan, "remove")
    BY <2>1, DeletedPlan
  <2>3. Planned(p) /\ Restores(p) /\ ~Given(p) /\ ~Taken(p)
    BY <2>1, <2>2 DEF Planned, Restores, Given, Taken
  <2>4. Holding(p)
    BY <2>1 DEF Holding, Same
  <2> QED BY <2>3, <2>4, TakeUp
<1>2. CASE /\ p = [NoReq EXCEPT !.pc = "row", !.op = "delete", !.id = i]
           /\ EntryOf(rows[i]) \in scarred
  <2>1. /\ p.pc = "row" /\ p.op = "delete" /\ p.id = i /\ p.old = None
        /\ p.new = None /\ p.plan = <<>>
    BY <1>2 DEF NoReq
  <2>2. Planned(p) /\ Restores(p) /\ ~Given(p) /\ ~Taken(p)
    BY <2>1 DEF Planned, Ordered, Loading, Restores, Given, Taken
  <2>3. Holding(p)
    BY <1>2, <2>1 DEF Holding, Same
  <2> QED BY <2>2, <2>3, TakeUp
<1> QED BY <1>1, <1>2

\* What the host lists it enforces.
LEMMA ListedStands ==
  ASSUME TypeOK, Walled, NativesListed, NEW rule \in HostStatus
  PROVE  Stands(rule)
<1>1. backend \in Backends /\ backend \in {"ufw", "firewalld", "iptables"}
  BY FirewallAssumption DEF TypeOK
<1>2. /\ BagToSet(loaded) \subseteq Entry
      /\ \A e \in BagToSet(loaded) : e.source \in {"0.0.0.0/0", "here"}
  BY DEF TypeOK, Entry
<1>3. ASSUME NEW e \in BagToSet(loaded), NEW s \in Sources, rule = Listing(e, s),
             s \in Anywhere <=> e.source = "0.0.0.0/0",
             backend = "firewalld" => e.proto # "any"
      PROVE  Alike(e, EntryOf(rule))
  <2>1. rule \in Rule
    BY <1>2, <1>3, ListingType
  <2>2. EntryOf(rule) \in Entry /\ e \in Entry
    BY <1>2, <2>1, EntryOfType
  <2>3. /\ rule.proto = e.proto /\ PlainPort(rule.port) = e.port /\ rule.source = s
        /\ rule.action = e.action
    <3>1. e.port \in {"ssh", "web", "other"}
      BY <2>2 DEF Entry, Ports
    <3>2. PlainPort(PortListed(e, s)) = e.port
      <4>1. CASE PortListed(e, s) = e.port
        BY <3>1, <4>1 DEF PlainPort, V6
      <4>2. CASE PortListed(e, s) = V6(e.port)
        BY <3>1, <4>2 DEF PlainPort, V6
      <4> QED BY <4>1, <4>2 DEF PortListed
    <3> QED BY <1>3, <3>2 DEF Listing
  <2> QED BY <1>2, <1>3, <2>2, <2>3, AlikeFields DEF EntryOf
<1>4. CASE backend = "ufw"
  <2>1. PICK e \in BagToSet(loaded), s \in {"0.0.0.0/0", "::/0", "here"} :
          rule = Listing(e, s) /\ (s = "here" <=> e.source = "here")
    BY <1>4 DEF HostStatus
  <2>2. s \in Sources /\ (s \in Anywhere <=> e.source = "0.0.0.0/0")
    BY <1>2, <2>1 DEF Sources, Anywhere
  <2> QED BY <1>3, <1>4, <2>1, <2>2 DEF Stands, Enforced, Walled
<1>5. CASE backend = "firewalld"
  <2>1. PICK e \in BagToSet(loaded) : e.tag = "native" /\ rule = Listing(e, "any")
    BY <1>5 DEF HostStatus
  <2>2. e \in BagToSet(host) /\ e \in Natives["firewalld"]
    BY <1>5, <2>1 DEF Walled
  <2>3. e.proto # "any" /\ e.source = "0.0.0.0/0"
    BY <1>1, <1>5, <2>1, <2>2 DEF NativesListed
  <2>4. "any" \in Anywhere /\ "any" \in Sources
    BY DEF Anywhere, Sources
  <2>5. Alike(e, EntryOf(rule))
    BY <1>3, <2>1, <2>3, <2>4
  <2> QED BY <2>1, <2>2, <2>5 DEF Stands, Enforced
<1>6. CASE backend = "iptables"
  <2>1. PICK e \in BagToSet(loaded) :
          rule = Listing(e, IF e.source = "here" THEN "here/32" ELSE e.source)
    BY <1>6 DEF HostStatus
  <2>2. PICK s : s = IF e.source = "here" THEN "here/32" ELSE e.source
    OBVIOUS
  <2>3. s \in Sources /\ (s \in Anywhere <=> e.source = "0.0.0.0/0")
    BY <1>2, <2>2 DEF Sources, Anywhere
  <2> QED BY <1>3, <1>6, <2>1, <2>2, <2>3 DEF Stands, Enforced, Walled
<1> QED BY <1>1, <1>4, <1>5, <1>6

LEMMA WalkMatch ==
  ASSUME Matched(NoReq), NEW p, p.plan = <<>>, p.old = None, p.new = None,
         \/ /\ p.pc = "import" /\ p.op = "import" /\ \A item \in p.listed : Stands(item[2])
         \/ /\ p.pc = "next" /\ p.op = "reconcile" /\ p.listed = {<<i, rows[i]>> : i \in Known}
  PROVE  Matched(p)
<1>1. Planned(p) /\ ~Working(p) /\ ~Given(p) /\ ~Taken(p) /\ p.pc # "host"
  BY DEF Planned, Ordered, Loading, Given, Taken, Changes, Working
<1>2. Holding(p)
  BY <1>1 DEF Holding
<1>3. Restores(p)
  BY DEF Restores
<1> QED BY <1>1, <1>2, <1>3, TakeUp

-----------------------------------------------------------------------------
LEMMA PairOf == ASSUME NEW A, NEW B, NEW x \in A \X B PROVE x = <<x[1], x[2]>>
OBVIOUS

\* The host loses a rule that keeps nobody in before it gets the successor.
LEMMA ReplacedHead ==
  ASSUME NEW old \in Rule, NEW new, NEW ip, ~AllowsSsh(old, ip), Applied(new) \in Seq(Command)
  PROVE  Head(Replaced(old, new, ip)).verb = "remove"
<1> DEFINE c == [verb |-> "remove", rule |-> old]
<1>1. c \in Command /\ c.verb = "remove"
  BY DEF Command
<1>2. Replaced(old, new, ip) = (<<c>> \o Reload) \o Applied(new)
  BY DEF Replaced, Deleted
<1>3. Reload \in Seq(Command)
  <2>1. [verb |-> "reload", rule |-> None] \in Command
    BY DEF Command
  <2>2. <<[verb |-> "reload", rule |-> None]>> \in Seq(Command) /\ <<>> \in Seq(Command)
    BY <2>1
  <2> QED BY <2>2 DEF Reload
<1> HIDE DEF c
<1>4. (<<c>> \o Reload) \in Seq(Command) /\ Len(<<c>> \o Reload) >= 1 /\ (<<c>> \o Reload)[1] = c
  BY <1>1, <1>3
<1>5. Head((<<c>> \o Reload) \o Applied(new)) = c
  BY <1>4
<1> QED BY <1>1, <1>2, <1>5

\* A reconciliation takes the next rule of its listing.
LEMMA PickMatch ==
  ASSUME TypeOK, NEW q \in RequestStates, Matched(q), q.pc = "next", q.op = "reconcile",
         NEW item \in q.listed, NEW plan, NEW p,
         plan = IF item[2].enabled THEN Replaced(item[2], item[2], "") ELSE Deleted(item[2]),
         p = [q EXCEPT !.pc = IF plan = <<>> THEN "next" ELSE "host", !.id = item[1],
                       !.old = item[2], !.new = item[2], !.plan = plan,
                       !.listed = @ \ {item}]
  PROVE  Matched(p)
<1>1. /\ item[1] \in Known /\ item[2] = rows[item[1]] /\ item[2] \in Rule /\ item[2] # None
      /\ item = <<item[1], rows[item[1]]>>
  <2>1. item[1] \in Known /\ item[2] = rows[item[1]]
    BY DEF Matched, Holding
  <2>2. rows[item[1]] \in Rule /\ rows[item[1]] # None
    BY <2>1, KnownType, FirewallAssumption
  <2>3. q.listed \subseteq (Ids \cup {0}) \X Rule
    BY DEF RequestStates
  <2>4. item = <<item[1], item[2]>>
    <3>1. item \in (Ids \cup {0}) \X Rule
      BY <2>3
    <3> QED BY <3>1, PairOf
  <2> QED BY <2>1, <2>2, <2>4
<1>2. /\ p.pc = IF plan = <<>> THEN "next" ELSE "host"
      /\ p.op = "reconcile" /\ p.id = item[1] /\ p.old = item[2] /\ p.new = item[2]
      /\ p.plan = plan /\ p.listed = q.listed \ {item}
  BY DEF RequestStates
<1>3. /\ Ordered(plan, item[2], item[2]) /\ Loading(plan)
      /\ plan = <<>> <=> item[2].enabled /\ AllowsSsh(item[2], "")
      /\ plan # <<>> => HasVerb(plan, "remove") /\ (item[2].enabled => HasVerb(plan, "add"))
  <2>1. CASE item[2].enabled
    <3>1. SameHostEffect(item[2], item[2])
      BY DEF SameHostEffect
    <3> QED BY <1>1, <2>1, <3>1, ReplacedPlan
  <2>2. CASE ~item[2].enabled
    BY <1>1, <2>2, DeletedPlan
  <2> QED BY <2>1, <2>2
<1>4. p.pc \in {"next", "host"} /\ (p.pc = "next" <=> plan = <<>>) /\ ~Same(p)
  <2>1. ~Same(p)
    BY <1>2 DEF Same
  <2>2. CASE plan = <<>>
    BY <1>2, <2>1, <2>2
  <2>3. CASE plan # <<>>
    <3>1. p.pc = "host"
      BY <1>2, <2>3
    <3> QED BY <2>1, <2>3, <3>1
  <2> QED BY <2>2, <2>3
<1>5. ~Given(p) /\ ~Taken(p) /\ (Working(p) => p.pc = "host")
  BY <1>2, <1>3, <1>4 DEF Given, Taken, Changes, Working
<1>6. Planned(p)
  BY <1>2, <1>3 DEF Planned
<1>7. Holding(p)
  <2>1. \A x \in p.listed : x[1] \in Known /\ x[2] = rows[x[1]]
    BY <1>2 DEF Matched, Holding
  <2> QED BY <1>1, <1>2, <1>4, <1>5, <2>1 DEF Holding
<1>8. ~Changes(q) /\ ~Given(q) /\ ~Taken(q)
  BY DEF Changes, Given, Taken, Working
<1>9. Covers(p) /\ Settles(p)
  BY <1>5, <1>8 DEF Matched, Covers, Settles
<1>10. Counts(p)
  <2> SUFFICES ASSUME NEW c \in Entry, \A f \in scarred : ~Alike(c, f)
               PROVE  IsFiniteSet(Copies(c)) /\ Cardinality(Copies(c)) <= Cardinality(Owners(p, c))
    BY DEF Counts
  <2>1. IsFiniteSet(Copies(c)) /\ Cardinality(Copies(c)) <= Cardinality(Owners(q, c))
    BY DEF Matched, Counts
  <2>2. Owners(q, c) \subseteq Owners(p, c)
    BY <1>5, <1>8 DEF Owners
  <2>3. IsFiniteSet(Owners(p, c))
    BY OwnersFinite
  <2> QED BY <2>1, <2>2, <2>3, CountSame
<1>11. Restores(p)
  <2> SUFFICES ASSUME NEW i \in Known, Restorable(i)
               PROVE  \/ <<i, rows[i]>> \in p.listed
                      \/ /\ EntryOf(rows[i]) \in BagToSet(host)
                         /\ EntryOf(rows[i]) \in BagToSet(loaded)
                      \/ /\ p.pc = "host" /\ HasVerb(p.plan, "add")
                         /\ EntryOf(rows[i]) = EntryOf(p.new)
    <3>1. p.old.enabled /\ p.pc = "host" =>
            Head(p.plan).verb = "remove" /\ HasVerb(p.plan, "add")
      <4> SUFFICES ASSUME p.old.enabled, p.pc = "host"
                   PROVE  Head(p.plan).verb = "remove" /\ HasVerb(p.plan, "add")
        OBVIOUS
      <4>1. item[2].enabled /\ plan # <<>> /\ plan = Replaced(item[2], item[2], "")
        BY <1>2, <1>4
      <4>2. ~AllowsSsh(item[2], "") /\ HasVerb(plan, "add")
        BY <1>3, <4>1
      <4>3. Applied(item[2]) \in Seq(Command)
        BY <1>1, PlanType
      <4>4. Head(plan).verb = "remove"
        <5>1. PICK rule \in Rule : rule = item[2]
          BY <1>1
        <5>2. Head(Replaced(rule, rule, "")).verb = "remove"
          BY <4>2, <4>3, <5>1, ReplacedHead
        <5> QED BY <4>1, <5>1, <5>2
      <4> QED BY <1>2, <4>2, <4>4
    <3> QED BY <3>1 DEF Restores
  <2>1. \/ <<i, rows[i]>> \in q.listed
        \/ EntryOf(rows[i]) \in BagToSet(host) /\ EntryOf(rows[i]) \in BagToSet(loaded)
    BY DEF Matched, Restores
  <2>2. CASE <<i, rows[i]>> = item
    <3>1. item[2] = rows[i] /\ item[2].enabled /\ ~AllowsSsh(item[2], "")
      BY <2>2 DEF Restorable
    <3> QED BY <1>2, <1>3, <1>4, <3>1
  <2>3. CASE <<i, rows[i]>> # item
    BY <1>2, <2>1, <2>3
  <2> QED BY <2>2, <2>3
<1> QED BY <1>6, <1>7, <1>9, <1>10, <1>11 DEF Matched

\* A plan is through: the row is written, or the next rule taken.
LEMMA ArriveMatch ==
  ASSUME TypeOK, NEW q \in RequestStates, Matched(q), q.pc = "host", q.plan = <<>>,
         loaded = host, NEW p,
         p = [q EXCEPT !.pc = IF q.op = "reconcile" THEN "next" ELSE "row"]
  PROVE  Matched(p)
<1>1. /\ p.pc = IF q.op = "reconcile" THEN "next" ELSE "row"
      /\ p.op = q.op /\ p.id = q.id /\ p.old = q.old /\ p.new = q.new
      /\ p.plan = q.plan /\ p.listed = q.listed
  BY DEF RequestStates
<1>2. /\ Changes(q) /\ ~Same(q) /\ ~Same(p) /\ ~HasVerb(q.plan, "add")
      /\ ~HasVerb(q.plan, "remove")
  BY <1>1 DEF Matched, Holding, Changes, Working, HasVerb, Same
<1>3. Planned(p)
  BY <1>1 DEF Matched, Planned
<1>4. CASE q.op # "reconcile"
  <2>1. p.pc = "row" /\ Changes(p) /\ (Given(p) <=> Given(q)) /\ (Taken(p) <=> Taken(q))
    BY <1>1, <1>2, <1>4 DEF Changes, Working, Given, Taken
  <2>2. Holding(p)
    BY <1>1, <1>2, <1>4, <2>1 DEF Matched, Holding, Working
  <2>3. Covers(p) /\ Restores(p)
    BY <1>1, <1>2, <1>4, <2>1 DEF Matched, Covers, Restores
  <2>4. Settles(p)
    BY <1>1, <1>2, <2>1 DEF Matched, Settles
  <2>5. Counts(p)
    <3>1. \A c : Owners(p, c) = Owners(q, c)
      BY <1>1, <2>1 DEF Owners
    <3> QED BY <3>1 DEF Matched, Counts
  <2> QED BY <1>3, <2>2, <2>3, <2>4, <2>5 DEF Matched
<1>5. CASE q.op = "reconcile"
  <2>1. p.pc = "next" /\ ~Changes(p) /\ ~Given(p) /\ ~Taken(p) /\ ~Working(p)
    BY <1>1, <1>5 DEF Changes, Working, Given, Taken
  <2>2. /\ q.id \in Known /\ q.old = rows[q.id] /\ q.new = rows[q.id] /\ rows[q.id] \in Rule
        /\ rows[q.id] # None
    <3>1. q.id \in Known /\ q.old = rows[q.id] /\ q.new = q.old
      BY <1>5 DEF Matched, Holding, Working
    <3> QED BY <3>1, KnownType, FirewallAssumption
  <2>3. Taken(q) /\ (Given(q) <=> rows[q.id].enabled)
    BY <1>2, <2>2 DEF Taken, Given
  <2>4. Holding(p)
    BY <1>1, <1>5, <2>1 DEF Matched, Holding
  <2>5. Covers(p)
    <3>1. rows[q.id].enabled /\ q.id \notin adrift => Stands(rows[q.id])
      BY <1>2, <2>2, <2>3 DEF Matched, Settles, Stands
    <3> QED BY <2>1, <3>1 DEF Matched, Covers
  <2>6. Settles(p)
    BY <2>1 DEF Settles
  <2>7. Counts(p)
    <3> SUFFICES ASSUME NEW c \in Entry, \A f \in scarred : ~Alike(c, f)
                 PROVE  /\ IsFiniteSet(Copies(c))
                        /\ Cardinality(Copies(c)) <= Cardinality(Owners(p, c))
      BY DEF Counts
    <3>1. IsFiniteSet(Copies(c)) /\ Cardinality(Copies(c)) <= Cardinality(Owners(q, c))
      BY DEF Matched, Counts
    <3>2. IsFiniteSet(Owners(q, c)) /\ IsFiniteSet(Owners(p, c))
      BY OwnersFinite
    <3>3. q.id # 0
      BY <2>2 DEF Known, Ids
    <3>4. CASE rows[q.id].enabled /\ Alike(EntryOf(rows[q.id]), c)
      <4>1. q.id \in Owners(p, c) /\ q.id \notin Owners(q, c)
        BY <2>1, <2>2, <2>3, <3>3, <3>4 DEF Owners
      <4>2. Owners(q, c) \ {0} \subseteq Owners(p, c)
        BY <2>1 DEF Owners
      <4>3. (Owners(q, c) \ {0}) \cup {q.id} \subseteq Owners(p, c)
        BY <4>1, <4>2
      <4> QED BY <3>1, <3>2, <4>1, <4>3, CountSwap
    <3>5. CASE ~(rows[q.id].enabled /\ Alike(EntryOf(rows[q.id]), c))
      <4>1. Owners(q, c) \subseteq Owners(p, c)
        BY <2>1, <2>2, <2>3, <3>5 DEF Owners
      <4> QED BY <3>1, <3>2, <4>1, CountSame
    <3> QED BY <3>4, <3>5
  <2>8. Restores(p)
    <3> SUFFICES ASSUME NEW i \in Known, Restorable(i), <<i, rows[i]>> \notin q.listed
                 PROVE  /\ EntryOf(rows[i]) \in BagToSet(host)
                        /\ EntryOf(rows[i]) \in BagToSet(loaded)
      BY <1>1 DEF Restores
    <3> QED BY <1>2, <1>5 DEF Matched, Restores
  <2> QED BY <1>3, <2>4, <2>5, <2>6, <2>7, <2>8 DEF Matched
<1> QED BY <1>4, <1>5

\* A disabled rule is left as it is.
LEMMA SkipMatch ==
  ASSUME TypeOK, NEW q \in RequestStates, Matched(q), q.pc = "host", q.op = "reconcile",
         ~q.old.enabled, NEW p, p = [q EXCEPT !.plan = <<>>, !.pc = "next"]
  PROVE  Matched(p)
<1>1. /\ p.pc = "next" /\ p.op = "reconcile" /\ p.id = q.id /\ p.old = q.old /\ p.new = q.new
      /\ p.plan = <<>> /\ p.listed = q.listed
  BY DEF RequestStates
<1>2. ~Changes(p) /\ ~Given(p) /\ ~Taken(p) /\ ~Working(p)
  BY <1>1 DEF Changes, Working, Given, Taken
<1>3. /\ q.id \in Known /\ q.old = rows[q.id] /\ q.new = rows[q.id]
      /\ ~rows[q.id].enabled
  BY DEF Matched, Holding, Working
<1>4. ~Given(q) /\ ~HasVerb(q.plan, "add")
  BY <1>3 DEF Given, HasVerb, Matched, Planned, Ordered
<1>5. Planned(p) /\ Settles(p)
  BY <1>1, <1>2 DEF Planned, Ordered, Loading, Settles
<1>6. Holding(p)
  BY <1>1, <1>2 DEF Matched, Holding
<1>7. Covers(p)
  BY <1>2, <1>3 DEF Matched, Covers
<1>8. Counts(p)
  <2> SUFFICES ASSUME NEW c \in Entry, \A f \in scarred : ~Alike(c, f)
               PROVE  IsFiniteSet(Copies(c)) /\ Cardinality(Copies(c)) <= Cardinality(Owners(p, c))
    BY DEF Counts
  <2>1. IsFiniteSet(Copies(c)) /\ Cardinality(Copies(c)) <= Cardinality(Owners(q, c))
    BY DEF Matched, Counts
  <2>2. Owners(q, c) \subseteq Owners(p, c)
    BY <1>2, <1>4 DEF Owners
  <2> QED BY <2>1, <2>2, OwnersFinite, CountSame
<1>9. Restores(p)
  <2> SUFFICES ASSUME NEW i \in Known, Restorable(i), <<i, rows[i]>> \notin q.listed
               PROVE  /\ EntryOf(rows[i]) \in BagToSet(host)
                      /\ EntryOf(rows[i]) \in BagToSet(loaded)
    BY <1>1 DEF Restores
  <2> QED BY <1>4 DEF Matched, Restores
<1> QED BY <1>5, <1>6, <1>7, <1>8, <1>9 DEF Matched

-----------------------------------------------------------------------------
(* A command that takes effect. *)
Executed(r, q, c) ==
  /\ req[r] = q /\ q.pc = "host" /\ q.plan # <<>> /\ c = Head(q.plan)
  /\ Succeeds(c) /\ Effect(c) /\ UNCHANGED <<backend, rows>>
  /\ scarred \subseteq scarred'
  /\ c.verb = "reload" => adrift \subseteq adrift'
  /\ c.verb # "reload" => (adrift \ {q.id}) \cup Uncovered(r) \subseteq adrift'

Shorter(q) == [q EXCEPT !.plan = Tail(@)]

\* What a command's success leaves of a request.
Leaves(q, c, m) ==
  /\ m.pc = "host" /\ m.op = q.op /\ m.id = q.id /\ m.old = q.old /\ m.new = q.new
  /\ m.plan = Tail(q.plan) /\ m.listed = q.listed
  /\ Planned(m) /\ c \in Command /\ Changes(q) /\ Changes(m)
  /\ c.verb = "add" => /\ c.rule = q.new /\ q.new # None /\ q.new.enabled
                       /\ HasVerb(q.plan, "add") /\ ~HasVerb(m.plan, "add")
  /\ c.verb = "remove" => /\ c.rule = q.old /\ q.old # None
                          /\ HasVerb(q.plan, "remove") /\ ~HasVerb(m.plan, "remove")
  /\ \A verb : HasVerb(q.plan, verb) <=> c.verb = verb \/ HasVerb(m.plan, verb)
  /\ c.verb # "reload" => c.rule \in Rule
  /\ q.id \in Known => q.old = rows[q.id]
  /\ q.op = "reconcile" => q.id \in Known /\ q.new = q.old
  /\ q.old # None => q.id \in Known

LEMMA CommandFacts ==
  ASSUME TypeOK, NEW r, NEW q \in RequestStates, Matched(q), NEW c, Executed(r, q, c),
         NEW m, m = Shorter(q)
  PROVE  Leaves(q, c, m)
<1>1. /\ m.pc = "host" /\ m.op = q.op /\ m.id = q.id /\ m.old = q.old /\ m.new = q.new
      /\ m.plan = Tail(q.plan) /\ m.listed = q.listed /\ q.plan \in Seq(Command)
  BY DEF Executed, RequestStates, Shorter
<1>2. /\ Ordered(q.plan, q.old, q.new) /\ Loading(q.plan) /\ q.plan # <<>> /\ c = Head(q.plan)
      /\ q.pc = "host"
  BY DEF Matched, Planned, Executed
<1>3. ~Same(q) /\ ~Same(m)
  BY <1>1, <1>2 DEF Matched, Holding, Same
<1>4. c \in Command /\ (c.verb # "reload" => c.rule \in Rule)
  <2>1. c \in Command
    BY <1>1, <1>2, PlanTail
  <2> QED BY <2>1 DEF Command
<1>5. Planned(m)
  BY <1>1, <1>2, PlanTail DEF Planned
<1>6. Changes(q) /\ Changes(m)
  BY <1>1, <1>2, <1>3 DEF Changes, Working
<1>7. /\ q.id \in Known => q.old = rows[q.id]
      /\ q.op = "reconcile" => q.id \in Known /\ q.new = q.old
      /\ q.old # None => q.id \in Known
  <2>1. None \notin Known
    BY FirewallAssumption DEF Known
  <2> QED BY <1>2, <2>1 DEF Matched, Holding, Working
<1> HIDE DEF Executed
<1>8. /\ c.verb = "add" => /\ c.rule = q.new /\ q.new # None /\ q.new.enabled
                           /\ HasVerb(q.plan, "add") /\ ~HasVerb(m.plan, "add")
      /\ c.verb = "remove" => /\ c.rule = q.old /\ q.old # None
                              /\ HasVerb(q.plan, "remove") /\ ~HasVerb(m.plan, "remove")
      /\ \A verb : HasVerb(q.plan, verb) <=> c.verb = verb \/ HasVerb(m.plan, verb)
  BY <1>1, <1>2, PlanTail
<1> QED BY <1>1, <1>4, <1>5, <1>6, <1>7, <1>8 DEF Leaves

LEMMA CommandCovers ==
  ASSUME TypeOK, Walled, Walled', NEW r, NEW q \in RequestStates, Matched(q), NEW c,
         Executed(r, q, c), NEW m, m = Shorter(q)
  PROVE  Covers(m)'
<1>1. /\ m.id = q.id /\ c \in Command /\ Changes(q) /\ Changes(m)
  BY CommandFacts DEF Leaves
<1>2. /\ req[r] = q /\ Effect(c) /\ UNCHANGED <<backend, rows>>
      /\ c.verb = "reload" => adrift \subseteq adrift'
      /\ c.verb # "reload" => (adrift \ {q.id}) \cup Uncovered(r) \subseteq adrift'
  BY DEF Executed
<1>3. Known' = Known /\ rows' = rows
  BY <1>2 DEF Known
<1>4. Changes(m)' <=> Changes(m)
  BY DEF Changes, Working, Same
<1>5. ASSUME NEW i \in Known, rows[i].enabled, i \notin adrift', i # q.id
      PROVE  Stands(rows[i])'
  <2>1. i \notin adrift
    BY <1>2, <1>5
  <2>2. Stands(rows[i])
    BY <1>5, <2>1 DEF Matched, Covers
  <2>3. PICK rule : rule = rows[i]
    OBVIOUS
  <2>4. c.verb # "reload" => Enforced(rule, host')
    <3>1. Enforced(rule, host)
      BY <2>2, <2>3 DEF Stands
    <3>2. c.verb # "reload" /\ ~Enforced(rule, host') => i \in Uncovered(r)
      BY <1>2, <1>5, <2>3, <3>1 DEF Uncovered
    <3> QED BY <1>2, <1>5, <3>2
  <2>5. Stands(rule)'
    BY <1>1, <1>2, <2>2, <2>3, <2>4, CommandStands
  <2> QED BY <1>3, <2>3, <2>5
<1> QED BY <1>1, <1>3, <1>4, <1>5 DEF Covers

LEMMA CommandSettles ==
  ASSUME TypeOK, NEW r, NEW q \in RequestStates, Matched(q), NEW c, Executed(r, q, c),
         NEW m, m = Shorter(q)
  PROVE  Settles(m)'
<1>1. /\ m.pc = "host" /\ m.id = q.id /\ m.new = q.new /\ c \in Command
      /\ Changes(q) /\ Changes(m)
      /\ c.verb = "add" => c.rule = q.new
      /\ c.verb = "remove" => c.rule = q.old /\ q.id \in Known
      /\ \A verb : HasVerb(q.plan, verb) <=> c.verb = verb \/ HasVerb(m.plan, verb)
  BY CommandFacts DEF Leaves
<1>2. /\ req[r] = q /\ Effect(c) /\ UNCHANGED backend
      /\ c.verb = "reload" => adrift \subseteq adrift'
      /\ c.verb # "reload" => Uncovered(r) \subseteq adrift'
  BY DEF Executed
<1> SUFFICES ASSUME Given(m)
             PROVE  /\ HasVerb(m.plan, "remove") => EntryOf(m.new) \in BagToSet(host')
                    /\ ~HasVerb(m.plan, "remove") => Enforced(m.new, host') \/ m.id \in adrift'
  <2>1. Given(m)' <=> Given(m)
    BY DEF Given, Changes, Working, Same
  <2>2. /\ EntryOf(m.new)' = EntryOf(m.new) /\ BagToSet(host)' = BagToSet(host')
        /\ Enforced(m.new, host)' <=> Enforced(m.new, host')
    BY <1>2, Rigid DEF BagToSet
  <2> QED BY <1>1, <2>1, <2>2 DEF Settles
<1>3. m.new # None /\ m.new \in Rule /\ q.new.enabled /\ EntryOf(q.new) \in Entry
  <2>1. m.new # None /\ q.new.enabled
    BY <1>1 DEF Given
  <2>2. q.new \in Rule
    BY <1>1, <2>1 DEF RequestStates
  <2> QED BY <1>1, <2>1, <2>2, EntryOfType
<1>4. \A bag : EntryOf(q.new) \in BagToSet(bag) => Enforced(q.new, bag)
  BY <1>3, AlikeOrder DEF Enforced
<1>5. ~HasVerb(q.plan, "add") => Given(q)
  BY <1>1, <1>3 DEF Given
<1>6. ~HasVerb(m.plan, "add")
  BY DEF Given
<1>7. CASE c.verb = "add"
  <2>1. EntryOf(q.new) \in BagToSet(host')
    BY <1>1, <1>2, <1>7, CommandBags
  <2> QED BY <1>1, <1>4, <2>1
<1>8. CASE c.verb = "remove"
  <2>1. HasVerb(q.plan, "remove") /\ Given(q)
    BY <1>1, <1>5, <1>6, <1>8
  <2>2. EntryOf(q.new) \in BagToSet(host)
    BY <2>1 DEF Matched, Settles
  <2>3. BagToSet(host) \ {EntryOf(q.old)} \subseteq BagToSet(host')
    BY <1>1, <1>2, <1>8, CommandBags
  <2>4. CASE EntryOf(q.new) # EntryOf(q.old)
    BY <1>1, <1>4, <2>2, <2>3, <2>4
  <2>5. CASE EntryOf(q.new) = EntryOf(q.old) /\ ~Enforced(q.new, host')
    <3>1. q.id # None
      BY <1>1, <1>8, FirewallAssumption DEF Known
    <3>2. q.id \in Uncovered(r)
      BY <1>1, <1>2, <1>3, <2>5, <3>1 DEF Uncovered
    <3>3. ~HasVerb(m.plan, "remove")
      BY <1>8, CommandFacts DEF Leaves
    <3> QED BY <1>1, <1>2, <1>8, <3>2, <3>3
  <2>6. ~HasVerb(m.plan, "remove")
    BY <1>8, CommandFacts DEF Leaves
  <2> QED BY <1>1, <2>4, <2>5, <2>6
<1>9. CASE c.verb = "reload"
  <2>1. host' = host /\ adrift \subseteq adrift'
    BY <1>1, <1>2, <1>9, CommandBags
  <2>2. Given(q) /\ (HasVerb(q.plan, "remove") <=> HasVerb(m.plan, "remove"))
    BY <1>1, <1>5, <1>6, <1>9
  <2>3. /\ HasVerb(q.plan, "remove") => EntryOf(q.new) \in BagToSet(host)
        /\ ~HasVerb(q.plan, "remove") => Enforced(q.new, host) \/ q.id \in adrift
    BY <2>2 DEF Matched, Settles
  <2> QED BY <1>1, <2>1, <2>2, <2>3
<1> QED BY <1>1, <1>7, <1>8, <1>9 DEF Command

-----------------------------------------------------------------------------
LEMMA CommandHolding ==
  ASSUME TypeOK, NEW r, NEW q \in RequestStates, Matched(q), NEW c, Executed(r, q, c),
         NEW m, m = Shorter(q)
  PROVE  Planned(m)' /\ Holding(m)'
<1>1. /\ m.pc = "host" /\ m.op = q.op /\ m.id = q.id /\ m.old = q.old /\ m.new = q.new
      /\ m.listed = q.listed /\ Planned(m) /\ Changes(m)
  BY CommandFacts DEF Leaves
<1>2. UNCHANGED <<backend, rows>> /\ q.pc = "host"
  BY DEF Executed
<1>3. Planned(m)'
  BY <1>1, <1>2 DEF Planned, Ordered, Loading
<1>4. Known' = Known /\ rows' = rows
  BY <1>2 DEF Known
<1>5. Holding(m)
  BY <1>1, <1>2 DEF Matched, Holding, Working, Changes
<1>6. Holding(m)'
  <2>1. Same(m)' <=> Same(m)
    BY DEF Same
  <2> QED BY <1>1, <1>4, <1>5, <2>1 DEF Holding, Working
<1> QED BY <1>3, <1>6

LEMMA CommandCounts ==
  ASSUME TypeOK, Walled, NativesListed, NEW r, NEW q \in RequestStates, Matched(q), NEW c,
         Executed(r, q, c), NEW m, m = Shorter(q)
  PROVE  Counts(m)'
<1>1. /\ m.id = q.id /\ m.old = q.old /\ m.new = q.new /\ c \in Command
      /\ Changes(q) /\ Changes(m)
      /\ c.verb = "add" => /\ c.rule = q.new /\ q.new # None /\ q.new.enabled
                           /\ HasVerb(q.plan, "add") /\ ~HasVerb(m.plan, "add")
      /\ c.verb = "remove" => /\ c.rule = q.old /\ q.old # None /\ q.id \in Known
                              /\ HasVerb(q.plan, "remove") /\ ~HasVerb(m.plan, "remove")
      /\ \A verb : HasVerb(q.plan, verb) <=> c.verb = verb \/ HasVerb(m.plan, verb)
      /\ q.id \in Known => q.old = rows[q.id]
  <2>0. Leaves(q, c, m)
    BY CommandFacts
  <2>1. /\ m.id = q.id /\ m.old = q.old /\ m.new = q.new /\ c \in Command
        /\ Changes(q) /\ Changes(m)
        /\ q.id \in Known => q.old = rows[q.id]
        /\ q.old # None => q.id \in Known
    BY <2>0 DEF Leaves
  <2>2. c.verb = "add" => /\ c.rule = q.new /\ q.new # None /\ q.new.enabled
                          /\ HasVerb(q.plan, "add") /\ ~HasVerb(m.plan, "add")
    BY <2>0 DEF Leaves
  <2>3. c.verb = "remove" => /\ c.rule = q.old /\ q.old # None
                             /\ HasVerb(q.plan, "remove") /\ ~HasVerb(m.plan, "remove")
    BY <2>0 DEF Leaves
  <2>4. \A verb : HasVerb(q.plan, verb) <=> c.verb = verb \/ HasVerb(m.plan, verb)
    BY <2>0 DEF Leaves
  <2> QED BY <2>1, <2>2, <2>3, <2>4
<1>2. /\ Effect(c) /\ Succeeds(c) /\ UNCHANGED <<backend, rows>> /\ scarred \subseteq scarred'
  BY DEF Executed
<1>3. /\ Known' = Known /\ rows' = rows
      /\ \A rule : EntryOf(rule)' = EntryOf(rule)
      /\ Given(m)' <=> Given(m)
      /\ Taken(m)' <=> Taken(m)
  BY <1>2, Rigid DEF Known, Given, Taken, Changes, Working, Same
<1> SUFFICES ASSUME NEW k \in Entry, \A f \in scarred' : ~Alike(k, f)
             PROVE  IsFiniteSet(Copies(k)') /\ Cardinality(Copies(k)') <= Cardinality(Owners(m, k)')
  BY DEF Counts, Alike
<1> DEFINE O1 == Owners(m, k)'
<1>4. IsFiniteSet(Copies(k)) /\ Cardinality(Copies(k)) <= Cardinality(Owners(q, k))
  BY <1>2 DEF Matched, Counts
<1>5. IsFiniteSet(Owners(q, k)) /\ IsFiniteSet(O1)
  BY OwnersFinite, OwnersFiniteAfter
<1>6. O1 = {i \in Known : /\ rows[i].enabled /\ Alike(EntryOf(rows[i]), k)
                          /\ ~(Taken(m) /\ q.id = i)}
             \cup {i \in {0} : Given(m) /\ Alike(EntryOf(q.new), k)}
  BY <1>1, <1>3 DEF Owners, Alike
<1>7. Owners(q, k) = {i \in Known : /\ rows[i].enabled /\ Alike(EntryOf(rows[i]), k)
                                    /\ ~(Taken(q) /\ q.id = i)}
                       \cup {i \in {0} : Given(q) /\ Alike(EntryOf(q.new), k)}
  BY DEF Owners
<1>8. 0 \notin Known
  BY DEF Known, Ids
<1> HIDE DEF O1
<1>9. CASE c.verb = "add"
  <2>1. (Taken(m) <=> Taken(q)) /\ ~Given(q) /\ Given(m)
    BY <1>1, <1>9 DEF Taken, Given
  <2>2. CASE Alike(EntryOf(q.new), k)
    <3>1. Copies(k)' \subseteq Copies(k) \cup {<<EntryOf(q.new), host'[EntryOf(q.new)]>>}
      BY <1>1, <1>2, <1>9, CopiesAdded
    <3>2. Owners(q, k) \cup {0} \subseteq O1 /\ 0 \notin Owners(q, k)
      BY <1>6, <1>7, <1>8, <2>1, <2>2
    <3>3. PICK x : x = <<EntryOf(q.new), host'[EntryOf(q.new)]>>
      OBVIOUS
    <3>4. PICK C1 : C1 = Copies(k)'
      OBVIOUS
    <3>5. C1 \subseteq Copies(k) \cup {x}
      BY <3>1, <3>3, <3>4
    <3>6. IsFiniteSet(C1) /\ Cardinality(C1) <= Cardinality(O1)
      <4>1. PICK C, O, y : C = Copies(k) /\ O = Owners(q, k) /\ y = 0
        OBVIOUS
      <4>2. /\ IsFiniteSet(C) /\ IsFiniteSet(O1) /\ Cardinality(C) <= Cardinality(O)
            /\ C1 \subseteq C \cup {x} /\ O \cup {y} \subseteq O1 /\ y \notin O
        BY <1>4, <1>5, <3>2, <3>5, <4>1
      <4> QED BY <4>2, CountGrow
    <3> QED BY <3>4, <3>6 DEF O1
  <2>3. CASE ~Alike(EntryOf(q.new), k)
    <3>1. Copies(k)' \subseteq Copies(k)
      BY <1>1, <1>2, <1>9, <2>3, CopiesAdded
    <3>2. Owners(q, k) \subseteq O1
      BY <1>6, <1>7, <2>1
    <3> QED BY <1>4, <1>5, <3>1, <3>2, CountSame DEF O1
  <2> QED BY <2>2, <2>3
<1>10. CASE c.verb = "remove"
  <2>1. (Given(m) <=> Given(q)) /\ ~Taken(q) /\ Taken(m)
    BY <1>1, <1>10 DEF Taken, Given
  <2>2. backend = "iptables" => BagIn(EntryOf(c.rule), host)
    BY <1>2, <1>10 DEF Succeeds
  <2>3. /\ Copies(k)' \subseteq Copies(k)
        /\ Alike(EntryOf(c.rule), k) => \/ Copies(k)' = {}
                                        \/ \E x \in Copies(k) : Copies(k)' \subseteq Copies(k) \ {x}
    BY <1>1, <1>2, <1>10, <2>2, CopiesRemoved
  <2>4. Owners(q, k) \ {q.id} \subseteq O1
    BY <1>6, <1>7, <2>1
  <2>5. CASE ~Alike(EntryOf(c.rule), k)
    <3>1. q.id \notin Owners(q, k)
      BY <1>1, <1>7, <1>8, <1>10, <2>5
    <3>2. Owners(q, k) \subseteq O1
      BY <2>4, <3>1
    <3> QED BY <1>4, <1>5, <2>3, <3>2, CountSame DEF O1
  <2>6. CASE Copies(k)' = {}
    <3>1. IsFiniteSet({}) /\ Cardinality({}) = 0 /\ Cardinality(O1) \in Nat
      BY <1>5, FS_EmptySet, FS_CardinalityType
    <3> QED BY <2>6, <3>1 DEF O1
  <2>7. ASSUME NEW x \in Copies(k), Copies(k)' \subseteq Copies(k) \ {x}
        PROVE  IsFiniteSet(Copies(k)') /\ Cardinality(Copies(k)') <= Cardinality(O1)
    <3>1. PICK C1 : C1 = Copies(k)'
      OBVIOUS
    <3>2. C1 \subseteq Copies(k) \ {x}
      BY <2>7, <3>1
    <3>3. IsFiniteSet(C1) /\ Cardinality(C1) <= Cardinality(O1)
      <4>1. PICK C, O, y : C = Copies(k) /\ O = Owners(q, k) /\ y = q.id
        OBVIOUS
      <4>2. /\ x \in C /\ IsFiniteSet(C) /\ IsFiniteSet(O) /\ IsFiniteSet(O1)
            /\ Cardinality(C) <= Cardinality(O) /\ Without(C1, C, x) /\ O \ {y} \subseteq O1
        BY <1>4, <1>5, <2>4, <2>7, <3>2, <4>1 DEF Without
      <4> QED BY <4>2, CountShrink
    <3> QED BY <3>1, <3>3
  <2> QED BY <2>3, <2>5, <2>6, <2>7 DEF O1
<1>11. CASE c.verb = "reload"
  <2>1. host' = host
    BY <1>1, <1>2, <1>11, CommandBags
  <2>2. Copies(k)' = Copies(k)
    BY <1>2, <2>1, CopiesSame
  <2>3. (Given(m) <=> Given(q)) /\ (Taken(m) <=> Taken(q))
    BY <1>1, <1>11 DEF Taken, Given
  <2>4. Owners(q, k) \subseteq O1
    BY <1>6, <1>7, <2>3
  <2> QED BY <1>4, <1>5, <2>2, <2>4, CountSame DEF O1
<1> QED BY <1>1, <1>9, <1>10, <1>11 DEF Command

LEMMA CommandRestores ==
  ASSUME TypeOK, NEW r, NEW q \in RequestStates, Matched(q), NEW c, Executed(r, q, c),
         NEW m, m = Shorter(q)
  PROVE  Restores(m)'
<1>1. /\ m.pc = "host" /\ m.op = q.op /\ m.id = q.id /\ m.old = q.old /\ m.new = q.new
      /\ m.listed = q.listed /\ c \in Command
  BY CommandFacts DEF Leaves
<1>2. /\ c.verb = "add" => c.rule = q.new /\ q.new.enabled
      /\ c.verb = "remove" => /\ c.rule = q.old /\ HasVerb(q.plan, "remove")
                              /\ ~HasVerb(m.plan, "remove")
      /\ \A verb : HasVerb(q.plan, verb) <=> c.verb = verb \/ HasVerb(m.plan, verb)
      /\ q.op = "reconcile" => q.id \in Known /\ q.new = q.old /\ q.old = rows[q.id]
  <2>1. /\ c.verb = "add" => c.rule = q.new /\ q.new.enabled
        /\ c.verb = "remove" => /\ c.rule = q.old /\ HasVerb(q.plan, "remove")
                                /\ ~HasVerb(m.plan, "remove")
        /\ \A verb : HasVerb(q.plan, verb) <=> c.verb = verb \/ HasVerb(m.plan, verb)
    BY CommandFacts DEF Leaves
  <2>2. /\ q.id \in Known => q.old = rows[q.id]
        /\ q.op = "reconcile" => q.id \in Known /\ q.new = q.old
    BY CommandFacts DEF Leaves
  <2> QED BY <2>1, <2>2
<1>3. /\ Effect(c) /\ UNCHANGED <<backend, rows>> /\ q.pc = "host" /\ c = Head(q.plan)
  BY DEF Executed
<1>4. /\ Known' = Known /\ rows' = rows
      /\ \A rule : EntryOf(rule)' = EntryOf(rule)
      /\ BagToSet(host)' = BagToSet(host') /\ BagToSet(loaded)' = BagToSet(loaded')
  BY <1>3, Rigid DEF Known, BagToSet
<1>5. \A i : Restorable(i)' <=> Restorable(i)
  BY <1>4 DEF Restorable, AllowsSsh, UsesSsh, AllowsIP
<1> SUFFICES ASSUME q.op = "reconcile"
             PROVE  /\ q.old.enabled /\ HasVerb(m.plan, "remove") =>
                         Head(m.plan).verb = "remove" /\ HasVerb(m.plan, "add")
                    /\ \A i \in {j \in Known : Restorable(j)} :
                         \/ <<i, rows[i]>> \in q.listed
                         \/ /\ EntryOf(rows[i]) \in BagToSet(host')
                            /\ q.old.enabled \/ EntryOf(rows[i]) \in BagToSet(loaded')
                         \/ HasVerb(m.plan, "add") /\ EntryOf(rows[i]) = EntryOf(q.new)
  BY <1>1, <1>4, <1>5 DEF Restores
<1>6. /\ q.old.enabled /\ HasVerb(q.plan, "remove") =>
           Head(q.plan).verb = "remove" /\ HasVerb(q.plan, "add")
      /\ \A i \in {j \in Known : Restorable(j)} :
           \/ <<i, rows[i]>> \in q.listed
           \/ /\ EntryOf(rows[i]) \in BagToSet(host)
              /\ q.old.enabled \/ EntryOf(rows[i]) \in BagToSet(loaded)
           \/ HasVerb(q.plan, "add") /\ EntryOf(rows[i]) = EntryOf(q.new)
  BY <1>3 DEF Matched, Restores
<1>7. q.old.enabled => ~HasVerb(m.plan, "remove")
  BY <1>2, <1>3, <1>6
<1>8. ASSUME NEW i \in Known, Restorable(i), <<i, rows[i]>> \notin q.listed
      PROVE  \/ /\ EntryOf(rows[i]) \in BagToSet(host')
                /\ q.old.enabled \/ EntryOf(rows[i]) \in BagToSet(loaded')
             \/ HasVerb(m.plan, "add") /\ EntryOf(rows[i]) = EntryOf(q.new)
  <2> DEFINE e == EntryOf(rows[i])
  <2>1. \/ e \in BagToSet(host) /\ (q.old.enabled \/ e \in BagToSet(loaded))
        \/ HasVerb(q.plan, "add") /\ e = EntryOf(q.new)
    BY <1>6, <1>8
  <2>2. ~q.old.enabled => e # EntryOf(q.old)
    BY <1>2, <1>8 DEF Restorable
  <2> HIDE DEF e
  <2>3. CASE c.verb = "add"
    <3>1. BagToSet(host') = BagToSet(host) \cup {EntryOf(q.new)} /\ q.old.enabled
      BY <1>1, <1>2, <1>3, <2>3, CommandBags
    <3> QED BY <2>1, <3>1 DEF e
  <2>4. CASE c.verb = "remove"
    <3>1. /\ BagToSet(host) \ {EntryOf(q.old)} \subseteq BagToSet(host')
          /\ loaded' = IF backend = "firewalld" THEN loaded ELSE host'
      BY <1>1, <1>2, <1>3, <2>4, CommandBags
    <3>2. q.old.enabled => HasVerb(m.plan, "add")
      BY <1>2, <1>6, <2>4
    <3>3. CASE e = EntryOf(q.old)
      BY <1>2, <2>2, <3>2, <3>3 DEF e
    <3>4. CASE e # EntryOf(q.old) /\ e \in BagToSet(host)
                 /\ (q.old.enabled \/ e \in BagToSet(loaded))
      BY <3>1, <3>4 DEF e
    <3>5. CASE HasVerb(q.plan, "add") /\ e = EntryOf(q.new)
      BY <1>2, <3>3, <3>5
    <3> QED BY <2>1, <3>3, <3>4, <3>5
  <2>5. CASE c.verb = "reload"
    <3>1. host' = host /\ loaded' = host
      BY <1>1, <1>3, <2>5, CommandBags
    <3>2. HasVerb(q.plan, "add") <=> HasVerb(m.plan, "add")
      BY <1>2, <2>5
    <3> QED BY <2>1, <3>1, <3>2 DEF e
  <2> QED BY <1>1, <2>3, <2>4, <2>5 DEF Command
<1> QED BY <1>7, <1>8

LEMMA CommandMatch ==
  ASSUME TypeOK, Walled, Walled', NativesListed, NEW r, NEW q \in RequestStates, Matched(q),
         NEW c, Executed(r, q, c), NEW m, m = Shorter(q)
  PROVE  Matched(m)'
BY CommandHolding, CommandCovers, CommandSettles, CommandCounts, CommandRestores DEF Matched

-----------------------------------------------------------------------------
(* The table follows the host. *)
LEMMA WriteMatch ==
  ASSUME TypeOK, Unused, NEW q \in RequestStates, Matched(q), q.pc = "row",
         UNCHANGED <<backend, host, loaded, scarred>>,
         NEW n, n = IF q.op = "create" THEN nextId ELSE q.id,
         q.op = "create" => nextId \in Ids,
         NEW w, w = IF q.op = "create" THEN Inserted(q.new) ELSE q.new,
         rows' = [rows EXCEPT ![n] = w],
         adrift' = IF q.op = "create" /\ ~q.new.enabled THEN adrift \cup {n} ELSE adrift
  PROVE  Matched(NoReq)'
<1>1. /\ q.plan = <<>> /\ Working(q) /\ q.op # "reconcile"
      /\ q.op = "create" => q.id = None /\ q.old = None /\ q.new # None
      /\ q.op # "create" =>
           /\ q.id \in Known
           /\ q.old = rows[q.id] \/ (q.old = None /\ EntryOf(rows[q.id]) \in scarred)
  BY DEF Matched, Holding, Working
<1>2. /\ n \in Ids /\ n # 0 /\ None \notin Ids /\ None \notin Known /\ None \notin adrift
      /\ 0 \notin Known
      /\ q.op = "create" => n \notin Known
      /\ q.op # "create" => n = q.id
  <2>1. None \notin Ids
    BY FirewallAssumption
  <2>2. 0 \notin Ids
    BY DEF Ids
  <2>3. nextId \in Ids => rows[nextId] = None
    BY DEF Unused, Ids
  <2> QED BY <1>1, <2>1, <2>2, <2>3 DEF Known, TypeOK
<1>3. /\ rows'[n] = w
      /\ \A i \in Ids : i # n => rows'[i] = rows[i]
  BY <1>2 DEF TypeOK
<1>4. /\ \A i \in Ids : i # n => (i \in Known' <=> i \in Known)
      /\ n \in Known' <=> w # None
      /\ Known' \subseteq Ids
  BY <1>2, <1>3 DEF Known
<1>5. /\ \A rule : EntryOf(rule)' = EntryOf(rule)
      /\ \A rule : Stands(rule)' <=> Stands(rule)
  BY Rigid DEF Stands
<1>6. /\ q.new # None => q.new \in Rule
      /\ q.old # None => q.old \in Rule
      /\ \A i \in Known : rows[i] \in Rule
  BY KnownType DEF RequestStates
<1>7. /\ ~HasVerb(q.plan, "add") /\ ~HasVerb(q.plan, "remove")
      /\ Changes(q) <=> ~Same(q)
  BY <1>1 DEF HasVerb, Changes
<1>w. /\ q.op # "create" \/ (q.new # None /\ q.new.enabled) => w = q.new
      /\ w # q.new => n \in adrift'
      /\ adrift \subseteq adrift'
  <2>1. CASE q.op = "create"
    <3>1. q.new \in Rule
      BY <1>1, <1>6, <2>1
    <3>2. q.new.enabled => Inserted(q.new) = q.new
      BY <3>1 DEF Inserted, Rule
    <3> QED BY <2>1, <3>1, <3>2
  <2>2. CASE q.op # "create"
    BY <2>2
  <2> QED BY <2>1, <2>2
<1>8. ASSUME Same(q)
      PROVE  /\ n = q.id /\ n \in Known /\ q.old = rows[n] /\ q.new # None /\ q.old # None
             /\ q.new.enabled = q.old.enabled /\ Alike(EntryOf(q.old), EntryOf(q.new))
             /\ ~Changes(q) /\ w = q.new
  <2>1. q.op = "update" /\ SameHostEffect(q.old, q.new)
    BY <1>8 DEF Same
  <2>2. n = q.id /\ n \in Known /\ q.old = rows[n] /\ q.new # None /\ q.old # None
    <3>1. q.id \in Known /\ q.old = rows[q.id] /\ q.new # None
      BY <2>1 DEF Matched, Holding, Working
    <3> QED BY <1>2, <2>1, <3>1 DEF Known
  <2> QED BY <1>6, <1>7, <1>8, <1>w, <2>1, <2>2, SameAlike DEF SameHostEffect
<1>9. /\ NoReq.pc = "idle" /\ NoReq.op = "none" /\ NoReq.plan = <<>> /\ NoReq.old = None
      /\ NoReq.new = None
  BY DEF NoReq
<1>10. ~Working(NoReq) /\ ~Changes(NoReq) /\ ~Given(NoReq) /\ ~Taken(NoReq)
  BY <1>9 DEF Working, Changes, Given, Taken
<1>11. (Planned(NoReq) /\ Holding(NoReq) /\ Settles(NoReq) /\ Restores(NoReq))'
  BY <1>9 DEF Planned, Ordered, Loading, Holding, Settles, Restores, Working, Given, Changes
<1>12. ASSUME NEW i \in Known', rows'[i].enabled, i \notin adrift'
       PROVE  Stands(rows'[i])
  <2>0. i \notin adrift /\ (i = n => w = q.new)
    BY <1>12, <1>w
  <2>1. CASE i # n
    <3>1. i \in Known /\ i # q.id /\ rows'[i] = rows[i] /\ i \notin adrift
      BY <1>1, <1>2, <1>3, <1>4, <2>0, <2>1
    <3> QED BY <1>12, <3>1 DEF Matched, Covers
  <2>2. CASE i = n /\ Same(q)
    <3>1. Stands(q.old)
      BY <1>3, <1>8, <1>12, <2>0, <2>2 DEF Matched, Covers
    <3>2. EntryOf(q.old) \in Entry /\ EntryOf(q.new) \in Entry
      BY <1>6, <1>8, <2>2, EntryOfType
    <3>3. /\ BagToSet(host) \subseteq Entry /\ BagToSet(loaded) \subseteq Entry
      BY DEF TypeOK
    <3>4. \A e \in Entry : Alike(e, EntryOf(q.old)) => Alike(e, EntryOf(q.new))
      BY <1>8, <2>2, <3>2, AlikeOrder
    <3>5. Stands(q.new)
      BY <3>1, <3>3, <3>4 DEF Stands, Enforced
    <3> QED BY <1>3, <2>0, <2>2, <3>5
  <2>3. CASE i = n /\ ~Same(q)
    <3>1. q.new # None /\ q.new.enabled
      BY <1>3, <1>4, <1>12, <2>0, <2>3
    <3>2. Given(q)
      BY <1>7, <2>3, <3>1 DEF Given
    <3>3. q.id \notin adrift
      BY <1>1, <1>2, <2>0, <2>3
    <3>4. Stands(q.new)
      BY <1>7, <3>2, <3>3 DEF Matched, Settles, Stands
    <3> QED BY <1>3, <2>0, <2>3, <3>4
  <2> QED BY <2>1, <2>2, <2>3
<1>13. Covers(NoReq)'
  BY <1>5, <1>10, <1>12 DEF Covers
<1>14. Counts(NoReq)'
  <2> SUFFICES ASSUME NEW k \in Entry, \A f \in scarred : ~Alike(k, f)
               PROVE  /\ IsFiniteSet(Copies(k)')
                      /\ Cardinality(Copies(k)') <= Cardinality(Owners(NoReq, k)')
    BY DEF Counts, Alike
  <2> DEFINE O1 == Owners(NoReq, k)'
  <2>1. Copies(k)' = Copies(k)
    BY CopiesSame
  <2>2. IsFiniteSet(Copies(k)) /\ Cardinality(Copies(k)) <= Cardinality(Owners(q, k))
    BY DEF Matched, Counts
  <2>3. IsFiniteSet(Owners(q, k)) /\ IsFiniteSet(O1)
    BY OwnersFinite, OwnersFiniteAfter
  <2>4. O1 = {i \in Known' : rows'[i].enabled /\ Alike(EntryOf(rows'[i]), k)}
    <3>1. ~(Taken(NoReq)') /\ ~(Given(NoReq)')
      BY <1>9 DEF Taken, Given, Changes, Working
    <3> QED BY <1>5, <3>1 DEF Owners, Alike
  <2>5. Owners(q, k) = {i \in Known : /\ rows[i].enabled /\ Alike(EntryOf(rows[i]), k)
                                      /\ ~(Taken(q) /\ q.id = i)}
                         \cup {i \in {0} : Given(q) /\ Alike(EntryOf(q.new), k)}
    BY DEF Owners
  <2> HIDE DEF O1
  <2>6. \A i \in Owners(q, k) \ {0, n} : i \in O1
    BY <1>2, <1>3, <1>4, <2>4, <2>5 DEF Known
  <2>7. CASE Same(q)
    <3>1. ~Given(q) /\ ~Taken(q)
      BY <1>8, <2>7 DEF Given, Taken
    <3>2. n \in Owners(q, k) => n \in O1
      <4>1. EntryOf(q.old) \in Entry /\ EntryOf(q.new) \in Entry
        BY <1>6, <1>8, <2>7, EntryOfType
      <4>2. Alike(EntryOf(q.old), k) => Alike(EntryOf(q.new), k)
        BY <1>8, <2>7, <4>1, AlikeOrder
      <4> QED BY <1>2, <1>3, <1>4, <1>8, <2>4, <2>5, <2>7, <4>2
    <3>3. Owners(q, k) \subseteq O1
      BY <1>2, <2>5, <2>6, <3>1, <3>2
    <3> QED BY <2>1, <2>2, <2>3, <3>3, CountSame DEF O1
  <2>8. CASE ~Same(q)
    <3>1. n \notin Owners(q, k)
      <4>1. CASE q.op = "create"
        BY <1>2, <2>5, <4>1
      <4>2. CASE q.op # "create" /\ q.old # None
        <5>1. Taken(q)
          BY <1>7, <2>8, <4>2 DEF Taken
        <5> QED BY <1>2, <2>5, <4>2, <5>1
      <4>3. CASE q.op # "create" /\ q.old = None
        <5>1. EntryOf(rows[n]) \in scarred
          BY <1>1, <1>2, <4>3 DEF Known
        <5>2. ~Alike(EntryOf(rows[n]), k)
          BY <5>1 DEF Alike
        <5> QED BY <1>2, <2>5, <5>2
      <4> QED BY <4>1, <4>2, <4>3
    <3>2. CASE 0 \in Owners(q, k)
      <4>1. Given(q) /\ Alike(EntryOf(q.new), k) /\ q.new # None /\ q.new.enabled
        BY <1>2, <2>5, <3>2 DEF Given
      <4>2. n \in O1
        BY <1>3, <1>4, <1>w, <2>4, <4>1
      <4>3. (Owners(q, k) \ {0}) \cup {n} \subseteq O1
        BY <2>6, <3>1, <4>2
      <4> QED BY <2>1, <2>2, <2>3, <3>1, <4>3, CountSwap DEF O1
    <3>3. CASE 0 \notin Owners(q, k)
      <4>1. Owners(q, k) \subseteq O1
        BY <2>6, <3>1, <3>3
      <4> QED BY <2>1, <2>2, <2>3, <4>1, CountSame DEF O1
    <3> QED BY <3>2, <3>3
  <2> QED BY <2>7, <2>8
<1> QED BY <1>11, <1>13, <1>14 DEF Matched

-----------------------------------------------------------------------------
\* A rule the host has comes into the table.
LEMMA ImportMatch ==
  ASSUME TypeOK, Unused, NEW q \in RequestStates, Matched(q), q.pc = "import",
         UNCHANGED <<backend, host, loaded, adrift, scarred>>, NEW item \in q.listed,
         nextId \in Ids, rows' = [rows EXCEPT ![nextId] = item[2]]
  PROVE  Matched(q)'
<1>1. /\ q.op = "import" /\ \A x \in q.listed : Stands(x[2])
      /\ ~Working(q) /\ ~Changes(q) /\ ~Given(q) /\ ~Taken(q)
  BY DEF Matched, Holding, Working, Changes, Given, Taken
<1>2. /\ rows'[nextId] = item[2]
      /\ \A i \in Ids : i # nextId => rows'[i] = rows[i]
      /\ nextId \notin Known
  BY DEF TypeOK, Unused, Ids, Known
<1>3. \A i \in Known : i # nextId /\ i \in Known' /\ rows'[i] = rows[i]
  BY <1>2 DEF Known
<1>4. \A i \in Known' : i \in Known \/ i = nextId
  BY <1>2 DEF Known
<1>5. /\ \A rule : EntryOf(rule)' = EntryOf(rule)
      /\ \A rule : Stands(rule)' <=> Stands(rule)
  BY Rigid DEF Stands
<1>6. ~(Changes(q)') /\ ~(Given(q)') /\ ~(Taken(q)')
  BY <1>1 DEF Changes, Given, Taken, Working, Same
<1>7. Planned(q)' /\ Settles(q)' /\ Restores(q)'
  BY <1>1, <1>6 DEF Matched, Planned, Ordered, Loading, Settles, Restores
<1>8. Holding(q)'
  BY <1>1, <1>5 DEF Matched, Holding, Working, Same
<1>9. Covers(q)'
  BY <1>1, <1>2, <1>3, <1>4, <1>5 DEF Matched, Covers
<1>10. Counts(q)'
  <2> SUFFICES ASSUME NEW k \in Entry, \A f \in scarred : ~Alike(k, f)
               PROVE  /\ IsFiniteSet(Copies(k)')
                      /\ Cardinality(Copies(k)') <= Cardinality(Owners(q, k)')
    BY DEF Counts, Alike
  <2>1. Copies(k)' = Copies(k)
    BY CopiesSame
  <2>2. IsFiniteSet(Copies(k)) /\ Cardinality(Copies(k)) <= Cardinality(Owners(q, k))
    BY DEF Matched, Counts
  <2>3. IsFiniteSet(Owners(q, k)')
    BY OwnersFiniteAfter
  <2>4. Owners(q, k) \subseteq Owners(q, k)'
    BY <1>1, <1>3, <1>5, <1>6 DEF Owners, Alike
  <2> QED BY <2>1, <2>2, <2>3, <2>4, CountSame
<1> QED BY <1>7, <1>8, <1>9, <1>10 DEF Matched

LEMMA FewerMatch ==
  ASSUME NEW q \in RequestStates, Matched(q), q.pc = "import", NEW item, NEW p,
         p = [q EXCEPT !.listed = @ \ {item}]
  PROVE  Matched(p)
<1>1. /\ q.op = "import" /\ \A x \in q.listed : Stands(x[2])
      /\ ~Working(q) /\ ~Changes(q) /\ ~Given(q) /\ ~Taken(q)
  BY DEF Matched, Holding, Working, Changes, Given, Taken
<1>2. /\ p.pc = "import" /\ p.op = "import" /\ p.old = q.old /\ p.new = q.new
      /\ p.plan = q.plan /\ p.listed \subseteq q.listed
  BY <1>1 DEF RequestStates
<1>3. ~Working(p) /\ ~Changes(p) /\ ~Given(p) /\ ~Taken(p)
  BY <1>2 DEF Working, Changes, Given, Taken
<1>4. Planned(p) /\ Settles(p) /\ Restores(p) /\ Holding(p)
  BY <1>1, <1>2, <1>3 DEF Matched, Planned, Settles, Restores, Holding
<1>5. Covers(p)
  BY <1>1, <1>3 DEF Matched, Covers
<1>6. Counts(p)
  <2>1. \A c : Owners(p, c) = Owners(q, c)
    BY <1>1, <1>3 DEF Owners
  <2> QED BY <2>1 DEF Matched, Counts
<1> QED BY <1>4, <1>5, <1>6 DEF Matched

-----------------------------------------------------------------------------
(* The request at work. *)
LEMMA AtWork ==
  \A r \in Requests : AtMostOne /\ req[r].pc \notin Resting => Current = req[r]
BY DEF AtMostOne, Current
LEMMA NoneAtWork == (\A r \in Requests : req[r].pc \in Resting) => Current = NoReq
BY DEF Current
LEMMA AtWorkAfter ==
  \A r \in Requests : AtMostOne' /\ req'[r].pc \notin Resting => Current' = req'[r]
<1>1. (\A r \in Requests : AtMostOne /\ req[r].pc \notin Resting => Current = req[r])'
  BY AtWork, PTL
<1> QED BY <1>1
LEMMA NoneAtWorkAfter == (\A r \in Requests : req'[r].pc \in Resting) => Current' = NoReq
<1>1. ((\A r \in Requests : req[r].pc \in Resting) => Current = NoReq)'
  BY NoneAtWork, PTL
<1> QED BY <1>1

\* A step leaves one request at work with p, or none.
LEMMA CurrentAfter ==
  ASSUME TurnsInv, TurnsInv', NEW r \in Requests, \A s \in Requests \ {r} : req[s].pc \in Resting,
         NEW p, req' = [req EXCEPT ![r] = p]
  PROVE  Current' = IF p.pc \in Resting THEN NoReq ELSE p
<1>1. /\ req'[r] = p
      /\ \A s \in Requests \ {r} : req'[s].pc \in Resting
  BY DEF TurnsInv, TypeInv, TypeOK
<1>2. CASE p.pc \in Resting
  BY <1>1, <1>2, NoneAtWorkAfter
<1>3. CASE p.pc \notin Resting
  BY <1>1, <1>3, AtWorkAfter DEF TurnsInv
<1> QED BY <1>2, <1>3

LEMMA CurrentType ==
  ASSUME TurnsInv PROVE Current \in RequestStates
<1>1. CASE \A r \in Requests : req[r].pc \in Resting
  BY <1>1, NoneAtWork, NoReqType
<1>2. ASSUME NEW r \in Requests, req[r].pc \notin Resting PROVE Current \in RequestStates
  BY <1>2, AtWork DEF TurnsInv, TypeInv, TypeOK
<1> QED BY <1>1, <1>2

-----------------------------------------------------------------------------
(* What holds of a state holds of the next. *)
\* What RestMatch says of a request that leaves nothing to lose.
Left(q) == Changes(q) => /\ q.id \in Ids => q.id \in adrift
                         /\ q.new # None => EntryOf(q.new) \in scarred

LEMMA RestAfter == \A q : Matched(q)' /\ Left(q)' => Matched(NoReq)'
<1>1. \A q : Matched(q) /\ Left(q) => Matched(NoReq)
  BY RestMatch DEF Left
<1>2. (\A q : Matched(q) /\ Left(q) => Matched(NoReq))'
  BY <1>1, PTL
<1> QED BY <1>2

LEMMA ArriveAfter ==
  \A q \in RequestStates : \A p :
    TypeOK' /\ Matched(q)' /\ q.pc = "host" /\ q.plan = <<>> /\ loaded' = host'
      /\ p = [q EXCEPT !.pc = IF q.op = "reconcile" THEN "next" ELSE "row"]
    => Matched(p)'
<1>1. \A q \in RequestStates : \A p :
        TypeOK /\ Matched(q) /\ q.pc = "host" /\ q.plan = <<>> /\ loaded = host
          /\ p = [q EXCEPT !.pc = IF q.op = "reconcile" THEN "next" ELSE "row"]
        => Matched(p)
  BY ArriveMatch
<1>2. (\A q \in RequestStates : \A p :
         TypeOK /\ Matched(q) /\ q.pc = "host" /\ q.plan = <<>> /\ loaded = host
           /\ p = [q EXCEPT !.pc = IF q.op = "reconcile" THEN "next" ELSE "row"]
         => Matched(p))'
  BY <1>1, PTL
<1> QED BY <1>2

LEMMA SkipAfter ==
  \A q \in RequestStates : \A p :
    TypeOK' /\ Matched(q)' /\ q.pc = "host" /\ q.op = "reconcile" /\ ~q.old.enabled
      /\ p = [q EXCEPT !.plan = <<>>, !.pc = "next"]
    => Matched(p)'
<1>1. \A q \in RequestStates : \A p :
        TypeOK /\ Matched(q) /\ q.pc = "host" /\ q.op = "reconcile" /\ ~q.old.enabled
          /\ p = [q EXCEPT !.plan = <<>>, !.pc = "next"]
        => Matched(p)
  BY SkipMatch
<1>2. (\A q \in RequestStates : \A p :
         TypeOK /\ Matched(q) /\ q.pc = "host" /\ q.op = "reconcile" /\ ~q.old.enabled
           /\ p = [q EXCEPT !.plan = <<>>, !.pc = "next"]
         => Matched(p))'
  BY <1>1, PTL
<1> QED BY <1>2

LEMMA FewerAfter ==
  \A q \in RequestStates : \A item, p :
    Matched(q)' /\ q.pc = "import" /\ p = [q EXCEPT !.listed = @ \ {item}] => Matched(p)'
<1>1. \A q \in RequestStates : \A item, p :
        Matched(q) /\ q.pc = "import" /\ p = [q EXCEPT !.listed = @ \ {item}] => Matched(p)
  BY FewerMatch
<1>2. (\A q \in RequestStates : \A item, p :
         Matched(q) /\ q.pc = "import" /\ p = [q EXCEPT !.listed = @ \ {item}] => Matched(p))'
  BY <1>1, PTL
<1> QED BY <1>2

LEMMA DeleteAfter ==
  \A i, p : TypeOK' /\ Matched(NoReq)' /\ i \in Known' /\ EntryOf(rows[i])' \in scarred'
              /\ p = [NoReq EXCEPT !.pc = "row", !.op = "delete", !.id = i]
            => Matched(p)'
<1>1. \A i, p : TypeOK /\ Matched(NoReq) /\ i \in Known /\ EntryOf(rows[i]) \in scarred
                  /\ p = [NoReq EXCEPT !.pc = "row", !.op = "delete", !.id = i]
                => Matched(p)
  BY DeleteMatch
<1>2. (\A i, p : TypeOK /\ Matched(NoReq) /\ i \in Known /\ EntryOf(rows[i]) \in scarred
                   /\ p = [NoReq EXCEPT !.pc = "row", !.op = "delete", !.id = i]
                 => Matched(p))'
  BY <1>1, PTL
<1> QED BY <1>2 DEF NoReq

LEMMA SameRecord ==
  ASSUME NEW a \in RequestStates, NEW b \in RequestStates, a.pc = b.pc, a.op = b.op,
         a.id = b.id, a.old = b.old, a.new = b.new, a.plan = b.plan, a.listed = b.listed
  PROVE  a = b
<1>1. \A x \in RequestStates : x = [pc |-> x.pc, op |-> x.op, id |-> x.id, old |-> x.old,
                                    new |-> x.new, plan |-> x.plan, listed |-> x.listed]
  BY DEF RequestStates
<1> QED BY <1>1

\* A handler that gives up.
LEMMA GiveUpMatch ==
  ASSUME TurnsInv, TurnsInv', NEW r \in Requests, \A s \in Requests \ {r} : req[s].pc \in Resting,
         NEW q \in RequestStates, req[r] = q, NEW m, m = q \/ m = Shorter(q), Matched(m)',
         NEW lost, GiveUp(r, lost), backend' = backend, NEW p, p = Current'
  PROVE  Matched(p)'
<1>1. PICK rec : rec = [NoReq EXCEPT !.pc = "failed"]
  OBVIOUS
<1>2. rec.pc \in Resting /\ req' = [req EXCEPT ![r] = rec]
  BY <1>1 DEF GiveUp, Finish, NoReq, Resting
<1>3. Current' = NoReq
  BY <1>2, CurrentAfter
<1>4. /\ q.id \in Ids => q.id \in adrift'
      /\ q.new # None => EntryOf(q.new) \in scarred'
  <2>1. None \notin Ids
    BY FirewallAssumption
  <2> QED BY <2>1 DEF GiveUp, Entries
<1>5. Left(m)'
  <2>1. m.id = q.id /\ m.new = q.new
    BY DEF RequestStates, Shorter
  <2>2. EntryOf(m.new)' = EntryOf(m.new)
    BY Rigid
  <2> QED BY <1>4, <2>1, <2>2 DEF Left
<1>6. Matched(NoReq)'
  BY <1>5, RestAfter
<1>7. NoReq' = NoReq
  BY DEF NoReq
<1> QED BY <1>3, <1>6, <1>7

-----------------------------------------------------------------------------
(* Every step. *)
LEMMA StartMatch ==
  ASSUME TurnsInv, TurnsInv', NEW r \in Requests, \A s \in Requests : req[s].pc \in Resting,
         NEW rec, req' = [req EXCEPT ![r] = rec], rec.pc \in Resting \/ Matched(rec)',
         Matched(NoReq)', NEW p, p = Current'
  PROVE  Matched(p)'
<1>1. Current' = IF rec.pc \in Resting THEN NoReq ELSE rec
  BY CurrentAfter
<1>2. CASE rec.pc \in Resting
  <2>1. p = NoReq /\ NoReq' = NoReq
    BY <1>1, <1>2 DEF NoReq
  <2> QED BY <2>1
<1>3. CASE rec.pc \notin Resting
  <2>1. p = rec
    BY <1>1, <1>3
  <2> QED BY <1>3, <2>1
<1> QED BY <1>2, <1>3

LEMMA BeginMatch ==
  ASSUME MatchInv, TurnsInv', ~Overlapping, NativesListed, NEW r \in Requests, Begin(r),
         NEW p, p = Current'
  PROVE  Matched(p)'
<1>1. TurnsInv /\ TypeInv /\ TypeOK /\ TypeOK' /\ Walled
  BY DEF MatchInv, TurnsInv, TypeInv
<1>2. \A s \in Requests : req[s].pc \in Resting
  BY DEF Begin, NotFound, BeginCreate, BeginUpdate, BeginDelete, BeginImport, BeginReconcile, Idle
<1>3. Matched(NoReq)
  BY <1>2, NoneAtWork DEF MatchInv
<1>4. /\ UNCHANGED <<backend, rows, host, loaded>>
      /\ adrift \subseteq adrift' /\ scarred \subseteq scarred'
  BY DEF Begin, NotFound, BeginCreate, BeginUpdate, BeginDelete, BeginImport, BeginReconcile,
         Refuse, Start, table, wall, ghosts
<1>5. Matched(NoReq)'
  BY <1>3, <1>4, GrowMatch
<1>6. ASSUME NEW rec, Start(r, rec), rec.pc \in Resting \/ Matched(rec)'
      PROVE  Matched(p)'
  BY <1>1, <1>2, <1>5, <1>6, StartMatch DEF Start
<1>7. ASSUME NEW rec, Start(r, rec), Matched(rec) PROVE Matched(p)'
  BY <1>4, <1>6, <1>7, GrowMatch
<1>8. CASE Refuse(r)
  <2>1. PICK rec : rec = [NoReq EXCEPT !.pc = "failed"]
    OBVIOUS
  <2>2. rec.pc \in Resting
    BY <2>1 DEF NoReq, Resting
  <2> QED BY <1>6, <1>8, <2>1, <2>2 DEF Refuse
<1>9. CASE BeginCreate(r) /\ ~Refuse(r)
  <2>1. PICK rule \in Rules :
          Start(r, [NoReq EXCEPT !.pc = Perform(Applied(rule)), !.op = "create",
                                 !.new = rule, !.plan = Applied(rule)])
    BY <1>9 DEF BeginCreate
  <2>2. PICK rec : rec = [NoReq EXCEPT !.pc = Perform(Applied(rule)), !.op = "create",
                                       !.new = rule, !.plan = Applied(rule)]
    OBVIOUS
  <2>3. Matched(rec)
    BY <1>1, <1>3, <2>2, CreateMatch, RulesType
  <2> QED BY <1>7, <2>1, <2>2, <2>3
<1>10. CASE BeginUpdate(r) /\ ~Refuse(r)
  <2>1. PICK i \in Known, rule \in Rules :
          Start(r, [NoReq EXCEPT !.pc = Perform(Replaced(rows[i], rule, "here")), !.op = "update",
                                 !.id = i, !.old = rows[i], !.new = rule,
                                 !.plan = Replaced(rows[i], rule, "here")])
    BY <1>10 DEF BeginUpdate
  <2>2. PICK rec : rec = [NoReq EXCEPT !.pc = Perform(Replaced(rows[i], rule, "here")),
                                       !.op = "update", !.id = i, !.old = rows[i], !.new = rule,
                                       !.plan = Replaced(rows[i], rule, "here")]
    OBVIOUS
  <2>3. Matched(rec)
    BY <1>1, <1>3, <2>2, UpdateMatch, RulesType
  <2> QED BY <1>7, <2>1, <2>2, <2>3
<1>11. CASE BeginDelete(r) /\ ~Refuse(r)
  <2>1. PICK i \in Known :
          \/ Start(r, [NoReq EXCEPT !.pc = "host", !.op = "delete", !.id = i,
                                    !.old = rows[i], !.plan = Deleted(rows[i])])
          \/ /\ Start(r, [NoReq EXCEPT !.pc = "row", !.op = "delete", !.id = i])
             /\ scarred' = scarred \cup {EntryOf(rows[i])}
    BY <1>11 DEF BeginDelete
  <2>2. CASE Start(r, [NoReq EXCEPT !.pc = "host", !.op = "delete", !.id = i,
                                    !.old = rows[i], !.plan = Deleted(rows[i])])
    <3>1. PICK rec : rec = [NoReq EXCEPT !.pc = "host", !.op = "delete", !.id = i,
                                         !.old = rows[i], !.plan = Deleted(rows[i])]
      OBVIOUS
    <3>2. Matched(rec)
      BY <1>1, <1>3, <3>1, DeleteMatch
    <3> QED BY <1>7, <2>2, <3>1, <3>2
  <2>3. CASE /\ Start(r, [NoReq EXCEPT !.pc = "row", !.op = "delete", !.id = i])
             /\ scarred' = scarred \cup {EntryOf(rows[i])}
    <3>1. PICK rec : rec = [NoReq EXCEPT !.pc = "row", !.op = "delete", !.id = i]
      OBVIOUS
    <3>2. i \in Known' /\ EntryOf(rows[i])' \in scarred'
      BY <1>4, <2>3 DEF Known, EntryOf
    <3>3. Matched(rec)'
      BY <1>1, <1>5, <3>1, <3>2, DeleteAfter
    <3> QED BY <1>6, <2>3, <3>1, <3>3
  <2> QED BY <2>1, <2>2, <2>3
<1>12. CASE BeginImport(r)
  <2>1. PICK rec : rec = [NoReq EXCEPT !.pc = "import", !.op = "import",
                                       !.listed = {<<0, rule>> : rule \in Missing}]
    OBVIOUS
  <2>2. /\ rec.pc = "import" /\ rec.op = "import" /\ rec.plan = <<>> /\ rec.old = None
        /\ rec.new = None /\ rec.listed = {<<0, rule>> : rule \in Missing}
    BY <2>1 DEF NoReq
  <2>3. \A item \in rec.listed : Stands(item[2])
    BY <1>1, <2>2, ListedStands DEF Missing
  <2>4. Matched(rec)
    BY <1>3, <2>2, <2>3, WalkMatch
  <2> QED BY <1>7, <1>12, <2>1, <2>4 DEF BeginImport
<1>13. CASE BeginReconcile(r)
  <2>1. PICK rec : rec = [NoReq EXCEPT !.pc = "next", !.op = "reconcile",
                                       !.listed = {<<i, rows[i]>> : i \in Known}]
    OBVIOUS
  <2>2. /\ rec.pc = "next" /\ rec.op = "reconcile" /\ rec.plan = <<>> /\ rec.old = None
        /\ rec.new = None /\ rec.listed = {<<i, rows[i]>> : i \in Known}
    BY <2>1 DEF NoReq
  <2>3. Matched(rec)
    BY <1>3, <2>2, WalkMatch
  <2> QED BY <1>7, <1>13, <2>1, <2>3 DEF BeginReconcile
<1> QED BY <1>8, <1>9, <1>10, <1>11, <1>12, <1>13 DEF Begin, NotFound

-----------------------------------------------------------------------------
(* A request at work, the others at rest. *)
Alone(r, q) == /\ TurnsInv /\ TurnsInv' /\ r \in Requests /\ q \in RequestStates /\ req[r] = q
               /\ \A s \in Requests \ {r} : req[s].pc \in Resting
               /\ Walled /\ Unused /\ Matched(q) /\ backend' = backend

LEMMA AloneFacts ==
  ASSUME NEW r, NEW q, Alone(r, q)
  PROVE  /\ TurnsInv /\ TurnsInv' /\ TypeInv /\ TypeInv' /\ TypeOK /\ TypeOK'
         /\ r \in Requests /\ q \in RequestStates /\ req[r] = q /\ backend' = backend
         /\ \A s \in Requests \ {r} : req[s].pc \in Resting
         /\ Walled /\ Unused /\ Matched(q)
BY DEF Alone, TurnsInv, TypeInv

\* It goes on with rec, or it rests.
LEMMA MoveMatch ==
  ASSUME NEW r, NEW q, Alone(r, q), NEW rec, req' = [req EXCEPT ![r] = rec],
         IF rec.pc \in Resting THEN Matched(NoReq)' ELSE Matched(rec)', NEW p, p = Current'
  PROVE  Matched(p)'
<1>1. /\ TurnsInv /\ TurnsInv' /\ r \in Requests
      /\ \A s \in Requests \ {r} : req[s].pc \in Resting
  BY AloneFacts
<1>2. Current' = IF rec.pc \in Resting THEN NoReq ELSE rec
  BY <1>1, CurrentAfter
<1>3. CASE rec.pc \in Resting
  <2>1. p = NoReq /\ NoReq' = NoReq
    BY <1>2, <1>3 DEF NoReq
  <2> QED BY <1>3, <2>1
<1>4. CASE rec.pc \notin Resting
  <2>1. p = rec
    BY <1>2, <1>4
  <2> QED BY <1>4, <2>1
<1> QED BY <1>3, <1>4

LEMMA DoneMatch ==
  ASSUME NEW r, NEW q, Alone(r, q), NEW result \in Resting, Finish(r, result),
         Matched(NoReq)', NEW p, p = Current'
  PROVE  Matched(p)'
<1>1. PICK rec : rec = [NoReq EXCEPT !.pc = result]
  OBVIOUS
<1>2. rec.pc \in Resting /\ req' = [req EXCEPT ![r] = rec]
  BY <1>1 DEF Finish, NoReq
<1> QED BY <1>2, MoveMatch

LEMMA ImportOneMatch ==
  ASSUME NEW r, NEW q, Alone(r, q), ImportOne(r), NEW p, p = Current'
  PROVE  Matched(p)'
<1>1. /\ TypeOK /\ TypeOK' /\ r \in Requests /\ q \in RequestStates /\ req[r] = q
      /\ Unused /\ Matched(q) /\ q.pc = "import"
      /\ UNCHANGED <<backend, host, loaded, adrift, scarred>>
  BY AloneFacts DEF ImportOne, wall, ghosts
<1>2. ~Changes(q)
  BY <1>1 DEF Changes, Working
<1>3. Matched(q)' => Matched(NoReq)'
  <2>1. Left(q)'
    BY <1>2 DEF Left, Changes, Working, Same
  <2> QED BY <2>1, RestAfter
<1>4. CASE Finish(r, "failed") /\ UNCHANGED table
  <2>1. Matched(q)'
    BY <1>1, <1>4, GrowMatch DEF table
  <2> QED BY <1>3, <1>4, <2>1, DoneMatch DEF Resting
<1>5. ASSUME NEW item \in q.listed, nextId \in Ids, rows' = [rows EXCEPT ![nextId] = item[2]],
             IF q.listed = {item} THEN Finish(r, "ok")
             ELSE req' = [req EXCEPT ![r].listed = @ \ {item}]
      PROVE  Matched(p)'
  <2>1. Matched(q)'
    BY <1>1, <1>5, ImportMatch
  <2>2. CASE Finish(r, "ok")
    BY <1>3, <2>1, <2>2, DoneMatch DEF Resting
  <2>3. CASE req' = [req EXCEPT ![r].listed = @ \ {item}]
    <3>1. PICK rec : rec = [q EXCEPT !.listed = @ \ {item}]
      OBVIOUS
    <3>2. Matched(rec)'
      BY <1>1, <2>1, <3>1, FewerAfter
    <3>3. rec.pc \notin Resting
      BY <1>1, <3>1 DEF RequestStates, Resting
    <3>4. req' = [req EXCEPT ![r] = rec]
      BY <1>1, <2>3, <3>1
    <3> QED BY <3>2, <3>3, <3>4, MoveMatch
  <2> QED BY <1>5, <2>2, <2>3
<1> QED BY <1>1, <1>4, <1>5 DEF ImportOne

LEMMA NextRuleMatch ==
  ASSUME NEW r, NEW q, Alone(r, q), NextRule(r), NEW p, p = Current'
  PROVE  Matched(p)'
<1>1. /\ TypeOK /\ TypeInv /\ r \in Requests /\ q \in RequestStates /\ req[r] = q
      /\ Matched(q) /\ q.pc = "next" /\ UNCHANGED <<backend, rows, host, loaded>>
      /\ adrift \subseteq adrift' /\ scarred \subseteq scarred'
  BY AloneFacts DEF NextRule, table, wall, ghosts, GiveUp
<1>2. q.op = "reconcile"
  BY <1>1 DEF TypeInv, Flow
<1>3. Matched(NoReq)'
  <2>1. ~Changes(q)
    BY <1>1 DEF Changes, Working
  <2> QED BY <1>1, <2>1, RestMatch, GrowMatch
<1>4. CASE Finish(r, "ok") \/ GiveUp(r, {})
  BY <1>3, <1>4, DoneMatch DEF Resting, GiveUp
<1>5. ASSUME NEW item \in q.listed, NEW plan,
             plan = IF item[2].enabled THEN Replaced(item[2], item[2], "") ELSE Deleted(item[2]),
             req' = [req EXCEPT ![r] =
                      [req[r] EXCEPT !.pc = IF plan = <<>> THEN "next" ELSE "host",
                                     !.id = item[1], !.old = item[2], !.new = item[2],
                                     !.plan = plan, !.listed = @ \ {item}]]
      PROVE  Matched(p)'
  <2>1. PICK rec : rec = [q EXCEPT !.pc = IF plan = <<>> THEN "next" ELSE "host",
                                   !.id = item[1], !.old = item[2], !.new = item[2],
                                   !.plan = plan, !.listed = @ \ {item}]
    OBVIOUS
  <2>2. Matched(rec)'
    BY <1>1, <1>2, <1>5, <2>1, PickMatch, GrowMatch
  <2>3. rec.pc \in {"next", "host"}
    BY <1>1, <2>1 DEF RequestStates
  <2>4. req' = [req EXCEPT ![r] = rec] /\ rec.pc \notin Resting
    BY <1>1, <1>5, <2>1, <2>3 DEF Resting
  <2> QED BY <2>2, <2>4, MoveMatch
<1>6. \A item \in Latest(r) : item \in q.listed
  BY <1>1 DEF Latest
<1> QED BY <1>1, <1>4, <1>5, <1>6 DEF NextRule

LEMMA WriteRowMatch ==
  ASSUME NEW r, NEW q, Alone(r, q), WriteRow(r), NEW p, p = Current'
  PROVE  Matched(p)'
<1>1. /\ TypeOK /\ r \in Requests /\ q \in RequestStates /\ req[r] = q
      /\ Matched(q) /\ Unused /\ q.pc = "row" /\ UNCHANGED <<backend, host, loaded>>
  BY AloneFacts DEF WriteRow, wall
<1>2. CASE GiveUp(r, {}) /\ UNCHANGED table
  <2>1. adrift \subseteq adrift' /\ scarred \subseteq scarred' /\ rows' = rows
    BY <1>2 DEF GiveUp, table
  <2>2. Matched(q)'
    BY <1>1, <2>1, GrowMatch
  <2>3. /\ TurnsInv /\ TurnsInv' /\ backend' = backend
        /\ \A s \in Requests \ {r} : req[s].pc \in Resting
    BY AloneFacts
  <2> QED BY <1>1, <1>2, <2>2, <2>3, GiveUpMatch
<1>3. ASSUME NEW n, n = IF q.op = "create" THEN nextId ELSE q.id,
             NEW w, w = IF q.op = "create" THEN Inserted(q.new) ELSE q.new,
             q.op = "create" => nextId \in Ids, rows' = [rows EXCEPT ![n] = w],
             adrift' = IF q.op = "create" /\ ~q.new.enabled THEN adrift \cup {n} ELSE adrift,
             UNCHANGED scarred, Finish(r, "ok")
      PROVE  Matched(p)'
  <2>1. Matched(NoReq)'
    BY <1>1, <1>3, WriteMatch
  <2> QED BY <1>3, <2>1, DoneMatch DEF Resting
<1>4. CASE /\ q.op = "create" /\ nextId \in Ids /\ Finish(r, "ok") /\ UNCHANGED scarred
           /\ rows' = [rows EXCEPT ![nextId] = Inserted(q.new)]
           /\ adrift' = IF q.new.enabled THEN adrift ELSE adrift \cup {nextId}
  BY <1>3, <1>4
<1>5. CASE /\ q.op # "create" /\ Finish(r, "ok") /\ UNCHANGED ghosts
           /\ rows' = [rows EXCEPT ![q.id] = q.new]
  BY <1>3, <1>5 DEF ghosts
<1> QED BY <1>1, <1>2, <1>4, <1>5 DEF WriteRow

-----------------------------------------------------------------------------
LEMMA ShorterType ==
  ASSUME NEW q \in RequestStates, q.plan # <<>>
  PROVE  /\ Shorter(q) \in RequestStates /\ Shorter(q).plan = Tail(q.plan)
         /\ Shorter(q).pc = q.pc /\ Shorter(q).op = q.op /\ Shorter(q).id = q.id
         /\ Shorter(q).old = q.old /\ Shorter(q).new = q.new /\ Shorter(q).listed = q.listed
<1>1. q.plan \in Seq(Command) /\ Tail(q.plan) \in Seq(Command)
  BY DEF RequestStates
<1> QED BY <1>1 DEF RequestStates, Shorter

\* The command succeeds: the request goes on to the next, to the row or to the next rule.
LEMMA AdvanceMatch ==
  ASSUME NEW r, NEW q, Alone(r, q), NativesListed, Walled', NEW c, Executed(r, q, c), Advance(r),
         NEW p, p = Current'
  PROVE  Matched(p)'
<1>1. /\ TypeOK /\ TypeOK' /\ r \in Requests /\ q \in RequestStates /\ req[r] = q
      /\ Walled /\ Matched(q) /\ backend' = backend
  BY AloneFacts
<1>2. q.pc = "host" /\ q.plan # <<>> /\ c = Head(q.plan) /\ Effect(c)
  BY DEF Executed
<1>3. PICK m : m = Shorter(q)
  OBVIOUS
<1>4. /\ m \in RequestStates /\ m.plan = Tail(q.plan) /\ m.pc = "host" /\ m.op = q.op
      /\ m.id = q.id /\ m.old = q.old /\ m.new = q.new /\ m.listed = q.listed
  BY <1>1, <1>2, <1>3, ShorterType
<1>5. Matched(m)'
  BY <1>1, <1>3, CommandMatch
<1>6. PICK rec : rec = [q EXCEPT !.plan = Tail(q.plan),
                                 !.pc = IF Tail(q.plan) # <<>> THEN "host"
                                        ELSE IF q.op = "reconcile" THEN "next" ELSE "row"]
  OBVIOUS
<1>7. req' = [req EXCEPT ![r] = rec]
  BY <1>1, <1>6 DEF Advance
<1>8. /\ rec.plan = Tail(q.plan) /\ rec.op = q.op
      /\ rec.id = q.id /\ rec.old = q.old /\ rec.new = q.new /\ rec.listed = q.listed
      /\ rec.pc = IF Tail(q.plan) # <<>> THEN "host"
                  ELSE IF q.op = "reconcile" THEN "next" ELSE "row"
  BY <1>1, <1>6 DEF RequestStates
<1>9. rec \in RequestStates
  <2>1. rec = req'[r]
    BY <1>1, <1>7 DEF TypeOK
  <2> QED BY <1>1, <2>1 DEF TypeOK
<1>10. rec.pc \notin Resting
  BY <1>8 DEF Resting
<1>11. CASE Tail(q.plan) # <<>>
  <2>1. rec = m
    BY <1>4, <1>8, <1>9, <1>11, SameRecord
  <2> QED BY <1>5, <1>7, <1>10, <2>1, MoveMatch
<1>12. CASE Tail(q.plan) = <<>>
  <2>1. loaded' = host'
    <3>1. q.plan \in Seq(Command) /\ Ordered(q.plan, q.old, q.new) /\ Loading(q.plan)
      BY <1>1 DEF RequestStates, Matched, Planned
    <3>2. backend = "firewalld" => c.verb = "reload"
      BY <1>2, <1>12, <3>1, PlanTail
    <3>3. c \in Command
      BY <1>2, <3>1, PlanTail
    <3>4. CASE c.verb = "reload"
      BY <1>1, <1>2, <3>3, <3>4, CommandBags
    <3>5. CASE backend # "firewalld"
      BY <1>1, <3>5 DEF Walled
    <3> QED BY <3>2, <3>4, <3>5
  <2>2. PICK next : next = [m EXCEPT !.pc = IF m.op = "reconcile" THEN "next" ELSE "row"]
    OBVIOUS
  <2>3. Matched(next)'
    BY <1>1, <1>4, <1>5, <1>12, <2>1, <2>2, ArriveAfter
  <2>4. /\ next \in RequestStates
        /\ next.plan = m.plan /\ next.op = m.op /\ next.id = m.id /\ next.old = m.old
        /\ next.new = m.new /\ next.listed = m.listed
        /\ next.pc = IF m.op = "reconcile" THEN "next" ELSE "row"
    BY <1>4, <2>2 DEF RequestStates
  <2>5. rec = next
    <3>1. rec.pc = next.pc
      BY <1>4, <1>8, <1>12, <2>4
    <3> QED BY <1>4, <1>8, <1>9, <2>4, <3>1, SameRecord
  <2> QED BY <1>7, <1>10, <2>3, <2>5, MoveMatch
<1> QED BY <1>11, <1>12

\* The error of a disabled rule's removal is ignored.
LEMMA IgnoreMatch ==
  ASSUME NEW r, NEW q, Alone(r, q), q.pc = "host", q.plan # <<>>, Ignores(r), SkipRule(r),
         NEW m, m = q \/ m = Shorter(q), Matched(m)', NEW p, p = Current'
  PROVE  Matched(p)'
<1>1. /\ TypeOK /\ TypeOK' /\ r \in Requests /\ q \in RequestStates /\ req[r] = q
  BY AloneFacts
<1>2. q.op = "reconcile" /\ ~q.old.enabled
  BY <1>1 DEF Ignores
<1>3. /\ m \in RequestStates /\ m.pc = "host" /\ m.op = q.op
      /\ m.id = q.id /\ m.old = q.old /\ m.new = q.new /\ m.listed = q.listed
  BY <1>1, ShorterType
<1>4. PICK next : next = [m EXCEPT !.plan = <<>>, !.pc = "next"]
  OBVIOUS
<1>5. PICK rec : rec = [q EXCEPT !.plan = <<>>, !.pc = "next"]
  OBVIOUS
<1>6. Matched(next)'
  BY <1>1, <1>2, <1>3, <1>4, SkipAfter
<1>7. req' = [req EXCEPT ![r] = rec]
  BY <1>1, <1>5 DEF SkipRule
<1>8. /\ rec.plan = <<>> /\ rec.op = q.op /\ rec.pc = "next"
      /\ rec.id = q.id /\ rec.old = q.old /\ rec.new = q.new /\ rec.listed = q.listed
  BY <1>1, <1>5 DEF RequestStates
<1>9. rec \in RequestStates /\ rec.pc \notin Resting
  <2>1. rec = req'[r]
    BY <1>1, <1>7 DEF TypeOK
  <2> QED BY <1>1, <1>8, <2>1 DEF TypeOK, Resting
<1>10. /\ next \in RequestStates /\ next.plan = <<>> /\ next.op = m.op /\ next.pc = "next"
       /\ next.id = m.id /\ next.old = m.old /\ next.new = m.new /\ next.listed = m.listed
  <2>1. <<>> \in Seq(Command)
    OBVIOUS
  <2> QED BY <1>3, <1>4, <2>1 DEF RequestStates
<1>11. rec = next
  BY <1>3, <1>8, <1>9, <1>10, SameRecord
<1> QED BY <1>6, <1>7, <1>9, <1>11, MoveMatch

LEMMA RunCommandMatch ==
  ASSUME NEW r, NEW q, Alone(r, q), NativesListed, Walled', RunCommand(r), NEW p, p = Current'
  PROVE  Matched(p)'
<1>1. /\ TypeInv /\ TypeOK /\ TypeOK' /\ r \in Requests /\ q \in RequestStates /\ req[r] = q
      /\ Walled /\ Matched(q) /\ backend' = backend /\ TurnsInv /\ TurnsInv'
      /\ \A s \in Requests \ {r} : req[s].pc \in Resting
  BY AloneFacts
<1>2. /\ q.pc = "host" /\ q.plan # <<>> /\ UNCHANGED <<backend, rows>>
  BY <1>1 DEF RunCommand, table, TypeInv, Flow
<1>3. PICK c : c = Head(q.plan)
  OBVIOUS
<1>4. PICK m : m = Shorter(q)
  OBVIOUS
<1>5. ASSUME UNCHANGED wall, adrift \subseteq adrift', scarred \subseteq scarred'
      PROVE  Matched(q)'
  BY <1>1, <1>2, <1>5, GrowMatch DEF wall
<1>6. CASE Succeeds(c) /\ Effect(c) /\ Advance(r) /\ UNCHANGED scarred
           /\ adrift' = IF c.verb = "reload" THEN adrift
                        ELSE (adrift \ {req[r].id}) \cup Uncovered(r)
  <2>1. Executed(r, q, c)
    BY <1>1, <1>2, <1>3, <1>6 DEF Executed
  <2> QED BY <1>1, <1>6, <2>1, AdvanceMatch
<1>7. CASE UNCHANGED wall /\ UNCHANGED ghosts /\ Ignores(r) /\ SkipRule(r)
  <2>1. Matched(q)'
    BY <1>5, <1>7 DEF ghosts
  <2> QED BY <1>1, <1>2, <1>7, <2>1, IgnoreMatch
<1>8. CASE UNCHANGED wall /\ (GiveUp(r, {}) \/ GiveUp(r, Uncovered(r)))
  <2>1. PICK lost : GiveUp(r, lost)
    BY <1>8
  <2>2. Matched(q)'
    BY <1>5, <1>8, <2>1 DEF GiveUp
  <2> QED BY <1>1, <2>1, <2>2, GiveUpMatch
<1>9. CASE /\ UNCHANGED wall \/ (Succeeds(c) /\ Effect(c))
           /\ Ignores(r) /\ SkipRule(r) /\ adrift' = adrift \cup Uncovered(r)
           /\ scarred' = scarred \cup Entries({req[r].old})
  <2>1. CASE UNCHANGED wall
    BY <1>1, <1>2, <1>5, <1>9, <2>1, IgnoreMatch
  <2>2. CASE Succeeds(c) /\ Effect(c)
    <3>1. Executed(r, q, c)
      BY <1>1, <1>2, <1>3, <1>9, <2>2 DEF Executed
    <3>2. Matched(m)'
      BY <1>1, <1>4, <3>1, CommandMatch
    <3> QED BY <1>1, <1>2, <1>4, <1>9, <3>2, IgnoreMatch
  <2> QED BY <1>9, <2>1, <2>2
<1>10. CASE Succeeds(c) /\ Effect(c) /\ GiveUp(r, Uncovered(r))
  <2>1. Executed(r, q, c)
    BY <1>1, <1>2, <1>3, <1>10 DEF Executed, GiveUp
  <2>2. Matched(m)'
    BY <1>1, <1>4, <2>1, CommandMatch
  <2>3. PICK lost : GiveUp(r, lost)
    BY <1>10
  <2> QED BY <1>1, <1>4, <2>2, <2>3, GiveUpMatch
<1> QED BY <1>1, <1>3, <1>6, <1>7, <1>8, <1>9, <1>10 DEF RunCommand

-----------------------------------------------------------------------------
LEMMA StepAlone ==
  ASSUME MatchInv, TurnsInv', NEW r \in Requests, Step(r), NEW q, q = req[r]
  PROVE  Alone(r, q)
<1>1. /\ TurnsInv /\ Walled /\ Unused /\ TypeInv /\ TypeOK
      /\ backend' = backend /\ req[r].pc \notin Resting
  BY DEF MatchInv, TurnsInv, TypeInv, Step, ImportOne, NextRule, RunCommand, WriteRow, Resting
<1>2. /\ q \in RequestStates
      /\ \A s \in Requests \ {r} : req[s].pc \in Resting
      /\ Current = req[r]
  BY <1>1, OthersRest, AtWork DEF TurnsInv, TypeOK
<1>3. Matched(q)
  BY <1>2 DEF MatchInv
<1> QED BY <1>1, <1>2, <1>3 DEF Alone

LEMMA StepMatch ==
  ASSUME MatchInv, TurnsInv', NativesListed, Walled', NEW r \in Requests, Step(r), NEW p,
         p = Current'
  PROVE  Matched(p)'
<1>1. PICK q : q = req[r]
  OBVIOUS
<1>2. Alone(r, q)
  BY <1>1, StepAlone
<1> QED BY <1>2, ImportOneMatch, NextRuleMatch, RunCommandMatch, WriteRowMatch DEF Step

LEMMA CrashMatch ==
  ASSUME MatchInv, TurnsInv', Crash, NEW p, p = Current'
  PROVE  Matched(p)'
<1>1. TurnsInv /\ UNCHANGED <<backend, rows, host, loaded>>
  BY DEF MatchInv, Crash, table, wall
<1>2. PICK q : q = Current
  OBVIOUS
<1>3. Matched(q)
  BY <1>2 DEF MatchInv
<1>4. PICK r \in Requests : req[r].pc \notin Resting
  BY DEF Crash
<1>5. q = req[r]
  BY <1>1, <1>2, <1>4, AtWork DEF TurnsInv
<1>6. Matched(q)'
  BY <1>1, <1>3, GrowMatch DEF Crash
<1>7. Left(q)'
  <2>1. None \notin Ids
    BY FirewallAssumption
  <2>2. q.id \in Ids => q.id \in adrift'
    BY <1>5, <2>1 DEF Crash
  <2>3. q.new # None => EntryOf(q.new) \in scarred'
    BY <1>5 DEF Crash, Entries
  <2>4. EntryOf(q.new)' = EntryOf(q.new)
    BY <1>1, Rigid
  <2> QED BY <2>2, <2>3, <2>4 DEF Left
<1>8. p = NoReq /\ NoReq' = NoReq
  <2>1. \A s \in Requests : req'[s].pc \in Resting
    BY DEF Crash, NoReq, Resting
  <2> QED BY <2>1, NoneAtWorkAfter DEF NoReq
<1> QED BY <1>6, <1>7, <1>8, RestAfter

LEMMA FrameNext ==
  ASSUME MatchInv, TurnsInv', Next PROVE Walled' /\ Unused' /\ Rested'
<1>1. TurnsInv /\ Walled /\ Unused /\ Rested /\ TypeInv /\ TypeOK
  BY DEF MatchInv, TurnsInv, TypeInv
<1>2. UNCHANGED <<backend, host, loaded>> => Walled'
  <2> SUFFICES ASSUME UNCHANGED <<backend, host, loaded>> PROVE Walled'
    OBVIOUS
  <2>1. BagToSet(host)' = BagToSet(host) /\ BagToSet(loaded)' = BagToSet(loaded)
    BY DEF BagToSet
  <2> QED BY <1>1, <2>1 DEF Walled
<1>3. UNCHANGED <<rows, nextId>> => Unused'
  BY <1>1 DEF Unused
<1>4. ASSUME NEW r \in Requests, NEW rec, req' = [req EXCEPT ![r] = rec],
             rec.pc \in Resting => rec.op = "none"
      PROVE  Rested'
  BY <1>1, <1>4 DEF Rested, TypeOK
<1>5. ASSUME NEW r \in Requests, NEW result \in Resting, Finish(r, result) PROVE Rested'
  <2>1. PICK rec : rec = [NoReq EXCEPT !.pc = result]
    OBVIOUS
  <2> QED BY <1>4, <1>5, <2>1 DEF Finish, NoReq
<1>6. ASSUME NEW r \in Requests, NEW rec, Start(r, rec), rec.pc \in Resting => rec.op = "none"
      PROVE  Walled' /\ Unused' /\ Rested'
  BY <1>2, <1>3, <1>4, <1>6 DEF Start, table, wall
<1>7. ASSUME NEW r \in Requests, Begin(r) PROVE Walled' /\ Unused' /\ Rested'
  <2>1. CASE Refuse(r)
    BY <1>6, <2>1 DEF Refuse, NoReq
  <2>2. CASE BeginCreate(r) /\ ~Refuse(r)
    <3>1. PICK rule \in Rules :
            Start(r, [NoReq EXCEPT !.pc = Perform(Applied(rule)), !.op = "create",
                                   !.new = rule, !.plan = Applied(rule)])
      BY <2>2 DEF BeginCreate
    <3>2. PICK rec : rec = [NoReq EXCEPT !.pc = Perform(Applied(rule)), !.op = "create",
                                         !.new = rule, !.plan = Applied(rule)]
      OBVIOUS
    <3>3. rec.pc \in {"row", "host"}
      BY <3>2 DEF NoReq, Perform
    <3> QED BY <1>6, <3>1, <3>2, <3>3 DEF Resting
  <2>3. CASE BeginUpdate(r) /\ ~Refuse(r)
    <3>1. PICK i \in Known, rule \in Rules :
            Start(r, [NoReq EXCEPT !.pc = Perform(Replaced(rows[i], rule, "here")),
                                   !.op = "update", !.id = i, !.old = rows[i], !.new = rule,
                                   !.plan = Replaced(rows[i], rule, "here")])
      BY <2>3 DEF BeginUpdate
    <3>2. PICK rec : rec = [NoReq EXCEPT !.pc = Perform(Replaced(rows[i], rule, "here")),
                                         !.op = "update", !.id = i, !.old = rows[i],
                                         !.new = rule, !.plan = Replaced(rows[i], rule, "here")]
      OBVIOUS
    <3>3. rec.pc \in {"row", "host"}
      BY <3>2 DEF NoReq, Perform
    <3> QED BY <1>6, <3>1, <3>2, <3>3 DEF Resting
  <2>4. CASE BeginDelete(r) /\ ~Refuse(r)
    <3>1. PICK i \in Known :
            \/ Start(r, [NoReq EXCEPT !.pc = "host", !.op = "delete", !.id = i,
                                      !.old = rows[i], !.plan = Deleted(rows[i])])
            \/ Start(r, [NoReq EXCEPT !.pc = "row", !.op = "delete", !.id = i])
      BY <2>4 DEF BeginDelete
    <3> QED BY <1>6, <3>1 DEF NoReq, Resting
  <2>5. CASE BeginImport(r) \/ BeginReconcile(r)
    BY <1>6, <2>5 DEF BeginImport, BeginReconcile, NoReq, Resting
  <2> QED BY <1>7, <2>1, <2>2, <2>3, <2>4, <2>5 DEF Begin, NotFound
<1>8. ASSUME NEW r \in Requests, Step(r) PROVE Walled' /\ Unused' /\ Rested'
  <2>1. PICK q : q = req[r]
    OBVIOUS
  <2>2. q \in RequestStates /\ Matched(q) /\ req[r] = q /\ backend' = backend
    BY <1>8, <2>1, StepAlone, AloneFacts
  <2>3. CASE ImportOne(r)
    <3>1. Walled'
      BY <1>2, <2>3 DEF ImportOne, wall
    <3>2. Unused'
      <4>1. CASE rows' = rows /\ nextId' = nextId
        BY <1>3, <4>1
      <4>2. ASSUME NEW x, nextId \in Ids, rows' = [rows EXCEPT ![nextId] = x], nextId' = nextId + 1
            PROVE  Unused'
        BY <1>1, <4>2 DEF Unused, TypeOK, Ids
      <4> QED BY <2>3, <4>1, <4>2 DEF ImportOne, table
    <3>3. Rested'
      <4>1. CASE Finish(r, "ok") \/ Finish(r, "failed")
        BY <1>5, <4>1 DEF Resting
      <4>2. ASSUME NEW item, req' = [req EXCEPT ![r].listed = @ \ {item}] PROVE Rested'
        <5>1. PICK rec : rec = [q EXCEPT !.listed = @ \ {item}]
          OBVIOUS
        <5>2. rec.pc = "import"
          BY <2>2, <2>3, <5>1 DEF ImportOne, RequestStates
        <5> QED BY <1>4, <2>2, <4>2, <5>1, <5>2 DEF Resting
      <4> QED BY <2>3, <4>1, <4>2 DEF ImportOne
    <3> QED BY <3>1, <3>2, <3>3
  <2>4. CASE NextRule(r)
    <3>1. Walled' /\ Unused'
      BY <1>2, <1>3, <2>4 DEF NextRule, wall, table
    <3>2. CASE Finish(r, "ok") \/ GiveUp(r, {})
      BY <1>5, <3>1, <3>2 DEF Resting, GiveUp
    <3>3. ASSUME NEW item, NEW plan,
                 req' = [req EXCEPT ![r] =
                          [req[r] EXCEPT !.pc = IF plan = <<>> THEN "next" ELSE "host",
                                         !.id = item[1], !.old = item[2], !.new = item[2],
                                         !.plan = plan, !.listed = @ \ {item}]]
          PROVE  Rested'
      <4>1. PICK rec : rec = [q EXCEPT !.pc = IF plan = <<>> THEN "next" ELSE "host",
                                       !.id = item[1], !.old = item[2], !.new = item[2],
                                       !.plan = plan, !.listed = @ \ {item}]
        OBVIOUS
      <4>2. rec.pc \in {"next", "host"}
        BY <2>2, <4>1 DEF RequestStates
      <4> QED BY <1>4, <2>2, <3>3, <4>1, <4>2 DEF Resting
    <3> QED BY <2>4, <3>1, <3>2, <3>3 DEF NextRule
  <2>5. CASE RunCommand(r)
    <3>1. Unused'
      BY <1>3, <2>5 DEF RunCommand, table
    <3>2. Walled'
      <4>1. UNCHANGED wall \/ Effect(Head(q.plan))
        BY <2>2, <2>5 DEF RunCommand
      <4>2. Head(q.plan) \in Command
        BY <1>1, <2>2, <2>5, CommandType DEF RunCommand
      <4> QED BY <1>1, <1>2, <2>2, <4>1, <4>2, CommandWalled DEF wall
    <3>3. Rested'
      <4>1. ASSUME NEW lost, GiveUp(r, lost) PROVE Rested'
        BY <1>5, <4>1 DEF GiveUp, Resting
      <4>2. ASSUME NEW plan, NEW pc \in {"host", "next", "row"},
                   req' = [req EXCEPT ![r].plan = plan, ![r].pc = pc]
            PROVE  Rested'
        <5>1. PICK rec : rec = [q EXCEPT !.plan = plan, !.pc = pc]
          OBVIOUS
        <5>2. rec.pc = pc
          BY <2>2, <5>1 DEF RequestStates
        <5> QED BY <1>4, <2>2, <4>2, <5>1, <5>2 DEF Resting
      <4>3. CASE Advance(r) \/ SkipRule(r)
        BY <4>2, <4>3 DEF Advance, SkipRule
      <4> QED BY <2>5, <4>1, <4>3 DEF RunCommand
    <3> QED BY <3>1, <3>2, <3>3
  <2>6. CASE WriteRow(r)
    <3>1. Walled' /\ Rested'
      BY <1>2, <1>5, <2>6 DEF WriteRow, wall, GiveUp, Resting
    <3>2. Unused'
      <4>1. CASE rows' = rows /\ nextId' = nextId
        BY <1>3, <4>1
      <4>2. CASE /\ nextId \in Ids /\ rows' = [rows EXCEPT ![nextId] = Inserted(q.new)]
                 /\ nextId' = nextId + 1
        BY <1>1, <4>2 DEF Unused, TypeOK, Ids
      <4>3. CASE /\ q.op # "create" /\ rows' = [rows EXCEPT ![q.id] = q.new]
                 /\ nextId' = nextId
        <5>1. q.id \in Known
          BY <2>2, <2>6, <4>3 DEF WriteRow, Matched, Holding, Working
        <5> QED BY <1>1, <4>3, <5>1 DEF Unused, TypeOK, Known
      <4> QED BY <2>2, <2>6, <4>1, <4>2, <4>3 DEF WriteRow, table
    <3> QED BY <3>1, <3>2
  <2> QED BY <1>8, <2>3, <2>4, <2>5, <2>6 DEF Step
<1>9. CASE Crash
  BY <1>2, <1>3, <1>9 DEF Crash, table, wall, Rested, NoReq
<1> QED BY <1>7, <1>8, <1>9 DEF Next

LEMMA InitMatch == ASSUME Init PROVE MatchInv
<1>1. /\ TurnsInv /\ NoReq.pc = "idle" /\ NoReq.op = "none" /\ NoReq.plan = <<>>
      /\ NoReq.old = None /\ NoReq.new = None
  BY InitTurns DEF NoReq
<1>2. Known = {} /\ Current = NoReq
  <2>1. \A r \in Requests : req[r].pc \in Resting
    BY <1>1 DEF Init, Resting
  <2> QED BY <2>1, NoneAtWork DEF Init, Known
<1>3. /\ BagToSet(host) = Natives[backend] /\ loaded = host
      /\ \A e \in BagToSet(host) : host[e] = 1
  <2>1. host = SetToBag(Natives[backend]) /\ loaded = host
    BY DEF Init
  <2>2. BagToSet(host) = Natives[backend]
    BY <2>1, BagOfSet
  <2>3. \A e \in Natives[backend] : host[e] = 1
    BY <2>1 DEF SetToBag
  <2> QED BY <2>1, <2>2, <2>3
<1>4. Walled /\ Unused /\ Rested
  BY <1>1, <1>3 DEF Init, Walled, Unused, Rested
<1>5. ~Working(NoReq) /\ ~Changes(NoReq) /\ ~Given(NoReq) /\ ~Taken(NoReq)
  BY <1>1 DEF Working, Changes, Given, Taken
<1>6. /\ Planned(NoReq) /\ Holding(NoReq) /\ Covers(NoReq) /\ Settles(NoReq) /\ Restores(NoReq)
  BY <1>1, <1>2, <1>5 DEF Planned, Ordered, Loading, Holding, Covers, Settles, Restores
<1>7. Counts(NoReq)
  <2>1. \A c : Copies(c) = {}
    BY <1>3, CopyOf
  <2>2. IsFiniteSet({}) /\ Cardinality({}) = 0
    BY FS_EmptySet
  <2>3. \A c : Cardinality(Owners(NoReq, c)) \in Nat
    BY OwnersFinite, FS_CardinalityType
  <2> QED BY <2>1, <2>2, <2>3 DEF Counts
<1> QED BY <1>1, <1>2, <1>4, <1>6, <1>7 DEF MatchInv, Matched

LEMMA NextMatch ==
  ASSUME ~Overlapping, NativesListed, MatchInv, [Next]_vars PROVE MatchInv'
<1>1. TurnsInv /\ TurnsInv'
  BY NextTurns DEF MatchInv
<1>2. CASE UNCHANGED vars
  <2>1. Walled' /\ Unused' /\ Rested'
    BY <1>2 DEF MatchInv, vars, Walled, Unused, Rested, BagToSet
  <2>2. ASSUME NEW p, p = Current' PROVE Matched(p)'
    <3>1. p = Current
      BY <1>2, <2>2 DEF vars, Current, NoReq
    <3>2. Matched(p)
      BY <3>1 DEF MatchInv
    <3> QED BY <1>2, <3>2, GrowMatch DEF vars
  <2> QED BY <1>1, <2>1, <2>2 DEF MatchInv
<1>3. CASE Next
  <2>1. Walled' /\ Unused' /\ Rested'
    BY <1>1, <1>3, FrameNext
  <2>2. ASSUME NEW p, p = Current' PROVE Matched(p)'
    BY <1>1, <1>3, <2>1, <2>2, BeginMatch, StepMatch, CrashMatch DEF Next
  <2> QED BY <1>1, <2>1, <2>2 DEF MatchInv
<1> QED BY <1>2, <1>3

LEMMA MatchInvariant == ASSUME ~Overlapping, NativesListed PROVE Spec => []MatchInv
BY InitMatch, NextMatch, PTL DEF Spec

-----------------------------------------------------------------------------
LEMMA MatchedRows == ASSUME MatchInv PROVE RowsMatchHost
<1>1. TypeOK /\ Matched(Current) /\ BagToSet(host) \subseteq Entry /\ IsABag(host)
  BY DEF MatchInv, TurnsInv, TypeInv, TypeOK
<1>2. Changes(Current) => \E r \in Requests : Current = req[r]
  <2>1. CASE \A r \in Requests : req[r].pc \in Resting
    BY <2>1, NoneAtWork DEF Changes, Working, NoReq
  <2>2. ASSUME NEW r \in Requests, req[r].pc \notin Resting
        PROVE  \E s \in Requests : Current = req[s]
    BY <2>2, AtWork DEF MatchInv, TurnsInv
  <2> QED BY <2>1, <2>2
<1>3. ASSUME NEW i \in Known, rows[i].enabled
      PROVE  Enforced(rows[i], loaded) \/ InHand(i) \/ i \in adrift
  <2>1. CASE Changes(Current) /\ Current.id = i
    BY <1>2, <2>1 DEF InHand
  <2>2. CASE ~(Changes(Current) /\ Current.id = i)
    BY <1>1, <1>3, <2>2 DEF Matched, Covers, Stands
  <2> QED BY <2>1, <2>2
<1>4. ASSUME NEW e \in BagToSet(host) \ Natives[backend], \A f \in scarred : ~Alike(e, f)
      PROVE  \/ \E i \in Known : rows[i].enabled /\ Alike(e, EntryOf(rows[i]))
             \/ \E r \in Requests : \E f \in Entries({req[r].old, req[r].new}) : Alike(e, f)
  <2>1. e \in Entry /\ host[e] \in Nat \ {0}
    BY <1>1, BagCounts
  <2>2. IsFiniteSet(Copies(e)) /\ Cardinality(Copies(e)) <= Cardinality(Owners(Current, e))
    BY <1>1, <1>4, <2>1 DEF Matched, Counts
  <2>3. <<e, 1>> \in Copies(e)
    <3>1. 1 \in 1..host[e] /\ 1 \in Int /\ Alike(e, e)
      BY <2>1, AlikeOrder
    <3> QED BY <3>1, CopyOf
  <2>4. Owners(Current, e) # {}
    <3>1. Cardinality(Copies(e)) \in Nat /\ Cardinality(Copies(e)) # 0
      BY <2>2, <2>3, FS_CardinalityType, FS_EmptySet
    <3>2. Cardinality({}) = 0
      BY FS_EmptySet
    <3> QED BY <2>2, <3>1, <3>2
  <2>5. PICK i \in Owners(Current, e) : TRUE
    BY <2>4
  <2>6. CASE i \in Known /\ rows[i].enabled /\ Alike(EntryOf(rows[i]), e)
    <3>1. Alike(e, EntryOf(rows[i]))
      BY <2>6 DEF Alike
    <3> QED BY <2>6, <3>1
  <2>7. CASE Given(Current) /\ Alike(EntryOf(Current.new), e)
    <3>1. Current.new # None /\ Changes(Current) /\ Alike(e, EntryOf(Current.new))
      BY <2>7 DEF Given, Alike
    <3>2. PICK r \in Requests : Current = req[r]
      BY <1>2, <3>1
    <3> QED BY <3>1, <3>2 DEF Entries
  <2> QED BY <2>5, <2>6, <2>7 DEF Owners
<1> QED BY <1>3, <1>4 DEF RowsMatchHost

\* Where operators take turns, every active rule is enforced and every entry the panel put
\* into the host's firewall belongs to an active rule, but for what a failure or a crash cut
\* short and what a handler has in hand: for any rules and any host whose own entries are
\* not named like the panel's (the order of host and table in FirewallService's changes, the
\* order in ReplaceRule, and the import of the host's rules).
THEOREM RowsMatchHostInTurns ==
  ASSUME ~Overlapping, NativesListed PROVE Spec => []RowsMatchHost
BY MatchInvariant, MatchedRows, PTL

\* A reconciliation is done when its listing is.
LEMMA DoneListed ==
  ASSUME MatchInv, ~Overlapping, Next, NEW r \in Requests, req[r].op = "reconcile",
         req'[r].pc = "ok"
  PROVE  /\ Current = req[r] /\ req[r].pc = "next" /\ req[r].listed = {}
         /\ UNCHANGED <<rows, loaded>>
<1>1. /\ TurnsInv /\ TypeInv /\ TypeOK /\ Rested /\ req[r] \in RequestStates
      /\ req[r].pc \notin Resting
  BY DEF MatchInv, TurnsInv, TypeInv, TypeOK, Rested
<1>2. Current = req[r] /\ Matched(Current)
  BY <1>1, AtWork DEF MatchInv, TurnsInv
<1>3. \A s \in Requests \ {r} : req[s].pc \in Resting
  BY <1>1, OthersRest DEF TurnsInv
<1>4. ~Crash
  BY DEF Crash, NoReq
<1>5. ASSUME NEW s \in Requests, Begin(s) PROVE FALSE
  BY <1>1, <1>5 DEF Begin, NotFound, BeginCreate, BeginUpdate, BeginDelete, BeginImport,
                    BeginReconcile, Idle
<1>6. Step(r)
  <2>1. \A s \in Requests : Step(s) => req[s].pc \notin Resting
    BY DEF Step, ImportOne, NextRule, RunCommand, WriteRow, Resting
  <2> QED BY <1>3, <1>4, <1>5, <2>1 DEF Next
<1>7. ~ImportOne(r) /\ ~WriteRow(r)
  BY <1>2 DEF Matched, Holding, Working, ImportOne, WriteRow
<1>8. ~RunCommand(r)
  <2>1. ASSUME NEW lost, GiveUp(r, lost) PROVE FALSE
    BY <1>1, <2>1 DEF GiveUp, Finish, NoReq, TypeOK
  <2>2. ASSUME NEW plan, NEW pc \in {"host", "next", "row"},
               req' = [req EXCEPT ![r].plan = plan, ![r].pc = pc]
        PROVE  FALSE
    <3>1. req'[r].pc = pc
      BY <1>1, <2>2 DEF TypeOK, RequestStates
    <3> QED BY <3>1
  <2>3. ~Advance(r) /\ ~SkipRule(r)
    BY <2>2 DEF Advance, SkipRule
  <2> QED BY <2>1, <2>3 DEF RunCommand
<1>9. NextRule(r)
  BY <1>6, <1>7, <1>8 DEF Step
<1>10. req[r].listed = {}
  <2>1. ~GiveUp(r, {})
    BY <1>1 DEF GiveUp, Finish, NoReq, TypeOK
  <2>2. ASSUME NEW item, NEW plan,
               req' = [req EXCEPT ![r] =
                        [req[r] EXCEPT !.pc = IF plan = <<>> THEN "next" ELSE "host",
                                       !.id = item[1], !.old = item[2], !.new = item[2],
                                       !.plan = plan, !.listed = @ \ {item}]]
        PROVE  FALSE
    <3>1. req'[r].pc \in {"next", "host"}
      BY <1>1, <2>2 DEF TypeOK, RequestStates
    <3> QED BY <3>1
  <2> QED BY <1>9, <2>1, <2>2 DEF NextRule
<1> QED BY <1>2, <1>9, <1>10 DEF NextRule, table, wall

\* Where operators take turns, a reconciliation that reports success leaves every active rule
\* enforced that it touches and no disabled rule takes away, whatever failed before it
\* (ReconcileService.Run: a rule is deleted, applied again, and the next one taken only when
\* all commands succeeded).
THEOREM ReconcileRestoresInTurns ==
  ASSUME ~Overlapping, NativesListed PROVE Spec => ReconcileRestores
<1> DEFINE Restored(r, i) == \/ ~rows[i].enabled \/ AllowsSsh(rows[i], "")
                             \/ \E j \in Known : /\ ~rows[j].enabled
                                                 /\ EntryOf(rows[j]) = EntryOf(rows[i])
                             \/ Enforced(rows[i], loaded')
<1>1. ASSUME MatchInv, Next, NEW r \in Requests, req[r].op = "reconcile", req'[r].pc = "ok",
             NEW i \in Known
      PROVE  Restored(r, i)
  <2>1. /\ Current = req[r] /\ req[r].pc = "next" /\ req[r].listed = {}
        /\ UNCHANGED <<rows, loaded>>
    BY <1>1, DoneListed
  <2>2. Matched(req[r]) /\ rows[i] \in Rule
    BY <1>1, <2>1, KnownType DEF MatchInv, TurnsInv, TypeInv
  <2>3. CASE Restorable(i)
    <3>1. EntryOf(rows[i]) \in BagToSet(loaded)
      BY <1>1, <2>1, <2>2, <2>3 DEF Matched, Restores
    <3>2. Enforced(rows[i], loaded)
      BY <2>2, <3>1, EntryOfType, AlikeOrder DEF Enforced
    <3> QED BY <2>1, <3>2
  <2>4. CASE ~Restorable(i)
    BY <2>4 DEF Restorable
  <2> QED BY <2>3, <2>4
<1>2. MatchInv /\ [Next]_vars =>
        [\A r \in Requests :
           req[r].op = "reconcile" /\ req'[r].pc = "ok" =>
             \A i \in Known :
               \/ ~rows[i].enabled \/ AllowsSsh(rows[i], "")
               \/ \E j \in Known : ~rows[j].enabled /\ EntryOf(rows[j]) = EntryOf(rows[i])
               \/ Enforced(rows[i], loaded')]_vars
  BY <1>1
<1> QED BY <1>2, MatchInvariant, PTL DEF Spec, ReconcileRestores
=============================================================================

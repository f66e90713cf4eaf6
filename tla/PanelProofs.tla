---------------------------- MODULE PanelProofs ----------------------------
(***************************************************************************)
(* Proofs about the domain of the panel (PanelDomain), about who may use it *)
(* (Access), for any domains, users, browsers and failures, about the       *)
(* runtime versions (Runtimes), about the update of the panel by itself     *)
(* (SelfUpdate), for any releases, about the migrations of its tables       *)
(* (Migrations), for any ids of their rows, and about transfers             *)
(* (ScpTransfer), for any directories of a finite depth; last, about all of *)
(* them beside each other (MCPanel).                                        *)
(***************************************************************************)
EXTENDS MCPanel, WellFoundedInduction, FiniteSetTheorems, SequenceTheorems, TLAPS

-----------------------------------------------------------------------------
(* Numbers.                                                                 *)

\* A set of naturals with a member has a smallest, and with finitely many a largest.
LEMMA Smallest ==
  ASSUME NEW T \in SUBSET Nat, T # {}
  PROVE  \E x \in T : \A y \in T : x <= y
<1> DEFINE Below == OpToRel(<, Nat)
<1>1. \A x, y \in Nat : x < y => <<x, y>> \in Below
  BY DEF OpToRel
<1>2. PICK x \in T : \A y \in T : ~ (<<y, x>> \in Below)
  <2> HIDE DEF Below
  <2>1. IsWellFoundedOn(Below, Nat)
    BY NatLessThanWellFounded DEF Below
  <2> QED BY <2>1, WFMin
<1>3. \A y \in T : x <= y
  <2> HIDE DEF Below
  <2>1. \A y \in T : ~(y < x)
    BY <1>1, <1>2
  <2> QED BY <2>1
<1> QED BY <1>3

LEMMA GreatestIs ==
  ASSUME NEW S \in SUBSET Nat, IsFiniteSet(S), S # {}
  PROVE  \E x \in S : \A m \in S : m <= x
<1> DEFINE Above(x) == {y \in S : x < y}
           Sizes == {Cardinality(Above(x)) : x \in S}
<1>1. \A x \in S : IsFiniteSet(Above(x)) /\ Cardinality(Above(x)) \in Nat
  BY FS_Subset, FS_CardinalityType
<1>2. PICK x \in S : \A y \in S : Cardinality(Above(x)) <= Cardinality(Above(y))
  <2>1. Sizes \in SUBSET Nat /\ Sizes # {}
    BY <1>1
  <2> HIDE DEF Above
  <2>2. PICK k \in Sizes : \A l \in Sizes : k <= l
    BY <2>1, Smallest
  <2> QED BY <2>2
<1>3. ASSUME NEW y \in S, x < y PROVE FALSE
  <2>1. Above(y) \in SUBSET Above(x) /\ y \in Above(x) /\ y \notin Above(y)
    <3>1. x \in Nat /\ y \in Nat
      BY <1>2, <1>3
    <3>2. \A z \in Above(y) : z \in Above(x)
      <4>1. \A z \in S : z \in Nat /\ (y < z => x < z)
        BY <1>3, <3>1
      <4> QED BY <4>1
    <3>3. y \in Above(x)
      BY <1>3
    <3>4. y \notin Above(y)
      BY <3>1
    <3> HIDE DEF Above
    <3> QED BY <3>2, <3>3, <3>4
  <2> HIDE DEF Above
  <2>2. /\ Cardinality(Above(y)) <= Cardinality(Above(x))
        /\ Cardinality(Above(y)) # Cardinality(Above(x))
    BY <1>1, <2>1, FS_Subset
  <2> QED BY <1>1, <1>2, <2>2
<1>4. \A m \in S : m <= x
  BY <1>3
<1> QED BY <1>4

-----------------------------------------------------------------------------
(* The domain of the panel.  The files to bring back are those of the       *)
(* state the request began in, and how far the request has come says what   *)
(* the host has.                                                            *)

\* Setting, base URL, file, link and certificate are of one domain.
Agree(conf, link) ==
  /\ urlLive = stored /\ urlFile = stored
  /\ IF stored = NoDomain THEN conf = NoConfig /\ ~link
     ELSE conf = [domain |-> stored, tls |-> TRUE] /\ link /\ stored \in issued

Loaded(d) ==
  IF d = NoDomain THEN available = NoConfig /\ ~enabled
  ELSE available = [domain |-> d, tls |-> TRUE] /\ enabled /\ d \in issued

Progress ==
  /\ save.pc = "idle" /\ ~unclean => Agree(available, enabled)
  /\ save.pc \in {"plain", "cert", "tls", "remove", "url"} =>
       save.configured /\ (~unclean => Agree(save.available, save.enabled))
  /\ save.pc \in {"plain", "cert", "tls"} => save.domain \in PdDomains
  /\ save.pc \in {"plain", "remove"} => available = save.available /\ enabled = save.enabled
  /\ save.pc = "remove" => save.domain = NoDomain
  /\ save.pc = "tls" => save.domain \in issued
  /\ save.pc = "url" => Loaded(save.domain)
  /\ save.pc = "store" =>
       IF save.configured
       THEN Loaded(save.domain) /\ urlLive = save.domain /\ urlFile = save.domain
       ELSE save.domain = NoDomain /\ (~unclean => Agree(available, enabled))

PdInv == PdTypeOK /\ Progress

LEMMA NoSaveIsOne ==
  /\ NoSave \in Saves /\ NoConfig \in PanelConfig \cup {NoConfig}
  /\ NoSave.pc = "idle" /\ NoDomain \in Asked /\ PdDomains \subseteq Asked
BY DEF NoSave, Saves, Asked

LEMMA PdInitially == PdInit => PdInv
<1> SUFFICES ASSUME PdInit PROVE PdInv
  OBVIOUS
<1>1. PdTypeOK
  <2>1. pdFailures \in 0..MaxPdFailures
    BY PdAssumption DEF PdInit
  <2>2. save \in Saves
    BY NoSaveIsOne DEF PdInit
  <2>3. available \in PanelConfig \cup {NoConfig}
    BY DEF PdInit
  <2>4. stored \in Asked /\ urlLive \in Asked /\ urlFile \in Asked
    BY DEF PdInit, Asked
  <2>5. enabled \in BOOLEAN /\ sick \in BOOLEAN /\ unclean \in BOOLEAN /\ issued = {} /\ owned = {}
    BY DEF PdInit
  <2> QED BY <2>1, <2>2, <2>3, <2>4, <2>5 DEF PdTypeOK
<1>2. Progress
  BY NoSaveIsOne DEF PdInit, Progress, Agree
<1> QED BY <1>1, <1>2 DEF PdInv

\* What a step that goes on, ends or fails does to the request and the counter.
Went(pc) ==
  /\ save' \in Saves /\ save'.pc = pc /\ save'.domain = save.domain
  /\ save'.configured = save.configured
  /\ save'.available = save.available /\ save'.enabled = save.enabled
PdEnded(clean) ==
  /\ save' \in Saves /\ save'.pc = "idle" /\ unclean' \in BOOLEAN
  /\ ~unclean' => clean /\ ~unclean

LEMMA GoesOn ==
  ASSUME save \in Saves, NEW pc, PdGoes(pc),
         pc \in {"idle", "plain", "cert", "tls", "remove", "url", "store"}
  PROVE  Went(pc)
BY DEF PdGoes, Saves, Went

LEMMA Ends ==
  ASSUME NEW clean \in BOOLEAN, PdEnds(clean), unclean \in BOOLEAN
  PROVE  PdEnded(clean)
BY NoSaveIsOne DEF PdEnds, PdEnded

LEMMA Counted ==
  ASSUME pdFailures \in 0..MaxPdFailures, PdFault \/ PdWorks
  PROVE  pdFailures' \in 0..MaxPdFailures
BY PdAssumption DEF PdFault, PdFaults, PdWorks

\* What the restore point leaves when some of its steps may fail.
Restored(left, clean) ==
  \/ available' = save.available /\ enabled' = save.enabled /\ PdEnded(clean)
  \/ /\ available' \in {left, available, save.available, NoConfig}
     /\ enabled' \in {enabled, save.enabled, FALSE} /\ PdEnded(FALSE)

LEMMA Restoring ==
  ASSUME NEW n \in {0, 1}, NEW left, NEW clean \in BOOLEAN, Restore(n, left, clean),
         unclean \in BOOLEAN, pdFailures \in 0..MaxPdFailures
  PROVE  Restored(left, clean) /\ pdFailures' \in 0..MaxPdFailures
<1>1. Restored(left, clean)
  BY Ends DEF Restore, Restored
<1>2. pdFailures' \in 0..MaxPdFailures
  <2>1. n \in Nat /\ n + 1 \in Nat
    OBVIOUS
  <2>2. PICK k \in Nat : PdFaults(k)
    BY <2>1 DEF Restore
  <2> QED BY <2>2, PdAssumption DEF PdFaults
<1> QED BY <1>1, <1>2

LEMMA Configs ==
  ASSUME NEW d \in PdDomains, NEW b \in BOOLEAN
  PROVE  [domain |-> d, tls |-> b] \in PanelConfig \cup {NoConfig}
BY DEF PanelConfig

LEMMA SaveParts ==
  ASSUME save \in Saves
  PROVE  /\ save.domain \in Asked /\ save.configured \in BOOLEAN /\ save.enabled \in BOOLEAN
         /\ save.available \in PanelConfig \cup {NoConfig}
BY DEF Saves

\* The types without the counter of failures.
Typed ==
  /\ available \in PanelConfig \cup {NoConfig} /\ enabled \in BOOLEAN
  /\ issued \subseteq PdDomains /\ owned \subseteq PdDomains /\ sick \in BOOLEAN
  /\ stored \in Asked /\ urlLive \in Asked /\ urlFile \in Asked
  /\ save \in Saves /\ unclean \in BOOLEAN

LEMMA PdStep == PdInv /\ [PdNext]_pdVars => PdInv'
<1> SUFFICES ASSUME PdInv, [PdNext]_pdVars PROVE PdInv'
  OBVIOUS
<1>a. Typed /\ Progress /\ pdFailures \in 0..MaxPdFailures
  BY DEF PdInv, PdTypeOK, Typed
<1>b. SUFFICES Typed' /\ Progress' /\ pdFailures' \in 0..MaxPdFailures
  BY DEF PdInv, PdTypeOK, Typed
<1>1. ASSUME NEW d \in Asked, UpdateGeneral(d)
      PROVE  Typed' /\ Progress' /\ pdFailures' \in 0..MaxPdFailures
  <2> PICK existing \in {stored, NoDomain} :
        /\ existing # stored => PdFault
        /\ existing = stored => PdWorks
        /\ save' = [pc |-> IF ~(d # NoDomain \/ existing # NoDomain) THEN "store"
                           ELSE IF d = NoDomain THEN "remove" ELSE "plain",
                    domain |-> d, configured |-> (d # NoDomain \/ existing # NoDomain),
                    available |-> available, enabled |-> enabled]
    BY <1>1 DEF UpdateGeneral
  <2>1. Typed'
    BY <1>a, <1>1 DEF UpdateGeneral, PdFiles, PdUrls, PdHost, Typed, Saves
  <2>2. Progress'
    BY <1>a, <1>1 DEF UpdateGeneral, PdFiles, PdUrls, PdHost, Progress, Agree, AcceptsDomain,
       Typed
  <2>3. pdFailures' \in 0..MaxPdFailures
    BY <1>a, Counted
  <2> QED BY <2>1, <2>2, <2>3
<1>0. ASSUME NEW d \in Asked, UpdateSetting(d)
      PROVE  Typed' /\ Progress' /\ pdFailures' \in 0..MaxPdFailures
  <2>1. Typed' /\ Progress'
    BY <1>a, <1>0 DEF UpdateSetting, PdFiles, PdHost, Typed, Progress, Agree, Loaded
  <2>2. pdFailures' \in 0..MaxPdFailures
    BY <1>a, <1>0, Counted DEF UpdateSetting
  <2> QED BY <2>1, <2>2
<1>2. ASSUME NEW d \in Asked, d # NoDomain, PlatformTakes(d)
      PROVE  Typed' /\ Progress' /\ pdFailures' \in 0..MaxPdFailures
  <2>1. Typed' /\ Progress'
    BY <1>a, <1>2 DEF PlatformTakes, PdFiles, PdUrls, Typed, Asked, Progress, Agree, Loaded
  <2>2. pdFailures' \in 0..MaxPdFailures
    BY <1>a, <1>2, Counted DEF PlatformTakes
  <2> QED BY <2>1, <2>2
<1>3. CASE WritePlain
  <2>1. /\ save.pc = "plain"
        /\ UNCHANGED <<stored, urlLive, urlFile, issued, owned, sick>>
        /\ \/ /\ available' = [domain |-> save.domain, tls |-> FALSE] /\ enabled' = TRUE
              /\ Went("cert") /\ UNCHANGED unclean
           \/ /\ available' = IF available = NoConfig
                            THEN [domain |-> save.domain, tls |-> FALSE] ELSE available
              /\ enabled' = TRUE /\ PdEnded(available # NoConfig /\ enabled)
           \/ UNCHANGED <<available, enabled>> /\ PdEnded(TRUE)
           \/ /\ available' \in {[domain |-> save.domain, tls |-> FALSE], available}
              /\ enabled' \in {enabled, TRUE} /\ PdEnded(FALSE)
    BY <1>a, <1>3, GoesOn, Ends, NoSaveIsOne DEF WritePlain, LinkMade, TakenBack, PdFiles,
       PdUrls, PdHost, Typed
  <2>2. Typed'
    BY <1>a, <2>1, Configs, SaveParts, NoSaveIsOne DEF Typed, Went, PdEnded, Progress
  <2>3. Progress'
    BY <1>a, <2>1, PdAssumption DEF Typed, Went, PdEnded, Progress, Agree, Loaded
  <2>4. pdFailures' \in 0..MaxPdFailures
    BY <1>a, <1>3, Counted DEF WritePlain
  <2> QED BY <2>2, <2>3, <2>4
<1>4. CASE IssuePanelCertificate
  <2>1. /\ save.pc = "cert" /\ UNCHANGED <<stored, urlLive, urlFile>> /\ UNCHANGED <<owned, sick>>
        /\ \/ /\ issued' = issued \cup {save.domain} /\ UNCHANGED <<available, enabled, unclean>>
              /\ Went("tls")
           \/ UNCHANGED issued /\ Restored(available, TRUE)
    BY <1>a, <1>4, GoesOn, Restoring DEF IssuePanelCertificate, PdFiles, PdUrls, Typed
  <2>2. Typed'
    BY <1>a, <2>1, Configs, SaveParts, NoSaveIsOne DEF Typed, Went, Restored, PdEnded, Progress
  <2>3. Progress'
    BY <1>a, <2>1, PdAssumption DEF Typed, Went, Restored, PdEnded, Progress, Agree, Loaded
  <2>4. pdFailures' \in 0..MaxPdFailures
    BY <1>a, <1>4, Counted, Restoring DEF IssuePanelCertificate, Typed
  <2> QED BY <2>2, <2>3, <2>4
<1>5. CASE WriteTls
  <2>1. /\ save.pc = "tls"
        /\ UNCHANGED <<stored, urlLive, urlFile, issued, owned, sick>>
        /\ \/ /\ available' = [domain |-> save.domain, tls |-> TRUE] /\ enabled' = TRUE
              /\ Went("url") /\ UNCHANGED unclean
           \/ Restored([domain |-> save.domain, tls |-> TRUE], TRUE)
    BY <1>a, <1>5, GoesOn, Restoring DEF WriteTls, LinkMade, PdUrls, PdHost, Typed
  <2>2. Typed'
    BY <1>a, <2>1, Configs, SaveParts, NoSaveIsOne DEF Typed, Went, Restored, PdEnded, Progress
  <2>3. Progress'
    BY <1>a, <2>1, PdAssumption DEF Typed, Went, Restored, PdEnded, Progress, Agree, Loaded
  <2>4. pdFailures' \in 0..MaxPdFailures
    BY <1>a, <1>5, Counted, Restoring DEF WriteTls, Typed
  <2> QED BY <2>2, <2>3, <2>4
<1>6. CASE Remove
  <2>1. /\ save.pc = "remove"
        /\ UNCHANGED <<stored, urlLive, urlFile, issued, owned, sick>>
        /\ \/ available' = NoConfig /\ enabled' = FALSE /\ Went("url") /\ UNCHANGED unclean
           \/ /\ available' \in {available, NoConfig} /\ enabled' \in {enabled, FALSE}
              /\ PdEnded(FALSE)
    BY <1>a, <1>6, GoesOn, Ends, NoSaveIsOne DEF Remove, PdUrls, PdHost, Typed
  <2>2. Typed'
    BY <1>a, <2>1, Configs, SaveParts, NoSaveIsOne DEF Typed, Went, PdEnded, Progress
  <2>3. Progress'
    BY <1>a, <2>1, PdAssumption DEF Typed, Went, PdEnded, Progress, Agree, Loaded
  <2>4. pdFailures' \in 0..MaxPdFailures
    BY <1>a, <1>6, Counted DEF Remove
  <2> QED BY <2>2, <2>3, <2>4
<1>7. CASE UpdateBaseURL
  <2>1. /\ save.pc = "url" /\ urlLive' = save.domain
        /\ UNCHANGED <<stored, issued, owned, sick>>
        /\ \/ urlFile' = save.domain /\ UNCHANGED <<available, enabled, unclean>> /\ Went("store")
           \/ UNCHANGED urlFile /\ UNCHANGED <<available, enabled>> /\ PdEnded(FALSE)
           \/ UNCHANGED urlFile /\ Restored(available, FALSE)
    BY <1>a, <1>7, GoesOn, Ends, Restoring DEF UpdateBaseURL, PdFiles, PdHost, Typed
  <2>2. Typed'
    BY <1>a, <2>1, Configs, SaveParts, NoSaveIsOne DEF Typed, Went, Restored, PdEnded, Progress
  <2>3. Progress'
    <3>1. CASE Went("store") /\ urlFile' = save.domain /\ UNCHANGED <<available, enabled>>
      BY <1>a, <2>1, <3>1, PdAssumption DEF Typed, Went, Progress, Loaded
    <3>2. CASE PdEnded(FALSE)
      BY <3>2 DEF PdEnded, Progress
    <3> QED BY <2>1, <3>1, <3>2 DEF Restored
  <2>4. pdFailures' \in 0..MaxPdFailures
    BY <1>a, <1>7, Counted, Restoring DEF UpdateBaseURL, Typed
  <2> QED BY <2>2, <2>3, <2>4
<1>8. CASE StoreDomain
  <2>1. /\ save.pc = "store"
        /\ UNCHANGED <<urlLive, urlFile, available, enabled, issued, owned, sick>>
        /\ \/ /\ stored' = save.domain /\ save' = NoSave
              /\ unclean' = (~save.configured /\ (unclean \/ stored # save.domain))
           \/ UNCHANGED stored /\ PdEnded(~save.configured)
    BY <1>a, <1>8, GoesOn, Ends, NoSaveIsOne DEF StoreDomain, PdFiles, PdHost, Saves, Typed
  <2>2. Typed'
    BY <1>a, <2>1, Configs, SaveParts, NoSaveIsOne DEF Typed, Went, PdEnded, Progress
  <2>3. Progress'
    BY <1>a, <2>1, PdAssumption, NoSaveIsOne, SaveParts DEF Typed, Went, PdEnded, Progress, Agree,
       Loaded
  <2>4. pdFailures' \in 0..MaxPdFailures
    BY <1>a, <1>8, Counted DEF StoreDomain
  <2> QED BY <2>2, <2>3, <2>4
<1>9. CASE RestartPanel
  <2>1. /\ PdEnded(FALSE)
        /\ UNCHANGED <<stored, urlFile, available, enabled, issued, owned, sick>>
        /\ urlLive' = urlFile
    BY <1>a, <1>9, GoesOn, Ends, NoSaveIsOne DEF RestartPanel, PdFiles, PdHost, Typed
  <2>2. Typed'
    BY <1>a, <2>1, Configs, SaveParts, NoSaveIsOne DEF Typed, Went, PdEnded, Progress
  <2>3. Progress'
    BY <1>a, <2>1, PdAssumption DEF Typed, Went, PdEnded, Progress, Agree, Loaded
  <2>4. pdFailures' \in 0..MaxPdFailures
    BY <1>a, <1>9, Counted DEF RestartPanel
  <2> QED BY <2>2, <2>3, <2>4
<1>10. CASE OthersBreak
  <2>1. Typed' /\ Progress'
    BY <1>a, <1>10 DEF OthersBreak, PdFiles, PdUrls, Typed, Progress, Agree, Loaded
  <2>2. pdFailures' \in 0..MaxPdFailures
    BY <1>a, <1>10, Counted DEF OthersBreak
  <2> QED BY <2>1, <2>2
<1>11. CASE UNCHANGED pdVars
  BY <1>a, <1>11 DEF pdVars, Typed, Progress, Agree, Loaded
<1> QED
  BY <1>0, <1>1, <1>2, <1>3, <1>4, <1>5, <1>6, <1>7, <1>8, <1>9, <1>10, <1>11 DEF PdNext

\* Between requests the setting, the base URL, the nginx file and the certificate of the panel
\* are of one domain, unless, since the last configuration that came to its end, a request ended
\* in a step the code does not undo, or whose undoing failed, or wrote the setting without the
\* rest of it (UpdateGeneral and Update of settings_handler.go, panel_domain_service.go).
THEOREM PanelServedAlways == PdSpec => []PanelServed
<1>1. PdInv => PanelServed
  BY DEF PdInv, Progress, Agree, PanelServed
<1> QED BY PdInitially, PdStep, <1>1, PTL DEF PdSpec

\* The settings, the files of nginx and the request that changes them keep their types
\* (UpdateGeneral, panel_domain_service.go).
THEOREM PdTyped == PdSpec => []PdTypeOK
<1>1. PdInv => PdTypeOK
  BY DEF PdInv
<1> QED BY PdInitially, PdStep, <1>1, PTL DEF PdSpec

-----------------------------------------------------------------------------
(* Users.  A request of an admin leaves that admin in place: the row it was *)
(* admitted with is there until the request ends.                           *)

NobodyAsks == \A b \in Browsers : ask[b].pc = "idle"
AcTurns == \A b, c \in Browsers : ask[b].pc # "idle" /\ ask[c].pc # "idle" => b = c

\* The row of an admin that may use the panel.
Rules(r) == r.role = "admin" /\ r.active
Safe(a) ==
  a.pc # "idle" =>
    /\ a.op \in Ops /\ a.actor \in members /\ a.target \in Accounts
    /\ a.op \in AdminOps => Rules(rows[a.actor])
    /\ a.op = "create" /\ a.pc # "read" => a.target # a.actor
    /\ a.op = "delete" => a.target # a.actor
    /\ a.op = "update" /\ a.target = a.actor => Rules(a.row)
    /\ a.op = "profile" =>
         a.target = a.actor /\ a.pc # "grant" /\ (a.pc = "save" => a.row = rows[a.actor])

AcInv == AccessTypeOK /\ AdminRemains /\ AcTurns /\ \A b \in Browsers : Safe(ask[b])

LEMMA AcInitially == AccessInit => AcInv
BY AccessAssumption DEF AccessInit, AcInv, AccessTypeOK, AdminRemains, IsActive, IsAdmin, Rules, AcTurns, Safe, Idle, NoRow,
   Row, Roles

LEMMA AcStepKeeps == ~AcOverlapping /\ AcInv /\ [AccessNext]_acVars => AcInv'
<1> SUFFICES ASSUME ~AcOverlapping, AcInv, [AccessNext]_acVars PROVE AcInv'
  OBVIOUS
<1> USE AccessAssumption DEF AcInv, AccessTypeOK
<1>t. /\ Idle \in [pc : {"idle", "read", "save", "grant"}, op : Ops \cup {"none"},
                   actor : Accounts \cup {Nobody}, target : Accounts \cup {Nobody},
                   row : Row, sites : SUBSET Sites]
      /\ Idle.pc = "idle" /\ NoRow \in Row /\ AdminRow \in Row /\ Rules(AdminRow)
  BY DEF Idle, NoRow, AdminRow, Row, Roles, Rules
<1>1. ASSUME NEW u \in Accounts, Setup(u) PROVE AcInv'
  <2>1. members = {}
    BY <1>1 DEF Setup, NeedsSetup, FirstAdmin, IsAdmin, AdminRemains, IsActive, IsAdmin, Rules, AdminRow
  <2> QED
    BY <1>1, <1>t, <2>1 DEF Setup, AddAdmin, AdminRemains, IsActive, IsAdmin, Rules, AcTurns, Safe
<1>2. ASSUME NEW b \in Browsers, NEW u \in Accounts, Login(b, u) PROVE AcInv'
  BY <1>2 DEF Login, AdminRemains, IsActive, IsAdmin, Rules, AcTurns, Safe
<1>3. ASSUME NEW b \in Browsers, Logout(b) \/ Expelled(b) \/ LookupFails(b) PROVE AcInv'
  BY <1>3 DEF Logout, Expelled, LookupFails, AcFault, AdminRemains, IsActive, IsAdmin, Rules, AcTurns, Safe
<1>4. ASSUME NEW b \in Browsers, NEW op \in Ops, NEW who \in Accounts, NEW row \in Forms,
             NEW sites \in SUBSET Sites, Ask(b, op, who, row, sites)
      PROVE AcInv'
  <2> DEFINE a == [pc |-> "read", op |-> op, actor |-> session[b], target |-> who,
                   row |-> row, sites |-> sites]
  <2>1. /\ ask' = [ask EXCEPT ![b] = a]
        /\ UNCHANGED <<members, rows, granted, session, acFailures>>
        /\ session[b] \in members /\ NobodyAsks /\ session[b] \in Accounts
    BY <1>4 DEF Ask, MayAsk, Admitted, IsActive, NobodyAsks
  <2>2. Safe(a)'
    <3>1. op \in AdminOps => Rules(rows[session[b]])
      BY <1>4, <2>1 DEF Ask, Admitted, IsActive, IsAdmin, Rules
    <3>2. /\ op = "delete" => who # session[b]
          /\ op = "update" /\ who = session[b] => Rules(row)
          /\ op = "profile" => who = session[b]
      <4>1. op = "update" /\ who = session[b] => row = AdminRow
        BY <1>4 DEF Ask, SelfKept
      <4>2. row = AdminRow => Rules(row)
        BY <1>t
      <4> QED BY <1>4, <4>1, <4>2 DEF Ask, SelfKept
    <3> QED BY <2>1, <3>1, <3>2 DEF Safe
  <2>3. AccessTypeOK'
    BY <2>1 DEF Forms
  <2>4. \A c \in Browsers : c # b => ask'[c].pc = "idle"
    BY <2>1 DEF NobodyAsks
  <2> QED BY <2>1, <2>2, <2>3, <2>4 DEF AdminRemains, IsActive, IsAdmin, Rules, AcTurns, Safe
<1>5. ASSUME NEW b \in Browsers, Read(b) \/ Save(b) \/ Grant(b) \/ AcFails(b) PROVE AcInv'
  <2>1. ask[b].pc # "idle" /\ Safe(ask[b]) /\ ask[b].target \in Accounts
    BY <1>5 DEF Read, Save, Grant, AcFails, Safe
  <2>2. \A c \in Browsers \ {b} : ask[c].pc = "idle" /\ ask'[c] = ask[c]
    BY <1>5, <2>1 DEF AcTurns, Read, Save, Grant, AcFails, ReadProfile, Answer, AcStep
  <2>3. AcTurns'
    BY <2>2 DEF AcTurns
  <2>4. CASE Read(b)
    <3>1. AccessTypeOK'
      BY <1>t, <2>1, <2>4 DEF Read, ReadProfile, Answer, AcStep
    <3>2. Safe(ask[b])'
      BY <1>t, <2>1, <2>4 DEF Read, ReadProfile, Answer, AcStep, Safe
    <3> QED BY <2>2, <2>3, <2>4, <3>1, <3>2 DEF Read, AdminRemains, IsActive, IsAdmin, Rules, Safe
  <2>5. CASE Save(b)
    <3>1. AccessTypeOK'
      <4>1. ask[b].row \in Row
        OBVIOUS
      <4>2. Inserted(ask[b].row) \in Row
        BY <4>1 DEF Inserted, Row
      <4> QED BY <1>t, <2>1, <2>5, <4>1, <4>2 DEF Save, Answer, AcStep
    <3>2. /\ ask[b].actor \in members' /\ (ask[b].op \in AdminOps => Rules(rows'[ask[b].actor]))
          /\ ask[b].op = "profile" => members' = members /\ rows' = rows
      <4>1. /\ ask[b].actor \in members /\ ask[b].actor \in Accounts
            /\ ask[b].op \in AdminOps => Rules(rows[ask[b].actor])
            /\ ask[b].pc = "save"
        BY <2>1, <2>5 DEF Safe, Save
      <4>2. CASE ask[b].op = "create"
        BY <2>1, <2>5, <4>1, <4>2 DEF Save, Safe, AdminOps
      <4>3. CASE ask[b].op = "update"
        BY <2>1, <2>5, <4>1, <4>3 DEF Save, Safe, AdminOps
      <4>4. CASE ask[b].op = "delete"
        BY <2>1, <2>5, <4>1, <4>4 DEF Save, Safe, AdminOps
      <4>5. CASE ask[b].op = "profile"
        <5>1. /\ ask[b].target = ask[b].actor /\ ask[b].row = rows[ask[b].actor]
              /\ ask[b].op \notin AdminOps
          BY <2>1, <4>1, <4>5 DEF Safe, AdminOps
        <5>2. /\ members' = members \cup {ask[b].target}
              /\ rows' = [rows EXCEPT ![ask[b].target] = ask[b].row]
          BY <2>5, <4>5 DEF Save
        <5>3. members' = members
          BY <4>1, <5>1, <5>2
        <5>4. rows' = rows
          BY <4>1, <5>1, <5>2
        <5> QED BY <4>1, <5>1, <5>3, <5>4
      <4> QED BY <2>1, <4>2, <4>3, <4>4, <4>5 DEF Safe, Ops, AdminOps
    <3>3. Safe(ask[b])'
      BY <1>t, <2>1, <2>5, <3>2 DEF Save, Answer, AcStep, Safe, Ops, AdminOps
    <3>4. AdminRemains'
      BY <2>1, <3>2 DEF AdminRemains, IsActive, IsAdmin, Rules, Safe, Ops
    <3> QED BY <2>2, <2>3, <3>1, <3>3, <3>4 DEF Safe
  <2>6. CASE Grant(b)
    <3>1. AccessTypeOK'
      BY <1>t, <2>1, <2>6 DEF Grant, Grants, Answer
    <3> QED BY <1>t, <2>2, <2>3, <2>6, <3>1 DEF Grant, Answer, AdminRemains, IsActive, IsAdmin, Rules, Safe
  <2>7. CASE AcFails(b)
    <3>1. AccessTypeOK'
      BY <1>t, <2>1, <2>7 DEF AcFails, AcFault, Answer
    <3>2. AdminRemains'
      BY <2>1, <2>7 DEF AcFails, AdminRemains, IsActive, IsAdmin, Rules, Safe, AdminOps
    <3> QED BY <1>t, <2>2, <2>3, <2>7, <3>1, <3>2 DEF AcFails, Answer, Safe
  <2> QED BY <1>5, <2>4, <2>5, <2>6, <2>7
<1>6. CASE AcRestart
  <2>1. CASE NeedsSetup /\ Bootstrap # Nobody /\ Bootstrap \notin members
    BY <1>6, <1>t, <2>1 DEF AcRestart, AcFault, AddAdmin, AdminRemains, IsActive, IsAdmin, Rules, AcTurns, Safe
  <2>2. CASE ~(NeedsSetup /\ Bootstrap # Nobody /\ Bootstrap \notin members)
    BY <1>6, <1>t, <2>2 DEF AcRestart, AcFault, AdminRemains, IsActive, IsAdmin, Rules, AcTurns, Safe
  <2> QED BY <2>1, <2>2
<1>7. CASE UNCHANGED acVars
  BY <1>7 DEF acVars, AdminRemains, IsActive, IsAdmin, Rules, AcTurns, Safe
<1> QED
  BY <1>1, <1>2, <1>3, <1>4, <1>5, <1>6, <1>7 DEF AccessNext

\* When requests take turns, a panel that has users has an active admin, whatever changes,
\* deletions, failures and restarts came before (UsersUpdate and UsersDelete,
\* settings_handler.go).
THEOREM AdminRemainsInTurns ==
  ASSUME ~AcOverlapping
  PROVE  AccessSpec => []AdminRemains
<1>2. AcInv /\ [AccessNext]_acVars => AcInv'
  BY AcStepKeeps
<1>1. AcInv => AdminRemains
  BY DEF AcInv
<1> QED BY AcInitially, <1>1, <1>2, PTL DEF AccessSpec

\* A request is about the user it was admitted with.
AskedAbout == \A b \in Browsers : ask[b].pc # "idle" => ask[b].target \in Accounts

LEMMA AcTypedStep ==
  AccessTypeOK /\ AskedAbout /\ [AccessNext]_acVars => AccessTypeOK' /\ AskedAbout'
<1> SUFFICES ASSUME AccessTypeOK, AskedAbout, [AccessNext]_acVars
             PROVE  AccessTypeOK' /\ AskedAbout'
  OBVIOUS
<1> DEFINE Asks == [pc : {"idle", "read", "save", "grant"}, op : Ops \cup {"none"},
                    actor : Accounts \cup {Nobody}, target : Accounts \cup {Nobody},
                    row : Row, sites : SUBSET Sites]
<1>a. ask \in [Browsers -> Asks] /\ rows \in [Accounts -> Row] /\ NoRow \in Row /\ AdminRow \in Row
  BY DEF AccessTypeOK, NoRow, AdminRow, Row, Roles
<1>b. Idle \in Asks /\ Idle.pc = "idle"
  BY <1>a DEF Idle
<1>c. AcFault => (acFailures \in 0..MaxAcFailures)'
  BY AccessAssumption DEF AcFault, AccessTypeOK
<1>d. \A b \in Browsers : Answer(b) => ask' \in [Browsers -> Asks] /\ AskedAbout'
  BY <1>a, <1>b DEF Answer, AskedAbout
<1>e. ASSUME NEW b \in Browsers, NEW pc \in {"read", "save", "grant"},
             ask[b].pc # "idle", AcStep(b, pc)
      PROVE  ask' \in [Browsers -> Asks] /\ AskedAbout'
  <2>1. ask' = [ask EXCEPT ![b] = [ask[b] EXCEPT !.pc = pc]]
    BY <1>e DEF AcStep
  <2>2. [ask[b] EXCEPT !.pc = pc] \in Asks /\ [ask[b] EXCEPT !.pc = pc].target = ask[b].target
    BY <1>a
  <2> QED BY <1>a, <1>e, <2>1, <2>2 DEF AskedAbout
<1>1. ASSUME NEW u \in Accounts, Setup(u) PROVE AccessTypeOK' /\ AskedAbout'
  BY <1>1, <1>a DEF Setup, AddAdmin, AccessTypeOK, AskedAbout
<1>2. ASSUME NEW b \in Browsers,
             Logout(b) \/ Expelled(b) \/ LookupFails(b) \/ \E u \in Accounts : Login(b, u)
      PROVE  AccessTypeOK' /\ AskedAbout'
  BY <1>2, <1>c DEF Logout, Expelled, LookupFails, Login, AccessTypeOK, AskedAbout
<1>3. ASSUME NEW b \in Browsers, NEW op \in Ops, NEW whom \in Accounts, NEW row \in Forms,
             NEW sites \in SUBSET Sites, Ask(b, op, whom, row, sites)
      PROVE  AccessTypeOK' /\ AskedAbout'
  <2>1. [pc |-> "read", op |-> op, actor |-> session[b], target |-> whom, row |-> row,
         sites |-> sites] \in Asks
    BY DEF AccessTypeOK, Forms
  <2>2. ask' \in [Browsers -> Asks] /\ AskedAbout'
    BY <1>3, <1>a, <2>1 DEF Ask, AskedAbout
  <2> QED BY <1>3, <2>2 DEF Ask, AccessTypeOK
<1>4. ASSUME NEW b \in Browsers, Read(b) PROVE AccessTypeOK' /\ AskedAbout'
  <2>1. ask[b].pc = "read" /\ ask[b].target \in Accounts
    BY <1>4 DEF Read, AskedAbout
  <2>2. CASE Answer(b) \/ AcStep(b, "save")
    BY <1>4, <2>1, <2>2, <1>d, <1>e DEF Read, AccessTypeOK
  <2>3. CASE ask' = [ask EXCEPT ![b].pc = "save", ![b].row = rows[ask[b].target]]
    <3>0. ask' = [ask EXCEPT ![b] = [ask[b] EXCEPT !.pc = "save", !.row = rows[ask[b].target]]]
      BY <2>3
    <3>2. /\ [ask[b] EXCEPT !.pc = "save", !.row = rows[ask[b].target]] \in Asks
          /\ [ask[b] EXCEPT !.pc = "save", !.row = rows[ask[b].target]].target = ask[b].target
      BY <1>a, <2>1
    <3>1. ask' \in [Browsers -> Asks] /\ AskedAbout'
      BY <1>a, <2>1, <3>0, <3>2 DEF AskedAbout
    <3> QED BY <1>4, <3>1 DEF Read, AccessTypeOK
  <2> QED BY <1>4, <2>2, <2>3 DEF Read, ReadProfile
<1>5. ASSUME NEW b \in Browsers, Save(b) PROVE AccessTypeOK' /\ AskedAbout'
  <2>1. ask[b].pc = "save" /\ ask[b].target \in Accounts /\ ask[b].row \in Row
    BY <1>5, <1>a DEF Save, AskedAbout
  <2>2. ask' \in [Browsers -> Asks] /\ AskedAbout'
    BY <1>5, <2>1, <1>d, <1>e DEF Save
  <2>3. members' \subseteq Accounts /\ rows' \in [Accounts -> Row]
    <3>1. Inserted(ask[b].row) \in Row
      BY <2>1 DEF Inserted, Row
    <3> QED BY <1>5, <2>1, <3>1, <1>a DEF Save, AccessTypeOK
  <2> QED BY <1>5, <2>2, <2>3 DEF Save, AccessTypeOK
<1>6. ASSUME NEW b \in Browsers, Grant(b) PROVE AccessTypeOK' /\ AskedAbout'
  <2>1. ask[b].sites \subseteq Sites
    BY <1>a
  <2>2. ask' \in [Browsers -> Asks] /\ AskedAbout'
    BY <1>6, <1>d DEF Grant
  <2> QED BY <1>6, <2>1, <2>2 DEF Grant, Grants, AccessTypeOK
<1>7. ASSUME NEW b \in Browsers, AcFails(b) PROVE AccessTypeOK' /\ AskedAbout'
  <2>1. ask' \in [Browsers -> Asks] /\ AskedAbout'
    BY <1>7, <1>d DEF AcFails
  <2>2. members' \subseteq Accounts /\ rows' \in [Accounts -> Row]
    BY <1>7, <1>a DEF AcFails, AccessTypeOK
  <2> QED BY <1>7, <1>c, <2>1, <2>2 DEF AcFails, AccessTypeOK
<1>8. CASE AcRestart
  <2>1. members' \subseteq Accounts /\ rows' \in [Accounts -> Row]
    BY <1>8, <1>a, AccessAssumption DEF AcRestart, AddAdmin, AccessTypeOK
  <2>2. ask' \in [Browsers -> Asks] /\ AskedAbout'
    BY <1>8, <1>b DEF AcRestart, AskedAbout
  <2> QED BY <1>8, <1>c, <2>1, <2>2 DEF AcRestart, AccessTypeOK
<1>9. CASE UNCHANGED acVars
  BY <1>9 DEF acVars, AccessTypeOK, AskedAbout
<1> QED BY <1>1, <1>2, <1>3, <1>4, <1>5, <1>6, <1>7, <1>8, <1>9 DEF AccessNext

\* Users, sessions and the requests of browsers keep their types, however requests overlap
\* (PanelUserService, AuthService).
THEOREM AccessTyped == AccessSpec => []AccessTypeOK
<1>1. AccessInit => AccessTypeOK /\ AskedAbout
  BY AcInitially DEF AccessInit, AcInv, AskedAbout, Idle
<1>2. AccessTypeOK /\ AskedAbout /\ [AccessNext]_acVars => (AccessTypeOK /\ AskedAbout)'
  BY AcTypedStep
<1> QED BY <1>1, <1>2, PTL DEF AccessSpec

-----------------------------------------------------------------------------
(* The runtime versions.  The version at hand is nobody's, and a step on it *)
(* leaves what the other versions run on.                                   *)

\* The version that was the default before is not needed for what follows.
RtFormed == rt \in [pc : RtSteps, version : RtVersions \cup {NoVersion}, before : {rt.before},
                    hadFpm : BOOLEAN, hadCli : BOOLEAN]
RtHeld ==
  /\ RtFormed
  /\ wrapper \in [RtVersions -> Wrappers]
  /\ rt.pc # "idle" => ~UsedBy(rt.version)
  /\ siteUses \subseteq Phps /\ siteUses \ rtTorn \subseteq fpm

RtInv == RtHeld /\ UsedVersionsWork

\* A step on the version at hand leaves the others, and what they are used for.
OnlyAtHand ==
  /\ rt.pc # "idle" /\ RtFormed' /\ wrapper' \in [RtVersions -> Wrappers]
  /\ UNCHANGED <<appUses, siteUses>> /\ rtTorn \subseteq rtTorn'
  /\ rt'.pc # "idle" => rt'.version = rt.version
  /\ \A v \in RtVersions \ {rt.version} :
       /\ wrapper'[v] = wrapper[v]
       /\ v \in asdf' <=> v \in asdf
       /\ v \in fpm' <=> v \in fpm
       /\ v \in cli' <=> v \in cli
       /\ v \in fpm \cap fpmUp => v \in fpmUp'

LEMMA AtHand ==
  ASSUME RtInv, OnlyAtHand
  PROVE  RtInv'
<1>1. ASSUME NEW v \in RtVersions \ rtTorn' PROVE /\ (v \in appUses => VerifyInstalled(v))'
                                                 /\ (v \in siteUses => v \in fpmUp)'
  <2>1. CASE v = rt.version
    BY <1>1, <2>1 DEF RtInv, RtHeld, OnlyAtHand, UsedBy
  <2>2. CASE v # rt.version
    BY <1>1, <2>2 DEF RtInv, RtHeld, OnlyAtHand, UsedVersionsWork, VerifyInstalled, WrapperExists,
       Detected
  <2> QED BY <2>1, <2>2
<1>2. (siteUses \ rtTorn)' \subseteq fpm'
  BY DEF OnlyAtHand, RtVersions, RtInv, RtHeld, UsedBy
<1>3. (rt.pc # "idle" => ~UsedBy(rt.version))' /\ RtFormed'
  BY DEF OnlyAtHand, RtInv, RtHeld, UsedBy
<1>4. wrapper' \in [RtVersions -> Wrappers] /\ siteUses' \subseteq Phps
  BY DEF OnlyAtHand, RtInv, RtHeld
<1> QED BY <1>1, <1>2, <1>3, <1>4 DEF RtInv, RtHeld, UsedVersionsWork

\* Between requests, versions come to be used, are let go, and the default changes.
LEMMA AtRest ==
  ASSUME RtInv, RtFormed', wrapper' \in [RtVersions -> Wrappers], UNCHANGED <<asdf, fpm, cli>>,
         \A v \in RtVersions : WrapperExists(v) => WrapperExists(v)' /\ wrapper'[v] \in {wrapper[v], "host"},
         \A v \in appUses' : v \in appUses \/ VerifyInstalled(v),
         siteUses' \subseteq Phps,
         \A v \in siteUses' : v \in siteUses \/ (v \in fpm /\ v \in fpmUp' \cup rtTorn'),
         fpmUp \subseteq fpmUp', rtTorn \subseteq rtTorn',
         rt'.pc # "idle" => rt'.version \notin appUses' \cup siteUses'
  PROVE  RtInv'
<1>1. ASSUME NEW v \in RtVersions \ rtTorn' PROVE /\ (v \in appUses => VerifyInstalled(v))'
                                                 /\ (v \in siteUses => v \in fpmUp)'
  <2>1. VerifyInstalled(v) => VerifyInstalled(v)'
    BY DEF VerifyInstalled, Detected, WrapperExists
  <2>2. v \in appUses' => VerifyInstalled(v)
    BY <1>1 DEF RtInv, UsedVersionsWork
  <2>3. v \in siteUses' => v \in fpmUp'
    BY <1>1 DEF RtInv, UsedVersionsWork
  <2> QED BY <2>1, <2>2, <2>3
<1>2. (siteUses \ rtTorn)' \subseteq fpm'
  BY DEF RtInv, RtHeld
<1>3. (rt.pc # "idle" => ~UsedBy(rt.version))'
  BY DEF UsedBy
<1> QED BY <1>1, <1>2, <1>3 DEF RtInv, RtHeld, UsedVersionsWork

LEMMA RuntimesInitially == RuntimesInit => RtInv
BY DEF RuntimesInit, RtInv, RtHeld, RtFormed, RtSteps, NoVersion, UsedVersionsWork, Wrappers,
   RtIdle, RtVersions

LEMMA RuntimesKeep == ~UseAnytime /\ ~Reinstalls /\ RtInv /\ [RuntimesNext]_rtVars => RtInv'
<1> SUFFICES ASSUME ~UseAnytime, ~Reinstalls, RtInv, [RuntimesNext]_rtVars PROVE RtInv'
  OBVIOUS
<1>a. wrapper \in [RtVersions -> Wrappers] /\ siteUses \subseteq Phps /\ Phps \subseteq RtVersions
  BY DEF RtInv, RtHeld, RtVersions
<1>b. RtFormed
  BY DEF RtInv, RtHeld
<1>c. /\ rt' = RtIdle => RtFormed' /\ rt'.pc = "idle"
      /\ rt' = rt => RtFormed'
      /\ \A pc \in RtSteps : Proceed(pc) => RtFormed' /\ rt'.version = rt.version
  <2>1. ASSUME rt' = RtIdle PROVE RtFormed' /\ rt'.pc = "idle"
    BY <2>1 DEF RtFormed, RtIdle, RtSteps
  <2>2. ASSUME rt' = rt PROVE RtFormed'
    BY <1>b, <2>2 DEF RtFormed
  <2>3. ASSUME NEW pc \in RtSteps, Proceed(pc) PROVE RtFormed' /\ rt'.version = rt.version
    BY <1>b, <2>3 DEF RtFormed, Proceed
  <2> QED BY <2>1, <2>2, <2>3
<1>d. OnlyAtHand => RtInv'
  BY AtHand
<1>1. ASSUME NEW v \in RtVersions, AppTakes(v) \/ AppLeaves(v) PROVE RtInv'
  <2>1. rt.pc = "idle" /\ UNCHANGED <<rtHost, siteUses, rt, rtTorn>>
        /\ \A w \in appUses' : w \in appUses \/ VerifyInstalled(w)
    BY <1>1 DEF AppTakes, AppLeaves, Quiet
  <2> QED BY <1>a, <1>b, <1>c, <2>1, AtRest
  DEF rtHost, WrapperExists, RtInv, UsedVersionsWork, RtHeld
<1>2. ASSUME NEW v \in Phps, SiteTakes(v) \/ SiteLeaves(v) PROVE RtInv'
  <2>1. /\ rt.pc = "idle" /\ UNCHANGED <<wrapper, asdf, fpm, cli, appUses, rt>>
        /\ fpmUp \subseteq fpmUp' /\ rtTorn \subseteq rtTorn'
        /\ siteUses' \subseteq Phps
        /\ \A w \in siteUses' : w \in siteUses \/ (w \in fpm /\ w \in fpmUp' \cup rtTorn')
    <3>1. CASE SiteTakes(v)
      BY <1>a, <1>2, <3>1 DEF SiteTakes, Quiet, RtWorks
    <3>2. CASE SiteLeaves(v)
      BY <1>a, <1>2, <3>2 DEF SiteLeaves, Quiet, rtHost
    <3> QED BY <1>2, <3>1, <3>2
  <2> QED BY <1>a, <1>b, <1>c, <2>1, AtRest DEF WrapperExists, RtInv, UsedVersionsWork, RtHeld
<1>3. ASSUME NEW v \in RtVersions, BeginAdd(v) PROVE RtInv'
  <2>1. /\ UNCHANGED <<asdf, fpm, cli, fpmUp, rtUses, rtTorn>>
        /\ wrapper' \in [RtVersions -> Wrappers]
        /\ \A w \in RtVersions : WrapperExists(w) =>
             WrapperExists(w)' /\ wrapper'[w] \in {wrapper[w], "host"}
        /\ rt'.version = v /\ ~UsedBy(v) /\ RtFormed'
    BY <1>a, <1>3 DEF BeginAdd, WrapperExists, Wrappers, RtFormed, RtSteps
  <2> QED BY <1>a, <1>b, <1>c, <2>1, AtRest DEF rtUses, UsedBy
<1>4. ASSUME NEW v \in RtVersions, BeginRemove(v) PROVE RtInv'
  <2>1. /\ UNCHANGED <<wrapper, asdf, fpm, cli, rtUses, rtTorn>>
        /\ fpmUp' = fpmUp \ {v} /\ rt'.version = v /\ ~UsedBy(v)
        /\ RtFormed'
    BY <1>4 DEF BeginRemove, StoppedFpm, RtIdle, RtFormed, RtSteps, NoVersion
  <2> QED BY <1>a, <2>1
  DEF rtUses, UsedBy, RtInv, RtHeld, UsedVersionsWork, VerifyInstalled, Detected, WrapperExists
<1>5. ASSUME NEW v \in RtVersions, SetDefault(v) PROVE RtInv'
  BY <1>5, <1>c DEF SetDefault, RtInv, RtHeld, UsedVersionsWork, VerifyInstalled, Detected,
     WrapperExists, UsedBy, rtUses
<1>6. CASE ImportDefault
  <2>1. /\ UNCHANGED <<asdf, fpm, cli, fpmUp, rtUses, rt, rtTorn>>
        /\ wrapper' \in [RtVersions -> Wrappers]
        /\ \A w \in RtVersions : WrapperExists(w) =>
             WrapperExists(w)' /\ wrapper'[w] \in {wrapper[w], "host"}
    BY <1>a, <1>6 DEF ImportDefault, WrapperExists, Wrappers
  <2> QED BY <1>a, <1>b, <1>c, <2>1, AtRest DEF rtUses, UsedBy, RtInv, UsedVersionsWork, RtHeld
<1>7. CASE InstallScript \/ InstallScriptFails
  <2>1. InstallScript => OnlyAtHand
    BY <1>a, <1>c DEF OnlyAtHand, rtUses, InstallScript, RtEnd, RtWorks, Wrappers, RtSteps
  <2>2. InstallScriptFails => OnlyAtHand
    BY <1>a, <1>c
    DEF OnlyAtHand, rtUses, InstallScriptFails, RtFault, Discard, RtEnd, Wrappers, RtSteps
  <2> QED BY <1>7, <1>d, <2>1, <2>2
<1>8. CASE EnsureFpm \/ EnsureCli \/ StartFpm \/ RestoreDefault \/ ImportPackage
           \/ InstallPhpFails
  <2>1. EnsureFpm \/ EnsureCli \/ StartFpm => OnlyAtHand
    BY <1>a, <1>c DEF OnlyAtHand, rtUses, EnsureFpm, EnsureCli, StartFpm, SetCli, RtWorks, RtSteps
  <2>2. RestoreDefault \/ ImportPackage => OnlyAtHand
    BY <1>a, <1>c
    DEF OnlyAtHand, rtUses, RestoreDefault, ImportPackage, RtEnd, RtWorks, Wrappers, RtSteps
  <2>3. InstallPhpFails => OnlyAtHand
    BY <1>a, <1>c DEF OnlyAtHand, rtUses, InstallPhpFails, rtHost, RtSteps
  <2> QED BY <1>8, <1>d, <2>1, <2>2, <2>3
<1>9. CASE RollbackPhp
  <2>1. /\ rt.pc # "idle" /\ UNCHANGED <<asdf, rtUses>> /\ rtTorn \subseteq rtTorn'
        /\ fpm' \in {fpm, fpm \ {rt.version}} /\ fpmUp' = fpmUp \cap fpm'
        /\ cli' \in {cli, cli \ {rt.version}}
        /\ wrapper' = [wrapper EXCEPT ![rt.version] = "none"] /\ rt' = RtIdle
    BY <1>9 DEF RollbackPhp, RtWorks, Tears, Discard, RtEnd
  <2> QED BY <1>a, <1>c, <1>d, <2>1 DEF OnlyAtHand, rtUses, Wrappers, RtSteps
<1>10. CASE RemoveScript \/ RemoveFpm \/ RemoveCli \/ RemoveDirectory \/ RemoveFails \/ RtCrash
  <2>1. RemoveScript \/ RemoveDirectory => OnlyAtHand
    BY <1>a, <1>c
    DEF OnlyAtHand, rtUses, RemoveScript, RemoveDirectory, Discard, RtEnd, RtWorks, Wrappers,
        RtSteps
  <2>2. RemoveFpm \/ RemoveCli => OnlyAtHand
    BY <1>a, <1>c DEF OnlyAtHand, rtUses, RemoveFpm, RemoveCli, SetCli, RtWorks, RtSteps
  <2>3. RemoveFails \/ RtCrash => OnlyAtHand
    BY <1>a, <1>c DEF OnlyAtHand, rtUses, RemoveFails, RtCrash, Tears, RtEnd, rtHost, RtSteps
  <2> QED BY <1>10, <1>d, <2>1, <2>2, <2>3
<1>11. CASE UNCHANGED rtVars
  BY <1>11, <1>c DEF rtVars, RtInv, RtHeld, UsedVersionsWork, VerifyInstalled, Detected,
     WrapperExists, UsedBy
<1> QED BY <1>1, <1>2, <1>3, <1>4, <1>5, <1>6, <1>7, <1>8, <1>9, <1>10, <1>11
     DEF RuntimesNext

\* When platforms change between the requests of the settings page, and a version in use is
\* not installed again, what a platform runs on is there, for any versions and failures
\* (RuntimeVersionAdd, RuntimeVersionRemove, runtimeVersionUsage).
THEOREM UsedVersionsWorkInTurns ==
  ASSUME ~UseAnytime, ~Reinstalls
  PROVE  RuntimesSpec => []UsedVersionsWork
<1>1. RtInv => UsedVersionsWork
  BY DEF RtInv
<1> QED BY <1>1, RuntimesInitially, RuntimesKeep, PTL DEF RuntimesSpec

-----------------------------------------------------------------------------
(* The types of the runtimes.  The host chooses the PHP it runs among its   *)
(* packages, and a default that comes back is one of them.                  *)

\* A request at a script's version takes the steps of one, and at a PHP version those of one.
ScriptSteps == {"asdf", "clear", "write", "remove"}
PhpSteps == {"fpm", "cli", "unit", "restore", "import", "rollback", "rmfpm", "rmcli", "rmdir"}
\* The default PHP is one of the host: the link is to a version that is there, and a version
\* that goes is not behind it.
PhpDefault ==
  /\ IsFiniteSet(cli)
  /\ links \in [{"script", "php"} -> RtVersions \cup {NoVersion}]
  /\ Linked("php") => links["php"] \in cli
  /\ rt.pc \in {"rmfpm", "rmcli", "rmdir"} /\ Linked("php") => links["php"] # rt.version
  /\ rt.pc \in {"fpm", "cli", "unit", "restore"} => rt.before \in cli \cup {NoVersion}
\* How far a request has come says which packages are there.
PhpAtHand ==
  /\ rt.pc \in ScriptSteps => rt.version \in Scripts
  /\ rt.pc \in PhpSteps => rt.version \in Phps
  /\ rt.pc \in {"cli", "unit"} => rt.version \in fpm
  /\ rt.pc \in {"unit", "restore", "import"} => rt.version \in cli
  /\ rt.pc \in {"rmfpm", "rmcli"} => rt.version \notin fpmUp
RtTypes == RuntimesTypeOK /\ PhpDefault /\ PhpAtHand

LEMMA ChosenIs ==
  ASSUME NEW packages \in SUBSET Phps, IsFiniteSet(packages),
         NEW choice \in [version : RtVersions \cup {NoVersion}, manual : BOOLEAN]
  PROVE  Chosen(packages, choice) \in [version : packages \cup {NoVersion}, manual : BOOLEAN]
<1>1. CASE packages = {}
  BY <1>1 DEF Chosen
<1>2. CASE packages # {}
  <2>1. Max(packages) \in packages
    <3>1. PICK x \in packages : \A m \in packages : m <= x
      BY <1>2, RuntimesAssumption, GreatestIs
    <3>2. \A m \in packages : x >= m
      BY <3>1, RuntimesAssumption
    <3> QED BY <3>2 DEF Max
  <2> QED BY <2>1 DEF Chosen
<1> QED BY <1>1, <1>2

\* What the host runs by default without a link, or with one, is a version of its packages.
LEMMA DefaultIs ==
  ASSUME RtTypes
  PROVE  DefaultOf("php") \in cli \cup {NoVersion}
BY DEF RtTypes, RuntimesTypeOK, PhpDefault, DefaultOf, HostDefault

\* The failures of a step, and how a request goes on or ends.
LEMMA RtTold ==
  ASSUME RtTypes
  PROVE  /\ RtFault => rtFailures' \in 0..MaxRtFailures
         /\ Tears /\ rt.version \in RtVersions => rtTorn' \subseteq RtVersions
         /\ RtWorks => rtFailures' \in 0..MaxRtFailures /\ rtTorn' \subseteq RtVersions
         /\ \A pc \in RtSteps : Proceed(pc) =>
              /\ rt' \in [pc : {pc}, version : {rt.version}, before : {rt.before},
                          hadFpm : BOOLEAN, hadCli : BOOLEAN]
              /\ rt.before \in Phps \cup {NoVersion} /\ rt.version \in RtVersions \cup {NoVersion}
         /\ RtEnd => rt' = RtIdle /\ rt'.pc = "idle"
<1>1. RtFault => rtFailures' \in 0..MaxRtFailures
  BY RuntimesAssumption DEF RtTypes, RuntimesTypeOK, RtFault
<1>2. /\ Tears /\ rt.version \in RtVersions => rtTorn' \subseteq RtVersions
      /\ RtWorks => rtFailures' \in 0..MaxRtFailures /\ rtTorn' \subseteq RtVersions
  BY DEF RtTypes, RuntimesTypeOK, Tears, RtWorks
<1>3. ASSUME NEW pc \in RtSteps, Proceed(pc)
      PROVE  /\ rt' \in [pc : {pc}, version : {rt.version}, before : {rt.before},
                          hadFpm : BOOLEAN, hadCli : BOOLEAN]
             /\ rt.before \in Phps \cup {NoVersion} /\ rt.version \in RtVersions \cup {NoVersion}
  BY <1>3 DEF RtTypes, RuntimesTypeOK, Proceed
<1>4. RtEnd => rt' = RtIdle /\ rt'.pc = "idle"
  BY DEF RtEnd, RtIdle
<1> QED BY <1>1, <1>2, <1>3, <1>4

LEMMA RtTypesInitially == RuntimesInit => RtTypes
<1> SUFFICES ASSUME RuntimesInit PROVE RtTypes
  OBVIOUS
<1>1. cli \subseteq Phps /\ IsFiniteSet(cli)
  BY FS_EmptySet, FS_Singleton DEF RuntimesInit
<1>2. alternatives \in [version : cli \cup {NoVersion}, manual : BOOLEAN]
  BY <1>1, ChosenIs DEF RuntimesInit
<1>3. RuntimesTypeOK
  BY <1>1, <1>2, RuntimesAssumption
  DEF RuntimesInit, RuntimesTypeOK, Wrappers, RtIdle, RtSteps, NoVersion, RtVersions
<1>4. PhpDefault
  BY <1>1 DEF RuntimesInit, PhpDefault, Linked, RtIdle, NoVersion
<1>5. PhpAtHand
  BY DEF RuntimesInit, PhpAtHand, RtIdle, ScriptSteps, PhpSteps
<1> QED BY <1>3, <1>4, <1>5 DEF RtTypes

LEMMA RtTypesStep == ~UseAnytime /\ RtTypes /\ [RuntimesNext]_rtVars => RtTypes'
<1> SUFFICES ASSUME ~UseAnytime, RtTypes, [RuntimesNext]_rtVars PROVE RtTypes'
  OBVIOUS
<1> USE RuntimesAssumption
<1>a. /\ Scripts \subseteq RtVersions /\ Phps \subseteq RtVersions
      /\ \A v \in RtVersions : v # NoVersion /\ (v \in Phps <=> v \notin Scripts)
  BY DEF RtVersions, NoVersion
<1>b. /\ RtEnd => rt' = RtIdle /\ rt'.pc = "idle"
      /\ RtFault => rtFailures' \in 0..MaxRtFailures
      /\ Tears /\ rt.version \in RtVersions => rtTorn' \subseteq RtVersions
      /\ RtWorks => rtFailures' \in 0..MaxRtFailures /\ rtTorn' \subseteq RtVersions
  BY RtTold
<1>c. ASSUME NEW pc \in RtSteps, Proceed(pc)
      PROVE  /\ rt' \in [pc : RtSteps, version : RtVersions \cup {NoVersion},
                         before : Phps \cup {NoVersion}, hadFpm : BOOLEAN, hadCli : BOOLEAN]
             /\ rt'.pc = pc /\ rt'.version = rt.version /\ rt'.before = rt.before
  <2>1. /\ rt' \in [pc : {pc}, version : {rt.version}, before : {rt.before},
                    hadFpm : BOOLEAN, hadCli : BOOLEAN]
        /\ rt.before \in Phps \cup {NoVersion} /\ rt.version \in RtVersions \cup {NoVersion}
    BY <1>c, RtTold
  <2> QED BY <2>1
<1>d. RtIdle \in [pc : RtSteps, version : RtVersions \cup {NoVersion},
                  before : Phps \cup {NoVersion}, hadFpm : BOOLEAN, hadCli : BOOLEAN]
  BY DEF RtIdle, RtSteps
<1>1. ASSUME NEW v \in RtVersions, AppTakes(v) \/ AppLeaves(v) PROVE RtTypes'
  <2>1. /\ UNCHANGED <<rtHost, siteUses, rt, rtFailures, rtTorn>>
        /\ appUses' \subseteq RtVersions
    BY <1>1 DEF AppTakes, AppLeaves, RtTypes, RuntimesTypeOK
  <2> QED BY <2>1
  DEF rtHost, RtTypes, RuntimesTypeOK, PhpDefault, PhpAtHand, Linked, WrapperExists
<1>2. ASSUME NEW v \in Phps, SiteTakes(v) \/ SiteLeaves(v) PROVE RtTypes'
  <2>1. /\ UNCHANGED <<wrapper, imported, asdf, fpm, cli, alternatives, links, appUses, rt>>
        /\ rt.pc = "idle" /\ fpmUp' \subseteq fpm /\ siteUses' \subseteq Phps
        /\ rtFailures' \in 0..MaxRtFailures /\ rtTorn' \subseteq RtVersions
    <3>1. CASE SiteTakes(v)
      BY <1>a, <1>b, <1>2, <3>1 DEF SiteTakes, Quiet, RtTypes, RuntimesTypeOK
    <3>2. CASE SiteLeaves(v)
      BY <1>2, <3>2 DEF SiteLeaves, Quiet, rtHost, RtTypes, RuntimesTypeOK
    <3> QED BY <1>2, <3>1, <3>2
  <2> QED BY <2>1
  DEF RtTypes, RuntimesTypeOK, PhpDefault, PhpAtHand, Linked, WrapperExists, PhpSteps, ScriptSteps
<1>3. ASSUME NEW v \in RtVersions, BeginAdd(v) PROVE RtTypes'
  <2>1. /\ UNCHANGED <<imported, asdf, fpm, cli, fpmUp, alternatives, links, appUses, siteUses,
                       rtFailures, rtTorn>>
        /\ wrapper' \in [RtVersions -> Wrappers]
        /\ \A w \in Phps : wrapper'[w] = wrapper[w]
    BY <1>a, <1>3 DEF BeginAdd, RtTypes, RuntimesTypeOK, Wrappers, rtUses
  <2>2. /\ rt' \in [pc : RtSteps, version : RtVersions \cup {NoVersion},
                    before : Phps \cup {NoVersion}, hadFpm : BOOLEAN, hadCli : BOOLEAN]
        /\ rt'.pc = (IF v \in Phps THEN "fpm" ELSE "asdf") /\ rt'.version = v
        /\ rt'.before \in cli \cup {NoVersion}
    <3>1. rt' = [pc |-> IF v \in Phps THEN "fpm" ELSE "asdf", version |-> v,
                 before |-> DefaultOf("php"), hadFpm |-> v \in fpm, hadCli |-> v \in cli]
      BY <1>3 DEF BeginAdd
    <3>2. DefaultOf("php") \in cli \cup {NoVersion} /\ cli \subseteq Phps
      BY DefaultIs DEF RtTypes, RuntimesTypeOK
    <3>3. (v \in fpm) \in BOOLEAN /\ (v \in cli) \in BOOLEAN
      OBVIOUS
    <3> QED BY <3>1, <3>2, <3>3 DEF RtSteps
  <2>3. RuntimesTypeOK'
    BY <2>1, <2>2 DEF RtTypes, RuntimesTypeOK
  <2>4. PhpDefault'
    BY <2>1, <2>2 DEF RtTypes, RuntimesTypeOK, PhpDefault, Linked, WrapperExists
  <2>5. PhpAtHand'
    BY <1>a, <2>1, <2>2 DEF PhpAtHand, PhpSteps, ScriptSteps
  <2> QED BY <2>3, <2>4, <2>5 DEF RtTypes
<1>4. ASSUME NEW v \in RtVersions, BeginRemove(v) PROVE RtTypes'
  <2>1. /\ UNCHANGED <<wrapper, imported, asdf, fpm, cli, alternatives, links, appUses, siteUses,
                       rtFailures, rtTorn>>
        /\ fpmUp' = fpmUp \ {v} /\ rt.pc = "idle"
        /\ rt'.pc = (IF v \in Phps THEN "rmfpm" ELSE "remove") /\ rt'.version = v
        /\ rt' \in [pc : RtSteps, version : RtVersions \cup {NoVersion},
                    before : Phps \cup {NoVersion}, hadFpm : BOOLEAN, hadCli : BOOLEAN]
    BY <1>4 DEF BeginRemove, rtUses, StoppedFpm, RtIdle, RtSteps
  <2>2. v \in Phps /\ Linked("php") => links["php"] # v
    BY <1>4 DEF BeginRemove, IsSystemDefault, Kind
  <2>3. RuntimesTypeOK'
    BY <2>1 DEF RtTypes, RuntimesTypeOK
  <2>4. PhpDefault'
    BY <2>1, <2>2 DEF RtTypes, RuntimesTypeOK, PhpDefault, Linked, WrapperExists
  <2>5. PhpAtHand'
    BY <1>a, <2>1 DEF PhpAtHand, PhpSteps, ScriptSteps
  <2> QED BY <2>3, <2>4, <2>5 DEF RtTypes
<1>5. ASSUME NEW v \in RtVersions, SetDefault(v) PROVE RtTypes'
  <2>1. /\ UNCHANGED <<wrapper, imported, asdf, fpm, cli, fpmUp, alternatives, appUses, siteUses,
                       rt, rtTorn>>
        /\ rt.pc = "idle" /\ rtFailures' \in 0..MaxRtFailures
        /\ links' \in {[links EXCEPT ![Kind(v)] = v], [links EXCEPT ![Kind(v)] = NoVersion]}
        /\ v \in Phps => v \in cli
    BY <1>b, <1>5
    DEF SetDefault, rtUses, VerifyInstalled, Detected, RtTypes, RuntimesTypeOK
  <2>2. /\ links' \in [{"script", "php"} -> RtVersions \cup {NoVersion}]
        /\ links'["script"] \in Scripts \cup {NoVersion}
        /\ links'["php"] \in Phps \cup {NoVersion}
        /\ links'["php"] = links["php"] \/ links'["php"] \in cli \cup {NoVersion}
    BY <1>a, <2>1 DEF RtTypes, RuntimesTypeOK, PhpDefault, Kind
  <2> QED BY <2>1, <2>2
  DEF RtTypes, RuntimesTypeOK, PhpDefault, PhpAtHand, Linked, WrapperExists, PhpSteps, ScriptSteps
<1>6. CASE ImportDefault
  <2>1. /\ UNCHANGED <<asdf, fpm, cli, fpmUp, alternatives, links, appUses, siteUses, rt,
                       rtFailures, rtTorn>>
        /\ wrapper' \in [RtVersions -> Wrappers] /\ imported' \subseteq Scripts
        /\ \A w \in Phps : wrapper'[w] = wrapper[w]
    BY <1>a, <1>6 DEF ImportDefault, RtTypes, RuntimesTypeOK, Wrappers, rtUses
  <2>2. RuntimesTypeOK'
    BY <2>1 DEF RtTypes, RuntimesTypeOK
  <2>3. PhpDefault'
    BY <2>1 DEF RtTypes, RuntimesTypeOK, PhpDefault, Linked, WrapperExists
  <2>4. PhpAtHand'
    BY <2>1 DEF RtTypes, PhpAtHand
  <2> QED BY <2>2, <2>3, <2>4 DEF RtTypes
<1>7. CASE InstallScript \/ InstallScriptFails \/ RemoveScript
  <2>1. /\ UNCHANGED <<fpm, cli, fpmUp, alternatives, links, appUses, siteUses, rtTorn>>
        /\ rtFailures' \in 0..MaxRtFailures /\ rt.pc \in ScriptSteps
        /\ asdf' \subseteq Scripts /\ imported' \subseteq Scripts
        /\ wrapper' \in [RtVersions -> Wrappers]
        /\ \A w \in Phps : wrapper'[w] = wrapper[w]
        /\ rt' = RtIdle \/ Proceed("clear") \/ Proceed("write")
    <3>1. rt.pc \in ScriptSteps => rt.version \in Scripts /\ rt.version \in RtVersions
      BY <1>a DEF RtTypes, PhpAtHand
    <3>2. CASE InstallScript
      <4>1. /\ UNCHANGED <<imported, fpm, cli, fpmUp, alternatives, links, appUses, siteUses,
                            rtFailures, rtTorn>>
            /\ rt.pc \in ScriptSteps /\ asdf' \in {asdf, asdf \cup {rt.version}}
            /\ rt' = RtIdle \/ Proceed("clear") \/ Proceed("write")
            /\ \/ wrapper' = wrapper
               \/ \E w \in {"bare", "managed"} : wrapper' = [wrapper EXCEPT ![rt.version] = w]
        BY <3>2 DEF InstallScript, rtUses, RtWorks, RtEnd, ScriptSteps
      <4> QED BY <1>a, <3>1, <4>1 DEF RtTypes, RuntimesTypeOK, Wrappers
    <3>3. CASE InstallScriptFails
      BY <1>a, <1>b, <3>1, <3>3
      DEF InstallScriptFails, Discard, RtTypes, RuntimesTypeOK, Wrappers, rtUses, ScriptSteps
    <3>4. CASE RemoveScript
      BY <1>a, <1>b, <3>1, <3>4
      DEF RemoveScript, Discard, RtTypes, RuntimesTypeOK, Wrappers, rtUses, RtWorks, ScriptSteps
    <3> QED BY <1>7, <3>2, <3>3, <3>4
  <2>2. /\ rt' \in [pc : RtSteps, version : RtVersions \cup {NoVersion},
                    before : Phps \cup {NoVersion}, hadFpm : BOOLEAN, hadCli : BOOLEAN]
        /\ rt'.pc = "idle" \/ (rt'.pc \in {"clear", "write"} /\ rt'.version = rt.version)
    BY <1>c, <1>d, <2>1 DEF RtIdle, RtSteps
  <2> QED BY <2>1, <2>2
  DEF RtTypes, RuntimesTypeOK, PhpDefault, PhpAtHand, Linked, WrapperExists, PhpSteps, ScriptSteps
<1>8. CASE EnsureFpm \/ EnsureCli \/ StartFpm \/ RestoreDefault \/ InstallPhpFails
  <2>1. /\ UNCHANGED <<wrapper, imported, asdf, links, appUses, siteUses>>
        /\ rtFailures' \in 0..MaxRtFailures /\ rtTorn' \subseteq RtVersions
    BY <1>8, <1>b
    DEF EnsureFpm, EnsureCli, StartFpm, RestoreDefault, InstallPhpFails, rtHost, rtUses, RtTypes,
        RuntimesTypeOK
  <2>2. CASE EnsureFpm
    <3>1. /\ rt.pc = "fpm" /\ fpm' = fpm \cup {rt.version} /\ UNCHANGED <<cli, fpmUp, alternatives>>
          /\ Proceed("cli")
      BY <2>2 DEF EnsureFpm
    <3>2. /\ rt' \in [pc : RtSteps, version : RtVersions \cup {NoVersion},
                      before : Phps \cup {NoVersion}, hadFpm : BOOLEAN, hadCli : BOOLEAN]
          /\ rt'.pc = "cli" /\ rt'.version = rt.version /\ rt'.before = rt.before
      BY <1>c, <3>1 DEF RtSteps
    <3> QED BY <2>1, <3>1, <3>2
    DEF RtTypes, RuntimesTypeOK, PhpDefault, PhpAtHand, Linked, WrapperExists, PhpSteps,
        ScriptSteps
  <2>3. CASE EnsureCli
    <3>1. /\ rt.pc = "cli" /\ cli' = cli \cup {rt.version} /\ UNCHANGED <<fpm, fpmUp>>
          /\ alternatives' = Chosen(cli', alternatives) /\ Proceed("unit")
      BY <2>3 DEF EnsureCli, SetCli
    <3>2. /\ rt' \in [pc : RtSteps, version : RtVersions \cup {NoVersion},
                      before : Phps \cup {NoVersion}, hadFpm : BOOLEAN, hadCli : BOOLEAN]
          /\ rt'.pc = "unit" /\ rt'.version = rt.version /\ rt'.before = rt.before
      BY <1>c, <3>1 DEF RtSteps
    <3>3. cli' \subseteq Phps /\ IsFiniteSet(cli')
      BY <3>1, FS_AddElement DEF RtTypes, RuntimesTypeOK, PhpDefault, PhpAtHand, PhpSteps
    <3>4. alternatives' \in [version : cli' \cup {NoVersion}, manual : BOOLEAN]
      <4>1. alternatives \in [version : RtVersions \cup {NoVersion}, manual : BOOLEAN]
        BY <1>a DEF RtTypes, RuntimesTypeOK
      <4> QED BY <3>1, <3>3, <4>1, ChosenIs
    <3> QED BY <2>1, <3>1, <3>2, <3>3, <3>4
    DEF RtTypes, RuntimesTypeOK, PhpDefault, PhpAtHand, Linked, WrapperExists, PhpSteps,
        ScriptSteps
  <2>4. CASE StartFpm
    <3>1. /\ rt.pc = "unit" /\ fpmUp' = fpmUp \cup {rt.version} /\ UNCHANGED <<cli, fpm, alternatives>>
          /\ Proceed("restore")
      BY <2>4 DEF StartFpm
    <3>2. /\ rt' \in [pc : RtSteps, version : RtVersions \cup {NoVersion},
                      before : Phps \cup {NoVersion}, hadFpm : BOOLEAN, hadCli : BOOLEAN]
          /\ rt'.pc = "restore" /\ rt'.version = rt.version /\ rt'.before = rt.before
      BY <1>c, <3>1 DEF RtSteps
    <3> QED BY <2>1, <3>1, <3>2
    DEF RtTypes, RuntimesTypeOK, PhpDefault, PhpAtHand, Linked, WrapperExists, PhpSteps,
        ScriptSteps
  <2>5. CASE RestoreDefault
    <3>1. /\ rt.pc = "restore" /\ UNCHANGED <<cli, fpm, fpmUp>> /\ Proceed("import")
          /\ alternatives' = RestoredChoice
      BY <2>5 DEF RestoreDefault
    <3>2. /\ rt' \in [pc : RtSteps, version : RtVersions \cup {NoVersion},
                      before : Phps \cup {NoVersion}, hadFpm : BOOLEAN, hadCli : BOOLEAN]
          /\ rt'.pc = "import" /\ rt'.version = rt.version
      BY <1>c, <3>1 DEF RtSteps
    <3>3. alternatives' \in [version : cli \cup {NoVersion}, manual : BOOLEAN]
      BY <3>1 DEF RestoredChoice, RtTypes, RuntimesTypeOK, PhpDefault
    <3> QED BY <2>1, <3>1, <3>2, <3>3
    DEF RtTypes, RuntimesTypeOK, PhpDefault, PhpAtHand, Linked, WrapperExists, PhpSteps,
        ScriptSteps
  <2>6. CASE InstallPhpFails
    <3>1. /\ rt.pc \in {"fpm", "cli", "unit", "restore", "import"} /\ Proceed("rollback")
          /\ UNCHANGED <<cli, fpm, fpmUp, alternatives>>
      BY <2>6 DEF InstallPhpFails, rtHost
    <3>2. /\ rt' \in [pc : RtSteps, version : RtVersions \cup {NoVersion},
                      before : Phps \cup {NoVersion}, hadFpm : BOOLEAN, hadCli : BOOLEAN]
          /\ rt'.pc = "rollback" /\ rt'.version = rt.version
      BY <1>c, <3>1 DEF RtSteps
    <3> QED BY <2>1, <3>1, <3>2
    DEF RtTypes, RuntimesTypeOK, PhpDefault, PhpAtHand, Linked, WrapperExists, PhpSteps,
        ScriptSteps
  <2> QED BY <1>8, <2>2, <2>3, <2>4, <2>5, <2>6
<1>9. CASE ImportPackage
  <2>1. /\ UNCHANGED <<asdf, fpm, cli, fpmUp, alternatives, links, appUses, siteUses>>
        /\ rtFailures' \in 0..MaxRtFailures /\ rtTorn' \subseteq RtVersions
        /\ rt.pc = "import" /\ rt' = RtIdle /\ rt'.pc = "idle"
        /\ wrapper' = [wrapper EXCEPT ![rt.version] = "managed"] /\ imported' \subseteq Scripts
    BY <1>9, <1>b DEF ImportPackage, rtUses, RtTypes, RuntimesTypeOK
  <2>2. wrapper' \in [RtVersions -> Wrappers]
    BY <2>1 DEF RtTypes, RuntimesTypeOK, Wrappers
  <2>3. RuntimesTypeOK'
    BY <1>d, <2>1, <2>2 DEF RtTypes, RuntimesTypeOK
  <2>4. PhpDefault'
    BY <1>a, <2>1
    DEF RtTypes, RuntimesTypeOK, PhpDefault, Linked, WrapperExists, PhpAtHand, PhpSteps
  <2>5. PhpAtHand'
    BY <2>1 DEF PhpAtHand, PhpSteps, ScriptSteps
  <2> QED BY <2>3, <2>4, <2>5 DEF RtTypes
<1>10. CASE RollbackPhp
  <2>1. /\ UNCHANGED <<asdf, links, appUses, siteUses>>
        /\ rt.pc = "rollback" /\ rt' = RtIdle /\ rt'.pc = "idle"
        /\ fpm' \subseteq fpm /\ fpmUp' \subseteq fpm'
        /\ cli' \in {cli, cli \ {rt.version}} /\ alternatives' = Chosen(cli', alternatives)
        /\ wrapper' = [wrapper EXCEPT ![rt.version] = "none"] /\ imported' \subseteq Scripts
    BY <1>10, <1>b DEF RollbackPhp, rtUses, Discard, RtTypes, RuntimesTypeOK
  <2>2. rt.version \in Phps /\ rt.version \in RtVersions
    BY <1>a, <2>1 DEF RtTypes, PhpAtHand, PhpSteps
  <2>3. rtFailures' \in 0..MaxRtFailures /\ rtTorn' \subseteq RtVersions
    BY <1>10, <1>b, <2>2 DEF RollbackPhp
  <2>4. cli' \subseteq Phps /\ IsFiniteSet(cli')
    BY <2>1, FS_RemoveElement DEF RtTypes, RuntimesTypeOK, PhpDefault
  <2>5. alternatives' \in [version : cli' \cup {NoVersion}, manual : BOOLEAN]
    <3>1. alternatives \in [version : RtVersions \cup {NoVersion}, manual : BOOLEAN]
      BY <1>a DEF RtTypes, RuntimesTypeOK
    <3> QED BY <2>1, <2>4, <3>1, ChosenIs
  <2>6. wrapper' \in [RtVersions -> Wrappers]
    BY <2>1 DEF RtTypes, RuntimesTypeOK, Wrappers
  <2>7. RuntimesTypeOK'
    BY <1>d, <2>1, <2>3, <2>4, <2>5, <2>6 DEF RtTypes, RuntimesTypeOK
  <2>8. PhpDefault'
    BY <1>a, <2>1, <2>2, <2>4 DEF RtTypes, RuntimesTypeOK, PhpDefault, Linked, WrapperExists
  <2>9. PhpAtHand'
    BY <2>1 DEF PhpAtHand, PhpSteps, ScriptSteps
  <2> QED BY <2>7, <2>8, <2>9 DEF RtTypes
<1>11. CASE RemoveFpm
  <2>1. /\ UNCHANGED <<wrapper, imported, asdf, cli, fpmUp, alternatives, links, appUses, siteUses>>
        /\ rtFailures' \in 0..MaxRtFailures /\ rtTorn' \subseteq RtVersions
        /\ rt.pc = "rmfpm" /\ fpm' = fpm \ {rt.version} /\ Proceed("rmcli")
    BY <1>11, <1>b DEF RemoveFpm, rtUses
  <2>2. /\ rt' \in [pc : RtSteps, version : RtVersions \cup {NoVersion},
                    before : Phps \cup {NoVersion}, hadFpm : BOOLEAN, hadCli : BOOLEAN]
        /\ rt'.pc = "rmcli" /\ rt'.version = rt.version
    BY <1>c, <2>1 DEF RtSteps
  <2> QED BY <2>1, <2>2
  DEF RtTypes, RuntimesTypeOK, PhpDefault, PhpAtHand, Linked, WrapperExists, PhpSteps, ScriptSteps
<1>12. CASE RemoveCli
  <2>1. /\ UNCHANGED <<wrapper, imported, asdf, fpm, fpmUp, links, appUses, siteUses>>
        /\ rtFailures' \in 0..MaxRtFailures /\ rtTorn' \subseteq RtVersions
        /\ rt.pc = "rmcli" /\ cli' = cli \ {rt.version}
        /\ alternatives' = Chosen(cli', alternatives) /\ Proceed("rmdir")
    BY <1>12, <1>b DEF RemoveCli, SetCli, rtUses
  <2>2. /\ rt' \in [pc : RtSteps, version : RtVersions \cup {NoVersion},
                    before : Phps \cup {NoVersion}, hadFpm : BOOLEAN, hadCli : BOOLEAN]
        /\ rt'.pc = "rmdir" /\ rt'.version = rt.version
    BY <1>c, <2>1 DEF RtSteps
  <2>3. cli' \subseteq Phps /\ IsFiniteSet(cli')
    BY <2>1, FS_RemoveElement DEF RtTypes, RuntimesTypeOK, PhpDefault
  <2>4. alternatives' \in [version : cli' \cup {NoVersion}, manual : BOOLEAN]
    <3>1. alternatives \in [version : RtVersions \cup {NoVersion}, manual : BOOLEAN]
      BY <1>a DEF RtTypes, RuntimesTypeOK
    <3> QED BY <2>1, <2>3, <3>1, ChosenIs
  <2> QED BY <2>1, <2>2, <2>3, <2>4
  DEF RtTypes, RuntimesTypeOK, PhpDefault, PhpAtHand, Linked, WrapperExists, PhpSteps, ScriptSteps
<1>13. CASE RemoveDirectory
  <2>1. /\ UNCHANGED <<asdf, fpm, cli, fpmUp, alternatives, links, appUses, siteUses>>
        /\ rtFailures' \in 0..MaxRtFailures /\ rtTorn' \subseteq RtVersions
        /\ rt.pc = "rmdir" /\ rt' = RtIdle /\ rt'.pc = "idle"
        /\ wrapper' = [wrapper EXCEPT ![rt.version] = "none"] /\ imported' \subseteq Scripts
    BY <1>13, <1>b DEF RemoveDirectory, Discard, rtUses, RtTypes, RuntimesTypeOK
  <2>2. wrapper' \in [RtVersions -> Wrappers]
    BY <2>1 DEF RtTypes, RuntimesTypeOK, Wrappers
  <2>3. RuntimesTypeOK'
    BY <1>d, <2>1, <2>2 DEF RtTypes, RuntimesTypeOK
  <2>4. PhpDefault'
    BY <1>a, <2>1 DEF RtTypes, RuntimesTypeOK, PhpDefault, Linked, WrapperExists
  <2>5. PhpAtHand'
    BY <2>1 DEF PhpAtHand, PhpSteps, ScriptSteps
  <2> QED BY <2>3, <2>4, <2>5 DEF RtTypes
<1>14. CASE RemoveFails \/ RtCrash
  <2>1. rt.version \in RtVersions
    <3>1. rt.pc \in ScriptSteps \cup PhpSteps
      BY <1>14 DEF RemoveFails, RtCrash, ScriptSteps, PhpSteps, RtTypes, RuntimesTypeOK, RtSteps
    <3> QED BY <1>a, <3>1 DEF RtTypes, PhpAtHand
  <2>2. /\ UNCHANGED <<rtHost, appUses, siteUses>> /\ rt' = RtIdle /\ rt'.pc = "idle"
        /\ rtFailures' \in 0..MaxRtFailures /\ rtTorn' \subseteq RtVersions
    BY <1>14, <1>b, <2>1 DEF RemoveFails, RtCrash, rtUses
  <2> QED BY <1>d, <2>2
  DEF rtHost, RtTypes, RuntimesTypeOK, PhpDefault, PhpAtHand, Linked, WrapperExists, PhpSteps,
      ScriptSteps
<1>15. CASE UNCHANGED rtVars
  BY <1>15 DEF rtVars, RtTypes, RuntimesTypeOK, PhpDefault, PhpAtHand, Linked, WrapperExists
<1> QED BY <1>1, <1>2, <1>3, <1>4, <1>5, <1>6, <1>7, <1>8, <1>9, <1>10, <1>11, <1>12, <1>13, <1>14,
           <1>15
     DEF RuntimesNext

\* When platforms change between the requests of the settings page, the runtimes of the host
\* stay of their types: the units run packages that are installed, and the PHP that the host
\* chooses, or that restorePHPDefault brings back, is one of its packages, for any versions.
THEOREM RuntimesTyped ==
  ASSUME ~UseAnytime
  PROVE  RuntimesSpec => []RuntimesTypeOK
<1>1. RtTypes => RuntimesTypeOK
  BY DEF RtTypes
<1> QED BY <1>1, RtTypesInitially, RtTypesStep, PTL DEF RuntimesSpec

-----------------------------------------------------------------------------
(* The update of the panel by itself.  What an updater does to the host     *)
(* says what it has to keep, and what it keeps brings the old release back. *)

Whole ==
  /\ core.files = core.binary /\ core.database # Lost /\ core.database >= core.binary
  /\ panel.state = "up" => panel.version = core.binary

Undoable(w) ==
  /\ w.old # Lost
  /\ IF w.snapshot THEN w.database >= w.old /\ w.database # Lost
     ELSE core.binary = w.old /\ core.database # Lost /\ core.database >= w.old

\* An updater has a release to come to, and one to go back to.
Aims(w) ==
  w.pc # "off" =>
    w.target # Lost /\ (w.pc \in ReadyAfter \cup DOMAIN NextUndo => w.old # Lost)
Aimed ==
  /\ install # "free" => latest # Lost
  /\ \A u \in Updaters : Aims(updater[u])

UpTurns ==
  /\ updater["job"].pc = "off" \/ updater["hand"].pc = "off"
  /\ install # "free" => updater["hand"].pc = "off"

\* What the host is while an updater is at each step.
Reached(w) ==
  /\ w.pc \in ReadyAfter \cup DOMAIN NextUndo => Undoable(w)
  /\ w.pc \in {"begin", "download", "prepare", "stop", "snapshot",
               "verify", "success", "failed"} =>
       Whole
  /\ w.pc \in {"stop", "snapshot"} => core.binary = w.old
  /\ w.pc \in {"begin", "download", "prepare", "stop", "snapshot"} => ~w.snapshot
  /\ w.pc \in {"binary", "files", "migrate", "start", "verify"} => w.snapshot
  /\ w.pc = "binary" => core.files = w.old /\ core.binary = w.old
  /\ w.pc \in {"files", "migrate", "start"} => core.binary = w.target
  /\ w.pc \in {"migrate", "start"} => core.files = w.target
  /\ w.pc \in DOMAIN NextStep => core.database # Lost /\ core.binary # Lost
  /\ w.pc = "start" => core.database >= core.binary
  /\ w.pc \in DOMAIN NextUndo \ {"unstop"} => panel.state = "stopped"
  /\ w.pc \in {"undatabase", "unfiles", "unstart"} => core.binary = w.old
  /\ w.pc \in {"unfiles", "unstart"} => core.database >= w.old /\ core.database # Lost
  /\ w.pc = "unstart" => core.files = w.old

UpInv ==
  /\ SelfUpdateTypeOK /\ Aimed /\ UpTurns
  /\ ended # "torn" => (Resting => Whole) /\ \A u \in Updaters : Reached(updater[u])

UpStates == [pc : UpSteps, target : Releases \cup {Lost}, old : Releases \cup {Lost},
             snapshot : BOOLEAN, database : Releases \cup {Lost}, wasUp : BOOLEAN]

\* The steps, one by one.
LEMMA UpStepFacts ==
  /\ DOMAIN NextStep = {"begin", "download", "prepare", "stop", "snapshot", "binary", "files",
                        "migrate", "start", "verify"}
  /\ DOMAIN NextUndo = {"unstop", "unbinary", "undatabase", "unfiles", "unstart"}
  /\ UpSteps = DOMAIN NextStep \cup DOMAIN NextUndo \cup {"off", "success", "failed"}
  /\ NextStep.begin = "download" /\ NextStep.download = "prepare" /\ NextStep.prepare = "stop"
  /\ NextStep.stop = "snapshot" /\ NextStep.snapshot = "binary" /\ NextStep.binary = "files"
  /\ NextStep.files = "migrate" /\ NextStep.migrate = "start" /\ NextStep.start = "verify"
  /\ NextStep.verify = "success"
  /\ NextUndo.unstop = "unbinary" /\ NextUndo.unbinary = "undatabase"
  /\ NextUndo.undatabase = "unfiles" /\ NextUndo.unfiles = "unstart"
  /\ NextUndo.unstart = "failed"
BY DEF NextStep, NextUndo, UpSteps

LEMMA UpValues ==
  /\ Lost = 0 /\ 0 \notin Releases /\ 1 \in Releases /\ Releases \subseteq Nat
  /\ Updaters = {"job", "hand"} /\ Off \in UpStates /\ Off.pc = "off"
BY SelfUpdateAssumption, UpStepFacts DEF Lost, Releases, Updaters, Off, UpStates

LEMMA UpTypes ==
  ASSUME SelfUpdateTypeOK
  PROVE  /\ updater \in [Updaters -> UpStates]
         /\ core.binary \in Releases /\ core.files \in Releases \cup {0}
         /\ core.database \in Releases \cup {0}
         /\ Migrated(core.database) \in Releases \cup {0}
         /\ core.database # 0 => /\ Migrated(core.database) # 0
                                 /\ Migrated(core.database) >= core.database
                                 /\ Migrated(core.database) >= core.binary
<1>1. updater \in [Updaters -> UpStates]
  BY DEF SelfUpdateTypeOK, UpStates
<1>2. /\ core.binary \in Releases /\ core.files \in Releases \cup {0}
      /\ core.database \in Releases \cup {0}
  BY UpValues DEF SelfUpdateTypeOK
<1>3. core.binary \in Nat /\ core.database \in Nat /\ core.binary # 0
  BY <1>2, SelfUpdateAssumption DEF Releases
<1>4. Migrated(core.database) =
        IF core.database = 0 \/ core.database > core.binary THEN core.database ELSE core.binary
  BY UpValues DEF Migrated
<1> QED BY <1>1, <1>2, <1>3, <1>4

\* A step of one updater that goes on.
LEMMA UpdateGoesOn ==
  ASSUME UpInv, NEW u \in Updaters, updater[u].pc # "off", updater'[u].pc # "off",
         \A q \in Updaters \ {u} : updater'[q] = updater[q],
         SelfUpdateTypeOK', Aims(updater[u])', install' \in {install, "free"},
         latest' = latest,
         ended' # "torn" => ended # "torn" /\ Reached(updater[u])'
  PROVE  UpInv'
<1>1. \A q \in Updaters \ {u} : updater[q].pc = "off"
  BY UpValues DEF UpInv, UpTurns
<1>2. Aimed'
  BY <1>1 DEF UpInv, Aimed, Aims
<1>3. UpTurns'
  BY <1>1, UpValues DEF UpInv, UpTurns
<1>4. \A q \in Updaters \ {u} : Reached(updater[q])'
  BY <1>1, UpStepFacts DEF Reached, ReadyAfter
<1>5. ~Resting'
  BY DEF Resting
<1> QED BY <1>2, <1>3, <1>4, <1>5 DEF UpInv

\* A panel that starts reads the release that is there.
LEMMA WholeMoves ==
  ASSUME SelfUpdateTypeOK, PanelStarts \/ (panel'.state # "up" /\ UNCHANGED core), Whole
  PROVE  Whole'
<1>1. core' = [core EXCEPT !.database = Migrated(core.database)] \/ core' = core
  BY DEF PanelStarts
<1>2. /\ core'.binary = core.binary /\ core'.files = core.files
      /\ core'.database \in {core.database, Migrated(core.database)}
  BY <1>1 DEF SelfUpdateTypeOK
<1> QED BY <1>2, UpTypes, UpValues DEF Whole, PanelStarts, Panels

\* A panel that starts, stops or dies leaves the updaters what they have.
LEMMA PanelMoves ==
  ASSUME UpInv, PanelStarts \/ (panel'.state # "up" /\ UNCHANGED core), panel.state # "stopped",
         panel'.state # "stopped",
         UNCHANGED ended, NEW u \in Updaters, updater'[u] = updater[u], ended # "torn"
  PROVE  Reached(updater[u])'
<1>1. SelfUpdateTypeOK /\ Reached(updater[u])
  BY DEF UpInv
<1>2. core' = [core EXCEPT !.database = Migrated(core.database)] \/ core' = core
  BY DEF PanelStarts
<1>3. /\ core'.binary = core.binary /\ core'.files = core.files
      /\ core'.database \in {core.database, Migrated(core.database)}
  BY <1>1, <1>2 DEF SelfUpdateTypeOK
<1>4. Whole => Whole'
  BY <1>1, WholeMoves
<1>5. Undoable(updater[u]) => Undoable(updater[u])'
  BY <1>1, <1>3, UpTypes, UpValues DEF Undoable, UpStates
<1>6. core.database # 0 => core'.database # 0 /\ core'.database >= core.database
  <2>1. core.database \in Nat
    BY <1>1, UpTypes, UpValues
  <2> QED BY <1>1, <1>3, <2>1, UpTypes
<1>7. updater[u].pc \notin DOMAIN NextUndo \ {"unstop"}
  BY <1>1 DEF Reached
<1> QED BY <1>1, <1>3, <1>4, <1>5, <1>6, <1>7, UpTypes, UpValues, UpStepFacts
        DEF Reached, UpStates

LEMMA SelfUpdateInitially == SelfUpdateInit => UpInv
BY UpValues, UpStepFacts, SelfUpdateAssumption DEF SelfUpdateInit, UpInv, SelfUpdateTypeOK, Aimed,
   Aims, UpTurns, Whole, Reached, ReadyAfter, Panels, JobStates, UpStates

LEMMA SelfUpdateTyped ==
  ASSUME SelfUpdateTypeOK, Aimed, SelfUpdateNext
  PROVE  SelfUpdateTypeOK'
<1>a. SelfUpdateTypeOK /\ Aimed /\ updater \in [Updaters -> UpStates]
  BY UpTypes
<1>b. Migrated(core.database) \in Releases \cup {0} /\ Lost = 0
  BY <1>a, UpTypes, UpValues
<1>c. \A u \in Updaters, pc \in UpSteps :
        [updater EXCEPT ![u].pc = pc] \in [Updaters -> UpStates]
  BY <1>a DEF UpStates
<1>d. [state |-> "up", version |-> core.binary] \in
         [state : {"up", "down", "stopped"}, version : Releases \cup {Lost}]
  BY <1>a, UpTypes
<1>1. CASE Publish \/ CheckNow \/ InstallRefused \/ LaunchReturns \/ Expire
  BY <1>1, <1>a, SelfUpdateAssumption
  DEF Publish, CheckNow, InstallRefused, LaunchReturns, Expire,
     upVars, SelfUpdateTypeOK, Releases, JobStates
<1>2. CASE StartInstall
  BY <1>2, <1>a DEF StartInstall, SelfUpdateTypeOK, JobStates
<1>3. CASE Launch
  <2>1. [Off EXCEPT !.pc = "begin", !.target = latest] \in UpStates
    BY <1>a, UpValues, UpStepFacts DEF SelfUpdateTypeOK, UpStates
  <2>2. updater' \in [Updaters -> UpStates]
    BY <1>3, <1>a, <2>1 DEF Launch
  <2> QED BY <1>3, <1>a, <2>2, SelfUpdateAssumption
          DEF Launch, SelfUpdateTypeOK, JobStates, UpFault,
     UpWorks, UpStates
<1>4. CASE StartByHand
  <2>1. [Off EXCEPT !.pc = "download", !.target = published] \in UpStates
    BY <1>a, UpValues, UpStepFacts DEF SelfUpdateTypeOK, UpStates
  <2>2. updater' \in [Updaters -> UpStates]
    BY <1>4, <1>a, <2>1 DEF StartByHand
  <2> QED BY <1>4, <1>a, <2>2 DEF StartByHand, SelfUpdateTypeOK, UpStates
<1>5. CASE PanelCrash
  <2>1. [Off EXCEPT !.pc = "begin", !.target = latest] \in UpStates
    BY <1>a, UpValues, UpStepFacts DEF SelfUpdateTypeOK, UpStates
  <2>2. updater' \in [Updaters -> UpStates]
    BY <1>5, <1>a, <2>1 DEF PanelCrash
  <2> QED BY <1>5, <1>a, <2>2, SelfUpdateAssumption
          DEF PanelCrash, SelfUpdateTypeOK, UpFault, Panels,
     UpStates
<1>6. CASE PanelRestarts \/ StartPanel
  BY <1>6, <1>a, <1>b, <1>d DEF PanelRestarts, StartPanel, PanelStarts, SelfUpdateTypeOK, Panels
<1>7. ASSUME NEW u \in Updaters, Killed(u) PROVE SelfUpdateTypeOK'
  <2>1. updater' \in [Updaters -> UpStates]
    BY <1>7, <1>a, UpValues DEF Killed
  <2> QED BY <1>7, <1>a, <2>1, SelfUpdateAssumption DEF Killed, SelfUpdateTypeOK, Panels, UpStates
<1>8. ASSUME NEW u \in Updaters, UpdateStep(u) PROVE SelfUpdateTypeOK'
  <2> DEFINE pc == updater[u].pc
             next == NextStep[pc]
  <2>1. pc \in DOMAIN NextStep /\ next \in UpSteps /\ updater[u] \in UpStates
    BY <1>8, <1>a, UpStepFacts DEF UpdateStep
  <2>2. /\ updater[u].target \in Releases
        /\ [updater EXCEPT ![u] = [updater[u] EXCEPT !.pc = next]] \in [Updaters -> UpStates]
    BY <1>a, <2>1, UpStepFacts DEF UpStates, Aimed, Aims
  <2>3. \A b, k \in BOOLEAN, o, d \in Releases \cup {0} :
          /\ [updater EXCEPT ![u] = [[updater[u] EXCEPT !.old = o, !.wasUp = b] EXCEPT !.pc = next]]
               \in [Updaters -> UpStates]
          /\ [updater EXCEPT ![u] =
                [[updater[u] EXCEPT !.snapshot = k, !.database = d] EXCEPT !.pc = next]]
               \in [Updaters -> UpStates]
    BY <1>a, <1>b, <2>1 DEF UpStates
  <2>4. /\ updater' \in [Updaters -> UpStates] /\ job' \in JobStates
        /\ install' \in {"free", "launch", "wait"}
        /\ panel' \in [state : {"up", "down", "stopped"}, version : Releases \cup {Lost}]
        /\ core' \in [binary : Releases, files : Releases \cup {Lost},
                      database : Releases \cup {Lost}]
    <3>1. CASE pc \in {"begin", "download", "verify"}
      BY <1>8, <1>a, <2>1, <2>2, <3>1 DEF UpdateStep, Done, SelfUpdateTypeOK, JobStates
    <3>2. CASE pc = "prepare"
      <4>1. core.binary \in Releases \cup {0} /\ (panel.state = "up") \in BOOLEAN
        BY <1>a, UpTypes
      <4>2. /\ updater' = [updater EXCEPT ![u] =
                  [[updater[u] EXCEPT !.old = core.binary, !.wasUp = panel.state = "up"]
                     EXCEPT !.pc = next]]
            /\ UNCHANGED <<job, panel, core, install>>
        BY <1>8, <3>2 DEF UpdateStep, Done
      <4>3. updater' \in [Updaters -> UpStates]
        <5>1. PICK b \in BOOLEAN : b = (panel.state = "up")
          BY <4>1
        <5> QED BY <2>3, <4>1, <4>2, <5>1
      <4> QED BY <1>a, <4>2, <4>3 DEF SelfUpdateTypeOK
    <3>3. CASE pc \in {"stop", "start"}
      BY <1>8, <1>a, <1>b, <1>d, <2>1, <2>2, <3>3 DEF UpdateStep, Done, SelfUpdateTypeOK, Panels,
         PanelStarts
    <3>4. CASE pc = "snapshot"
      <4>1. core.database \in Releases \cup {0}
        BY <1>a, UpTypes
      <4>2. /\ updater' = [updater EXCEPT ![u] =
                  [[updater[u] EXCEPT !.snapshot = TRUE, !.database = core.database]
                     EXCEPT !.pc = next]]
            /\ UNCHANGED <<job, panel, core, install>>
        BY <1>8, <3>4 DEF UpdateStep, Done
      <4>3. updater' \in [Updaters -> UpStates]
        BY <2>3, <4>1, <4>2
      <4> QED BY <1>a, <4>2, <4>3 DEF SelfUpdateTypeOK
    <3>5. CASE pc \in {"binary", "files", "migrate"}
      BY <1>8, <1>a, <1>b, <2>1, <2>2, <3>5 DEF UpdateStep, Done, SelfUpdateTypeOK
    <3> QED BY <2>1, <3>1, <3>2, <3>3, <3>4, <3>5, UpStepFacts
  <2> QED BY <1>8, <1>a, <2>4 DEF UpdateStep, SelfUpdateTypeOK, UpStates
<1>9. ASSUME NEW u \in Updaters, UpdateStepFails(u) PROVE SelfUpdateTypeOK'
  <2> DEFINE pc == updater[u].pc
             undo == [updater EXCEPT ![u].pc = IF pc \in ReadyAfter THEN "unstop" ELSE "failed"]
  <2>1. undo \in [Updaters -> UpStates] /\ pc \in DOMAIN NextStep
    BY <1>9, <1>a, <1>c, UpStepFacts DEF UpdateStepFails
  <2>a. \A f \in [Updaters -> UpStates] :
          [f EXCEPT ![u].snapshot = TRUE, ![u].database = Lost] \in [Updaters -> UpStates]
    BY DEF UpStates
  <2>2. [undo EXCEPT ![u].snapshot = TRUE, ![u].database = Lost] \in [Updaters -> UpStates]
    BY <2>1, <2>a
  <2>3. updater' \in [Updaters -> UpStates]
    BY <1>9, <2>1, <2>2 DEF UpdateStepFails
  <2>4. /\ panel' \in [state : {"up", "down", "stopped"}, version : Releases \cup {Lost}]
        /\ core' \in [binary : Releases, files : Releases \cup {Lost},
                      database : Releases \cup {Lost}]
    BY <1>9, <1>a, <1>b, <2>1 DEF UpdateStepFails, SelfUpdateTypeOK, Panels
  <2>5. upFailures' \in 0..MaxUpFailures /\ snapshotFails' \in 0..MaxSnapshotFails
    BY <1>9, <1>a, SelfUpdateAssumption DEF UpdateStepFails, SelfUpdateTypeOK, UpFault, UpWorks
  <2> QED BY <1>9, <1>a, <2>3, <2>4, <2>5 DEF UpdateStepFails, SelfUpdateTypeOK, UpStates
<1>10. ASSUME NEW u \in Updaters, Undo(u) PROVE SelfUpdateTypeOK'
  <2>1. /\ updater[u].pc \in DOMAIN NextUndo /\ updater[u] \in UpStates
        /\ NextUndo[updater[u].pc] \in UpSteps
    BY <1>10, <1>a, UpStepFacts DEF Undo
  <2>2. /\ updater' \in [Updaters -> UpStates]
        /\ updater[u].old \in Releases /\ updater[u].database \in Releases \cup {0}
    <3>1. updater' \in [Updaters -> UpStates]
      BY <1>10, <1>c, <2>1 DEF Undo, StepTo
    <3>2. updater[u].old # Lost
      BY <1>a, <2>1, UpStepFacts DEF Aimed, Aims
    <3> QED BY <2>1, <3>1, <3>2, UpValues DEF UpStates
  <2>3. /\ panel' \in [state : {"up", "down", "stopped"}, version : Releases \cup {Lost}]
        /\ core' \in [binary : Releases, files : Releases \cup {Lost},
                      database : Releases \cup {Lost}]
        /\ install' \in {"free", "launch", "wait"}
    <3>1. CASE updater[u].pc = "unstop"
      BY <1>10, <1>a, <3>1 DEF Undo, SelfUpdateTypeOK, Panels
    <3>4. CASE updater[u].pc = "unstart"
      <4>1. install' = install /\ (PanelStarts \/ UNCHANGED <<panel, core>>)
        BY <1>10, <3>4 DEF Undo
      <4> QED BY <1>a, <1>b, <1>d, <4>1 DEF SelfUpdateTypeOK, Panels, PanelStarts
    <3>2. CASE updater[u].pc \in {"unbinary", "unfiles"}
      BY <1>10, <1>a, <1>b, <2>2, <3>2 DEF Undo, SelfUpdateTypeOK
    <3>3. CASE updater[u].pc = "undatabase"
      BY <1>10, <1>a, <1>b, <2>2, <3>3 DEF Undo, SelfUpdateTypeOK
    <3> QED BY <2>1, <3>1, <3>2, <3>3, <3>4, UpStepFacts
  <2>4. ended' \in {"well", "stopped", "torn"}
    BY <1>10, <1>a DEF Undo, SelfUpdateTypeOK
  <2> QED BY <1>10, <1>a, <2>2, <2>3, <2>4 DEF Undo, SelfUpdateTypeOK, UpStates
<1>11. ASSUME NEW u \in Updaters, UndoFails(u) PROVE SelfUpdateTypeOK'
  <2>1. updater' \in [Updaters -> UpStates]
    BY <1>11, <1>a, <1>c, UpStepFacts DEF UndoFails, StepTo
  <2> QED BY <1>11, <1>a, <2>1, SelfUpdateAssumption
          DEF UndoFails, SelfUpdateTypeOK, UpFault, UpStates
<1>12. ASSUME NEW u \in Updaters, Report(u) PROVE SelfUpdateTypeOK'
  <2>1. updater' \in [Updaters -> UpStates]
    BY <1>12, <1>a, UpValues DEF Report
  <2> QED BY <1>12, <1>a, <2>1 DEF Report, SelfUpdateTypeOK, UpStates, JobStates
<1> QED BY <1>1, <1>2, <1>3, <1>4, <1>5, <1>6, <1>7, <1>8, <1>9, <1>10, <1>11, <1>12
        DEF SelfUpdateNext, UpdaterStep

\* A step of the update leaves what an updater needs to go on or to go back.
LEMMA UpdateKept ==
  ASSUME UpInv, SelfUpdateTypeOK', NEW u \in Updaters, UpdateStep(u)
  PROVE  UpInv'
<1> DEFINE w == updater[u]
           pc == updater[u].pc
<1>1. /\ SelfUpdateTypeOK /\ updater \in [Updaters -> UpStates] /\ w \in UpStates
      /\ pc \in DOMAIN NextStep /\ Done(u, pc) /\ UNCHANGED <<latest, ended>>
      /\ Aims(w) /\ updater[u].target # Lost /\ (ended # "torn" => Reached(w))
  BY UpTypes, UpStepFacts DEF UpInv, UpdateStep, Aimed, Aims
<1>2. /\ core.binary \in Nat /\ core.database \in Nat /\ core.binary # 0
      /\ core.database # 0 => /\ Migrated(core.database) # 0
                              /\ Migrated(core.database) >= core.database
                              /\ Migrated(core.database) >= core.binary
      /\ Migrated(core.database) \in Nat /\ Lost = 0
  BY <1>1, UpTypes, UpValues, SelfUpdateAssumption DEF Releases
<1>3. \A s : /\ [updater EXCEPT ![u] = s][u] = s
             /\ \A q \in Updaters \ {u} : [updater EXCEPT ![u] = s][q] = updater[q]
  BY <1>1
<1>4. pc \notin {"prepare", "snapshot"} =>
        updater' = [updater EXCEPT ![u] = [w EXCEPT !.pc = NextStep[pc]]]
  BY <1>1, UpStepFacts DEF Done
<1>5. /\ updater'[u].pc = NextStep[pc] /\ updater'[u].target = w.target
      /\ \A q \in Updaters \ {u} : updater'[q] = updater[q]
      /\ pc # "snapshot" => updater'[u].snapshot = w.snapshot /\ updater'[u].database = w.database
      /\ pc = "snapshot" => updater'[u].snapshot /\ updater'[u].database = core.database
      /\ pc # "prepare" => updater'[u].old = w.old
      /\ pc = "prepare" => updater'[u].old = core.binary
  <2>1. CASE pc = "prepare"
    <3> DEFINE s == [[w EXCEPT !.old = core.binary, !.wasUp = panel.state = "up"]
                       EXCEPT !.pc = NextStep[pc]]
    <3>1. updater' = [updater EXCEPT ![u] = s]
      BY <1>1, <2>1 DEF Done
    <3>2. /\ s.pc = NextStep[pc] /\ s.target = w.target /\ s.old = core.binary
          /\ s.snapshot = w.snapshot /\ s.database = w.database
      BY <1>1 DEF UpStates
    <3>3. updater'[u] = s /\ \A q \in Updaters \ {u} : updater'[q] = updater[q]
      BY <1>3, <3>1
    <3> HIDE DEF s
    <3> QED BY <2>1, <3>2, <3>3
  <2>2. CASE pc = "snapshot"
    <3> DEFINE s == [[w EXCEPT !.snapshot = TRUE, !.database = core.database]
                       EXCEPT !.pc = NextStep[pc]]
    <3>1. updater' = [updater EXCEPT ![u] = s]
      BY <1>1, <2>2 DEF Done
    <3>2. /\ s.pc = NextStep[pc] /\ s.target = w.target /\ s.old = w.old
          /\ s.snapshot = TRUE /\ s.database = core.database
      BY <1>1 DEF UpStates
    <3>3. updater'[u] = s /\ \A q \in Updaters \ {u} : updater'[q] = updater[q]
      BY <1>3, <3>1
    <3> HIDE DEF s
    <3> QED BY <2>2, <3>2, <3>3
  <2>3. CASE pc \notin {"prepare", "snapshot"}
    <3>1. updater' = [updater EXCEPT ![u] = [w EXCEPT !.pc = NextStep[pc]]]
      BY <1>1, <1>4, <2>3, UpStepFacts
    <3> QED BY <1>1, <1>3, <2>3, <3>1 DEF UpStates
  <2> QED BY <2>1, <2>2, <2>3
<1>6. /\ pc \in {"begin", "download", "prepare", "snapshot", "verify"} =>
         UNCHANGED <<panel, core>>
      /\ pc = "stop" => core' = core /\ (panel' = panel \/ panel'.state = "stopped")
      /\ pc = "binary" => core' = [core EXCEPT !.binary = w.target]
      /\ pc = "files" => core' = [core EXCEPT !.files = w.target]
      /\ pc = "migrate" => core' = [core EXCEPT !.database = Migrated(core.database)]
      /\ pc = "start" => PanelStarts
      /\ install' \in {install, "free"}
  BY <1>1 DEF Done, Panels
<1>7. /\ pc = "binary" => core'.binary = w.target /\ UNCHANGED <<core.files, core.database>>
      /\ pc = "files" => core'.files = w.target /\ UNCHANGED <<core.binary, core.database>>
      /\ pc \in {"migrate", "start"} => /\ core'.database = Migrated(core.database)
                                       /\ UNCHANGED <<core.binary, core.files>>
      /\ pc = "start" => panel'.version = core.binary
  BY <1>1, <1>6 DEF SelfUpdateTypeOK, PanelStarts, Panels
<1>8. updater'[u].pc # "off" /\ Aims(updater[u])'
  BY <1>1, <1>2, <1>5, UpStepFacts DEF Aims, ReadyAfter
<1>9. ASSUME ended # "torn" PROVE Reached(updater[u])'
  <2>1. Reached(w) /\ w.old \in Nat /\ w.database \in Nat
    BY <1>1, <1>9, UpValues, SelfUpdateAssumption DEF UpStates, Releases
  <2>2. CASE pc \in {"begin", "download"}
    BY <1>2, <1>5, <1>6, <2>1, <2>2, UpStepFacts DEF Reached, Whole, ReadyAfter
  <2>3. CASE pc = "prepare"
    BY <1>2, <1>5, <1>6, <2>1, <2>3, UpStepFacts DEF Reached, Whole, Undoable, ReadyAfter
  <2>4. CASE pc = "stop"
    BY <1>2, <1>5, <1>6, <2>1, <2>4, UpStepFacts DEF Reached, Whole, Undoable, ReadyAfter
  <2>5. CASE pc = "snapshot"
    BY <1>2, <1>5, <1>6, <2>1, <2>5, UpStepFacts DEF Reached, Whole, Undoable, ReadyAfter
  <2>6. CASE pc \in {"binary", "files"}
    BY <1>1, <1>2, <1>5, <1>6, <1>7, <2>1, <2>6, UpStepFacts DEF Reached, Undoable, ReadyAfter
  <2>7. CASE pc \in {"migrate", "start"}
    BY <1>1, <1>2, <1>5, <1>6, <1>7, <2>1, <2>7, UpStepFacts
    DEF Reached, Whole, Undoable, ReadyAfter
  <2>8. CASE pc = "verify"
    BY <1>5, <1>6, <2>1, <2>8, UpStepFacts DEF Reached, Whole, ReadyAfter
  <2> QED BY <1>1, <2>2, <2>3, <2>4, <2>5, <2>6, <2>7, <2>8, UpStepFacts
<1> QED BY <1>1, <1>5, <1>6, <1>8, <1>9, UpStepFacts, UpdateGoesOn

\* A step that fails is taken back, or changed nothing.
LEMMA FailureKept ==
  ASSUME UpInv, SelfUpdateTypeOK', MaxSnapshotFails = 0, NEW u \in Updaters, UpdateStepFails(u)
  PROVE  UpInv'
<1> DEFINE w == updater[u]
           pc == updater[u].pc
<1>1. /\ SelfUpdateTypeOK /\ updater \in [Updaters -> UpStates] /\ w \in UpStates
      /\ pc \in DOMAIN NextStep /\ UNCHANGED <<latest, ended, install>>
      /\ Aims(w) /\ updater[u].target # Lost /\ (ended # "torn" => Reached(w))
  BY UpTypes, UpStepFacts DEF UpInv, UpdateStepFails, Aimed, Aims
<1>2. pc # "snapshot"
  BY <1>1 DEF UpdateStepFails, SelfUpdateTypeOK
<1>3. updater' = [updater EXCEPT ![u].pc = IF pc \in ReadyAfter THEN "unstop" ELSE "failed"]
  BY <1>2 DEF UpdateStepFails
<1>4. /\ updater'[u] = [w EXCEPT !.pc = IF pc \in ReadyAfter THEN "unstop" ELSE "failed"]
      /\ \A q \in Updaters \ {u} : updater'[q] = updater[q]
  BY <1>1, <1>3
<1>5. /\ updater'[u].pc = IF pc \in ReadyAfter THEN "unstop" ELSE "failed"
      /\ updater'[u].target = w.target /\ updater'[u].old = w.old
      /\ updater'[u].snapshot = w.snapshot /\ updater'[u].database = w.database
  BY <1>1, <1>4 DEF UpStates
<1>6. updater'[u].pc # "off" /\ Aims(updater[u])'
  BY <1>1, <1>5, UpStepFacts DEF Aims, ReadyAfter
<1>7. ASSUME ended # "torn" PROVE Reached(updater[u])'
  <2>1. CASE pc \in ReadyAfter
    <3>1. Undoable(w)
      BY <1>1, <1>7, <2>1 DEF Reached
    <3>2. CASE w.snapshot
      <4>1. Undoable(updater[u])'
        BY <1>5, <3>1, <3>2 DEF Undoable
      <4> QED BY <1>5, <2>1, <4>1, UpStepFacts DEF Reached, ReadyAfter
    <3>3. CASE ~w.snapshot
      <4>1. pc = "stop"
        BY <1>1, <1>2, <1>7, <2>1, <3>3 DEF Reached, ReadyAfter
      <4>2. UNCHANGED core
        BY <4>1 DEF UpdateStepFails
      <4>3. Undoable(updater[u])'
        BY <1>5, <3>1, <4>2 DEF Undoable
      <4> QED BY <1>5, <2>1, <4>3, UpStepFacts DEF Reached, ReadyAfter
    <3> QED BY <3>2, <3>3
  <2>2. CASE pc \notin ReadyAfter
    <3>1. pc \in {"begin", "download", "prepare"}
      BY <1>1, <2>2, UpStepFacts DEF ReadyAfter
    <3>2. UNCHANGED <<core, panel>>
      BY <3>1 DEF UpdateStepFails
    <3>3. Whole'
      BY <1>1, <1>7, <3>1, <3>2 DEF Reached, Whole
    <3> QED BY <1>5, <2>2, <3>3, UpStepFacts DEF Reached, ReadyAfter
  <2> QED BY <2>1, <2>2
<1> QED BY <1>1, <1>4, <1>6, <1>7, UpStepFacts, UpdateGoesOn

\* What is taken back is of the old release.
LEMMA UndoKept ==
  ASSUME UpInv, SelfUpdateTypeOK', NEW u \in Updaters, Undo(u)
  PROVE  UpInv'
<1> DEFINE w == updater[u]
           pc == updater[u].pc
<1>1. /\ SelfUpdateTypeOK /\ updater \in [Updaters -> UpStates] /\ w \in UpStates
      /\ pc \in DOMAIN NextUndo /\ UNCHANGED latest
      /\ updater' = [updater EXCEPT ![u].pc = NextUndo[pc]]
      /\ Aims(w) /\ updater[u].target # Lost /\ (ended # "torn" => Reached(w))
      /\ (ended = "torn" => ended' = "torn")
  BY UpTypes, UpStepFacts DEF UpInv, Undo, StepTo, Aimed, Aims
<1>2. /\ updater'[u].pc = NextUndo[pc]
      /\ updater'[u].target = w.target /\ updater'[u].old = w.old
      /\ updater'[u].snapshot = w.snapshot /\ updater'[u].database = w.database
      /\ \A q \in Updaters \ {u} : updater'[q] = updater[q]
  BY <1>1 DEF UpStates
<1>3. /\ pc = "unstop" => panel'.state = "stopped" /\ UNCHANGED core
      /\ pc = "unbinary" => panel' = panel /\ core' = [core EXCEPT !.binary = w.old]
      /\ pc = "undatabase" =>
           panel' = panel /\
           core' = [core EXCEPT !.database = IF w.snapshot THEN w.database ELSE core.database]
      /\ pc = "unfiles" => panel' = panel /\ core' = [core EXCEPT !.files = w.old]
      /\ pc = "unstart" => PanelStarts \/ UNCHANGED <<panel, core>>
      /\ install' \in {install, "free"}
  <2>1. CASE pc = "unstop"
    BY <2>1 DEF Undo, Panels
  <2>2. CASE pc \in {"unbinary", "unfiles"}
    BY <2>2 DEF Undo
  <2>3. CASE pc = "undatabase"
    BY <2>3 DEF Undo
  <2>4. CASE pc = "unstart"
    BY <2>4 DEF Undo
  <2> QED BY <1>1, <2>1, <2>2, <2>3, <2>4, UpStepFacts
<1>4. /\ pc = "unbinary" => core'.binary = w.old /\ UNCHANGED <<core.files, core.database>>
      /\ pc = "undatabase" =>
           /\ core'.database = IF w.snapshot THEN w.database ELSE core.database
           /\ UNCHANGED <<core.binary, core.files>>
      /\ pc = "unfiles" => core'.files = w.old /\ UNCHANGED <<core.binary, core.database>>
  BY <1>1, <1>3 DEF SelfUpdateTypeOK
<1>5. updater'[u].pc # "off" /\ Aims(updater[u])'
  BY <1>1, <1>2, UpStepFacts DEF Aims
<1>6. ASSUME ended # "torn" PROVE Reached(updater[u])'
  <2>1. Reached(w) /\ Undoable(w)
    BY <1>1, <1>6 DEF Reached
  <2>2. CASE pc = "unstop"
    BY <1>2, <1>3, <2>1, <2>2, UpStepFacts DEF Reached, Undoable, ReadyAfter
  <2>3. CASE pc \in {"unbinary", "undatabase", "unfiles"}
    BY <1>2, <1>3, <1>4, <2>1, <2>3, UpStepFacts DEF Reached, Undoable, ReadyAfter
  <2>4. CASE pc = "unstart"
    <3>1. Whole
      BY <2>1, <2>4, UpStepFacts DEF Reached, Whole
    <3>2. Whole'
      <4>1. CASE PanelStarts
        BY <1>1, <3>1, <4>1, WholeMoves
      <4>2. CASE UNCHANGED <<panel, core>>
        BY <3>1, <4>2 DEF Whole
      <4> QED BY <1>3, <2>4, <4>1, <4>2
    <3> QED BY <1>2, <2>4, <3>2, UpStepFacts DEF Reached, ReadyAfter
  <2> QED BY <1>1, <2>2, <2>3, <2>4, UpStepFacts
<1> QED BY <1>1, <1>2, <1>3, <1>5, <1>6, UpStepFacts, UpdateGoesOn

LEMMA SelfUpdateStep ==
  ASSUME UpInv, ~UpOverlapping, MaxSnapshotFails = 0, [SelfUpdateNext]_upVars
  PROVE  UpInv'
<1>a. SelfUpdateTypeOK /\ Aimed /\ UpTurns /\ updater \in [Updaters -> UpStates]
  BY UpTypes DEF UpInv
<1>b. CASE UNCHANGED upVars
  BY <1>b DEF UpInv, upVars, SelfUpdateTypeOK, Aimed, Aims, UpTurns, Resting, Whole, Reached,
     Undoable
<1> SUFFICES ASSUME SelfUpdateNext PROVE UpInv'
  BY <1>b
<1>t. SelfUpdateTypeOK'
  BY <1>a, SelfUpdateTyped
<1>s. ASSUME UNCHANGED <<panel, core, updater>>
      PROVE  (Resting' => Resting) /\ (Whole => Whole') /\
             \A u \in Updaters : Reached(updater[u]) => Reached(updater[u])'
  BY <1>s DEF Resting, Whole, Reached, Undoable
<1>r. ASSUME UpTurns, updater["job"].pc = "off", updater["hand"].pc = "off" PROVE Resting
  BY <1>r, UpValues DEF Resting
<1>f. core.binary # 0 /\ (Whole => core.database # 0)
  BY <1>a, UpTypes, UpValues DEF Whole
<1>1. CASE Publish \/ CheckNow \/ InstallRefused \/ LaunchReturns \/ Expire \/ StartInstall
  <2>1. UNCHANGED <<panel, core, updater, ended>>
    BY <1>1 DEF Publish, CheckNow, InstallRefused, LaunchReturns, Expire, StartInstall, upVars
  <2>2. published \in Releases /\ published # Lost
    BY <1>a, UpValues DEF SelfUpdateTypeOK
  <2>3. Aimed' /\ UpTurns'
    BY <1>1, <1>a, <2>2
    DEF Publish, CheckNow, InstallRefused, LaunchReturns, Expire, StartInstall,
       upVars, Aimed, Aims, UpTurns
  <2> QED BY <1>t, <1>s, <2>1, <2>3 DEF UpInv
<1>2. ASSUME NEW u \in Updaters, NEW pc \in {"begin", "download"}, NEW STATE t, t # Lost,
             updater' = [updater EXCEPT ![u] = [Off EXCEPT !.pc = pc, !.target = t]],
             Resting, UNCHANGED <<core, latest, ended>>, panel' = panel \/ panel'.state # "up",
             install' # "free" => u = "job" /\ latest # Lost
      PROVE  UpInv'
  <2>1. /\ updater'[u].pc = pc /\ updater'[u].target = t /\ ~updater'[u].snapshot
        /\ \A q \in Updaters \ {u} : updater'[q] = updater[q] /\ updater[q].pc = "off"
    BY <1>2, <1>a DEF Off, Resting
  <2>2. Aimed' /\ UpTurns'
    BY <1>2, <1>a, <2>1, UpValues, UpStepFacts DEF Aimed, Aims, UpTurns, ReadyAfter
  <2>3. ended # "torn" => Whole'
    BY <1>2 DEF UpInv, Whole
  <2>4. ended # "torn" => Reached(updater[u])'
    BY <1>2, <1>f, <2>1, <2>3, UpStepFacts, UpValues DEF Reached, ReadyAfter, Whole
  <2>5. \A q \in Updaters \ {u} : Reached(updater[q])'
    BY <2>1, UpStepFacts DEF Reached, ReadyAfter
  <2> QED BY <1>2, <1>t, <2>2, <2>3, <2>4, <2>5 DEF UpInv
<1>3. CASE Launch
  <2>1. CASE UNCHANGED updater
    <3>1. Aimed' /\ UpTurns'
      BY <1>3, <1>a, <2>1 DEF Launch, Aimed, Aims, UpTurns, UpFault
    <3> QED BY <1>3, <1>t, <1>s, <2>1, <3>1 DEF UpInv, Launch
  <2>2. CASE updater["job"].pc = "off" /\ install' = "wait" /\
             updater' = [updater EXCEPT !["job"] = [Off EXCEPT !.pc = "begin", !.target = latest]]
    <3>1. Resting /\ latest # Lost
      BY <1>3, <1>a, <1>r, <2>2 DEF Launch, UpTurns, Aimed
    <3> QED BY <1>2, <1>3, <2>2, <3>1, UpValues DEF Launch
  <2> QED BY <1>3, <2>1, <2>2 DEF Launch
<1>4. CASE StartByHand
  <2>1. Resting /\ install = "free"
    BY <1>4, <1>a, <1>r DEF StartByHand
  <2>2. published # Lost
    BY <1>a, UpValues DEF SelfUpdateTypeOK
  <2> QED BY <1>2, <1>4, <2>1, <2>2, UpValues DEF StartByHand
<1>5. CASE PanelCrash
  <2>1. panel'.state = "down" /\ UNCHANGED core /\ panel.state = "up" /\ install' = "free"
        /\ UNCHANGED <<latest, ended>>
    BY <1>5 DEF PanelCrash, Panels
  <2>2. CASE UNCHANGED updater
    <3>1. Aimed' /\ UpTurns'
      BY <1>a, <2>1, <2>2 DEF Aimed, Aims, UpTurns
    <3>2. Resting' => Resting
      BY <2>2 DEF Resting
    <3>3. Whole => Whole'
      BY <1>a, <2>1, WholeMoves
    <3>4. ended # "torn" => \A u \in Updaters : Reached(updater[u])'
      BY <2>1, <2>2, PanelMoves
    <3> QED BY <1>t, <2>1, <3>1, <3>2, <3>3, <3>4 DEF UpInv
  <2>3. CASE install = "launch" /\ updater["job"].pc = "off" /\
             updater' = [updater EXCEPT !["job"] = [Off EXCEPT !.pc = "begin", !.target = latest]]
    <3>1. Resting /\ latest # Lost
      BY <1>a, <1>r, <2>3 DEF UpTurns, Aimed
    <3> QED BY <1>2, <2>1, <2>3, <3>1, UpValues
  <2> QED BY <1>5, <2>2, <2>3 DEF PanelCrash
<1>6. CASE PanelRestarts \/ StartPanel
  <2>1. UNCHANGED <<updater, install, latest, ended>> /\ PanelStarts
    BY <1>6 DEF PanelRestarts, StartPanel
  <2>2. Aimed' /\ UpTurns' /\ (Resting' => Resting)
    BY <1>a, <2>1 DEF Aimed, Aims, UpTurns, Resting
  <2>3. Whole => Whole'
    BY <1>a, <2>1, WholeMoves
  <2>4. ended # "torn" => \A u \in Updaters : Reached(updater[u])'
    <3>1. CASE PanelRestarts
      BY <2>1, <3>1, PanelMoves DEF PanelRestarts, PanelStarts, Panels
    <3>2. CASE StartPanel
      BY <2>1, <3>2, UpStepFacts DEF StartPanel, Resting, Reached, ReadyAfter
    <3> QED BY <1>6, <3>1, <3>2
  <2> QED BY <1>t, <2>1, <2>2, <2>3, <2>4 DEF UpInv
<1>7. ASSUME NEW u \in Updaters, Killed(u) PROVE UpInv'
  <2>1. /\ ended' = "torn" /\ latest' = latest /\ install' \in {install, "free"}
        /\ updater' = [updater EXCEPT ![u] = Off]
    BY <1>7 DEF Killed
  <2>2. Aimed' /\ UpTurns'
    BY <1>a, <2>1, UpValues DEF Aimed, Aims, UpTurns
  <2> QED BY <1>t, <2>1, <2>2 DEF UpInv
<1>8. ASSUME NEW u \in Updaters, UpdateStep(u) PROVE UpInv'
  BY <1>8, <1>t, UpdateKept
<1>9. ASSUME NEW u \in Updaters, UpdateStepFails(u) PROVE UpInv'
  BY <1>9, <1>t, FailureKept
<1>10. ASSUME NEW u \in Updaters, Undo(u) PROVE UpInv'
  BY <1>10, <1>t, UndoKept
<1>11. ASSUME NEW u \in Updaters, UndoFails(u) PROVE UpInv'
  <2>1. /\ updater[u].pc # "off" /\ updater[u] \in UpStates
        /\ NextUndo[updater[u].pc] # "off"
        /\ updater' = [updater EXCEPT ![u].pc = "failed"] /\ ended' = "torn"
        /\ UNCHANGED <<latest, install>>
    BY <1>11, <1>a, UpStepFacts DEF UndoFails, StepTo
  <2>2. /\ \A q \in Updaters \ {u} : updater'[q] = updater[q]
        /\ updater'[u].pc = "failed" /\ updater'[u].target = updater[u].target
    BY <1>a, <2>1 DEF UpStates
  <2>3. Aims(updater[u])'
    BY <1>a, <2>1, <2>2, UpStepFacts DEF Aimed, Aims, ReadyAfter
  <2> QED BY <1>t, <2>1, <2>2, <2>3, UpdateGoesOn
<1>12. ASSUME NEW u \in Updaters, Report(u) PROVE UpInv'
  <2>1. /\ updater[u].pc \in {"success", "failed"} /\ updater' = [updater EXCEPT ![u] = Off]
        /\ UNCHANGED <<panel, core, install, latest, ended>>
    BY <1>12 DEF Report
  <2>2. Aimed' /\ UpTurns'
    BY <1>a, <2>1, UpValues DEF Aimed, Aims, UpTurns
  <2>3. ended # "torn" => Whole'
    BY <2>1 DEF UpInv, Reached, Whole
  <2>4. \A q \in Updaters : updater'[q].pc = "off"
    BY <1>a, <2>1, UpValues DEF UpTurns
  <2>5. \A q \in Updaters : Reached(updater[q])'
    BY <2>4, UpStepFacts DEF Reached, ReadyAfter
  <2> QED BY <1>t, <2>1, <2>2, <2>3, <2>5 DEF UpInv
<1> QED BY <1>1, <1>3, <1>4, <1>5, <1>6, <1>7, <1>8, <1>9, <1>10, <1>11, <1>12
        DEF SelfUpdateNext, UpdaterStep

\* Whatever step of an update fails, the panel is of one release when no updater is at work,
\* the old one or the new, and has its database (finish_update of update.sh): while only one
\* updater works at a time, sqlite3 can copy the database, and no updater is killed or unable
\* to go back.
THEOREM ReleaseWholeInTurns ==
  ASSUME ~UpOverlapping, MaxSnapshotFails = 0
  PROVE  SelfUpdateSpec => []ReleaseWhole
<1>1. UpInv => ReleaseWhole
  BY DEF UpInv, ReleaseWhole, Whole
<1> QED BY <1>1, SelfUpdateInitially, SelfUpdateStep, PTL DEF SelfUpdateSpec

\* An updater that is started has a release, and keeps it, and the one it found before it
\* takes anything away.
LEMMA UpdaterAims ==
  ASSUME SelfUpdateTypeOK, Aimed, SelfUpdateNext
  PROVE  Aimed'
<1>a. /\ updater \in [Updaters -> UpStates] /\ (install # "free" => latest # Lost)
      /\ \A u \in Updaters : Aims(updater[u])
      /\ published \in Releases /\ core.binary \in Releases
  BY UpTypes DEF Aimed, SelfUpdateTypeOK
<1>o. Aims(Off) /\ \A release \in Releases : /\ Aims([Off EXCEPT !.pc = "begin", !.target = release])
                                /\ Aims([Off EXCEPT !.pc = "download", !.target = release])
  BY UpValues, UpStepFacts DEF Aims, Off, ReadyAfter
<1>l. latest # Lost => latest \in Releases
  BY DEF SelfUpdateTypeOK
<1>s. \A u \in Updaters, pc \in UpSteps :
        /\ [updater[u] EXCEPT !.pc = pc].pc = pc
        /\ [updater[u] EXCEPT !.pc = pc].target = updater[u].target
        /\ [updater[u] EXCEPT !.pc = pc].old = updater[u].old
  BY <1>a DEF UpStates
<1>1. CASE Publish \/ CheckNow \/ StartInstall \/ InstallRefused \/ LaunchReturns \/ Expire
           \/ PanelRestarts \/ StartPanel
  BY <1>1, <1>a, UpValues DEF Publish, CheckNow, StartInstall, InstallRefused, LaunchReturns,
     Expire, PanelRestarts, StartPanel, upVars, Aimed
<1>2. CASE Launch
  BY <1>2, <1>a, <1>o, <1>l DEF Launch, Aimed
<1>3. CASE StartByHand
  BY <1>3, <1>a, <1>o DEF StartByHand, Aimed
<1>4. CASE PanelCrash
  BY <1>4, <1>a, <1>o, <1>l DEF PanelCrash, Aimed
<1>5. ASSUME NEW u \in Updaters, Killed(u) PROVE Aimed'
  BY <1>5, <1>a, <1>o DEF Killed, Aimed
<1>6. ASSUME NEW u \in Updaters, UpdateStep(u) PROVE Aimed'
  <2> DEFINE pc == updater[u].pc
             next == NextStep[pc]
  <2>1. /\ pc \in DOMAIN NextStep /\ next \in UpSteps /\ Done(u, pc) /\ latest' = latest
        /\ updater[u] \in UpStates /\ updater[u].target # Lost
    BY <1>6, <1>a, UpStepFacts DEF UpdateStep, Aims
  <2>2. install' \in {install, "free"}
    BY <2>1, UpStepFacts DEF Done
  <2>3. \A v \in Updaters \ {u} : updater'[v] = updater[v]
    BY <2>1, <1>a DEF Done
  <2>4. Aims(updater'[u])
    <3>1. CASE pc = "prepare"
      <4>1. updater' = [updater EXCEPT ![u] =
                  [[updater[u] EXCEPT !.old = core.binary, !.wasUp = panel.state = "up"]
                     EXCEPT !.pc = next]]
        BY <2>1, <3>1 DEF Done
      <4>2. updater'[u].target = updater[u].target /\ updater'[u].old = core.binary
        BY <4>1, <2>1, <1>a DEF UpStates
      <4> QED BY <4>2, <2>1, <1>a, UpValues DEF Aims
    <3>2. CASE pc = "snapshot"
      <4>1. updater' = [updater EXCEPT ![u] =
                  [[updater[u] EXCEPT !.snapshot = TRUE, !.database = core.database]
                     EXCEPT !.pc = next]]
        BY <2>1, <3>2 DEF Done
      <4>2. updater'[u].target = updater[u].target /\ updater'[u].old = updater[u].old
        BY <4>1, <2>1, <1>a DEF UpStates
      <4>3. updater[u].old # Lost
        BY <1>a, <3>2 DEF Aims, ReadyAfter
      <4> QED BY <4>2, <4>3, <2>1 DEF Aims
    <3>3. CASE pc \notin {"prepare", "snapshot"}
      <4>1. updater' = [updater EXCEPT ![u] = [updater[u] EXCEPT !.pc = next]]
        BY <2>1, <3>3 DEF Done
      <4>2. /\ updater'[u].target = updater[u].target /\ updater'[u].old = updater[u].old
            /\ updater'[u].pc = next
        BY <4>1, <2>1, <1>a DEF UpStates
      <4>3. next \in ReadyAfter \cup DOMAIN NextUndo => pc \in ReadyAfter
        BY <2>1, <3>3, UpStepFacts DEF ReadyAfter
      <4>4. next \in ReadyAfter \cup DOMAIN NextUndo => updater[u].old # Lost
        BY <4>3, <1>a, <2>1, UpStepFacts DEF Aims
      <4> HIDE DEF next
      <4> QED BY <4>2, <4>4, <2>1 DEF Aims
    <3> QED BY <3>1, <3>2, <3>3
  <2> QED BY <2>1, <2>2, <2>3, <2>4, <1>a DEF Aimed
<1>7. ASSUME NEW u \in Updaters, UpdateStepFails(u) PROVE Aimed'
  <2> DEFINE pc == updater[u].pc
             undo == [updater EXCEPT ![u].pc = IF pc \in ReadyAfter THEN "unstop" ELSE "failed"]
  <2>1. /\ updater' \in {undo, [undo EXCEPT ![u].snapshot = TRUE, ![u].database = Lost]}
        /\ pc \in DOMAIN NextStep /\ UNCHANGED <<install, latest>>
    BY <1>7 DEF UpdateStepFails
  <2>2. /\ \A v \in Updaters \ {u} : updater'[v] = updater[v]
        /\ updater'[u].target = updater[u].target /\ updater'[u].old = updater[u].old
        /\ updater'[u].pc = IF pc \in ReadyAfter THEN "unstop" ELSE "failed"
    BY <2>1, <1>a DEF UpStates
  <2>3. pc # "off"
    BY <2>1, UpStepFacts
  <2>4. Aims(updater'[u])
    BY <2>2, <2>3, <1>a, UpStepFacts DEF Aims, ReadyAfter
  <2> QED BY <2>1, <2>2, <2>4, <1>a DEF Aimed
<1>8. ASSUME NEW u \in Updaters, Undo(u) \/ UndoFails(u) PROVE Aimed'
  <2>1. /\ updater[u].pc \in DOMAIN NextUndo /\ latest' = latest /\ install' \in {install, "free"}
        /\ \E pc \in UpSteps : StepTo(u, pc)
    BY <1>8, UpStepFacts DEF Undo, UndoFails
  <2>2. PICK pc \in UpSteps : StepTo(u, pc)
    BY <2>1
  <2>3. updater[u].target # Lost /\ updater[u].old # Lost
    BY <1>a, <2>1, UpStepFacts DEF Aims
  <2>4. updater' = [updater EXCEPT ![u] = [updater[u] EXCEPT !.pc = pc]]
    BY <2>2 DEF StepTo
  <2>5. Aims(updater'[u]) /\ \A v \in Updaters \ {u} : updater'[v] = updater[v]
    BY <2>3, <2>4, <1>a, <1>s DEF Aims
  <2> QED BY <2>1, <2>5, <1>a DEF Aimed
<1>9. ASSUME NEW u \in Updaters, Report(u) PROVE Aimed'
  BY <1>9, <1>a, <1>o DEF Report, Aimed
<1> QED BY <1>1, <1>2, <1>3, <1>4, <1>5, <1>6, <1>7, <1>8, <1>9 DEF SelfUpdateNext, UpdaterStep

LEMMA UpTypedStep ==
  SelfUpdateTypeOK /\ Aimed /\ [SelfUpdateNext]_upVars => (SelfUpdateTypeOK /\ Aimed)'
<1> SUFFICES ASSUME SelfUpdateTypeOK, Aimed, [SelfUpdateNext]_upVars
             PROVE  SelfUpdateTypeOK' /\ Aimed'
  OBVIOUS
<1>1. CASE SelfUpdateNext
  BY <1>1, SelfUpdateTyped, UpdaterAims
<1>2. CASE UNCHANGED upVars
  BY <1>2 DEF upVars, SelfUpdateTypeOK, Aimed, Aims
<1> QED BY <1>1, <1>2

\* Panel, record and updater keep their types whatever overlaps and fails: each step of an
\* update has the release it needs in hand (update.sh).
THEOREM UpdateTyped == SelfUpdateSpec => []SelfUpdateTypeOK
<1>1. SelfUpdateInit => SelfUpdateTypeOK /\ Aimed
  BY SelfUpdateInitially DEF UpInv
<1> QED BY <1>1, UpTypedStep, PTL DEF SelfUpdateSpec

-----------------------------------------------------------------------------
(***************************************************************************)
(* The migrations.  Until they are merged, applications are in one table    *)
(* and bound to their own ids; then each has a platform.                    *)
(***************************************************************************)

LEMMA LargestIs ==
  ASSUME NEW S \in SUBSET Nat, IsFiniteSet(S), S # {}
  PROVE  Largest(S) \in S /\ \A m \in S : m <= Largest(S)
<1>1. \E x \in S : \A m \in S : m <= x
  BY GreatestIs
<1> QED BY <1>1 DEF Largest

\* The bindings, one id after the other, as the function they define.
Bind(order, into, f, i) ==
  [a \in LegacyApps |-> IF f[a] = order[i] THEN into[order[i]] ELSE f[a]]
LEMMA ReboundSteps ==
  ASSUME NEW into, NEW order, NEW n \in Nat, n = Cardinality(DOMAIN order)
  PROVE  \E after : /\ Rebound(order, into) = after[n]
                    /\ after = [i \in 0..n |-> IF i = 0 THEN bound
                                               ELSE Bind(order, into, after[i - 1], i)]
<1> DEFINE Is(f, m) == f = [i \in 0..m |-> IF i = 0 THEN bound ELSE Bind(order, into, f[i - 1], i)]
           Bad == {m \in Nat : ~ \E f : Is(f, m)}
<1>1. \E f : Is(f, n)
  <2>1. SUFFICES ASSUME Bad # {} PROVE FALSE
    OBVIOUS
  <2>2. PICK m \in Bad : \A l \in Bad : m <= l
    BY <2>1, Smallest
  <2>3. CASE m = 0
    <3>1. Is([i \in 0..0 |-> bound], 0)
      OBVIOUS
    <3> QED BY <2>2, <2>3, <3>1
  <2>4. CASE m # 0
    <3>1. m \in Nat /\ m - 1 \in Nat /\ m - 1 \notin Bad
      BY <2>2, <2>4
    <3>2. PICK f : Is(f, m - 1)
      BY <3>1
    <3> DEFINE g == [i \in 0..m |-> IF i = m THEN Bind(order, into, f[m - 1], m) ELSE f[i]]
    <3>3. \A i \in 0..(m - 1) : g[i] = f[i]
      BY <3>1
    <3>4. ASSUME NEW i \in 0..m
          PROVE  g[i] = IF i = 0 THEN bound ELSE Bind(order, into, g[i - 1], i)
      <4>1. CASE i = m
        <5>1. g[i] = Bind(order, into, f[m - 1], m) /\ g[m - 1] = f[m - 1]
          BY <3>1, <3>3, <4>1
        <5> QED BY <2>4, <4>1, <5>1
      <4>2. CASE i # m /\ i = 0
        BY <3>1, <3>2, <3>3, <4>2
      <4>3. CASE i # m /\ i # 0
        <5>1. i \in 0..(m - 1) /\ i - 1 \in 0..(m - 1)
          BY <3>1, <4>3
        <5>2. f[i] = Bind(order, into, f[i - 1], i)
          BY <3>2, <4>3, <5>1
        <5> QED BY <3>3, <4>3, <5>1, <5>2
      <4> QED BY <4>1, <4>2, <4>3
    <3>5. Is(g, m)
      <4> HIDE DEF Bind
      <4> QED BY <3>4
    <3> QED BY <2>2, <3>5
  <2> QED BY <2>3, <2>4
<1> DEFINE after == CHOOSE f : Is(f, n)
<1>2. Is(after, n)
  BY <1>1
<1>3. Rebound(order, into) = after[n]
  BY DEF Rebound, Bind
<1> QED BY <1>2, <1>3

\* What the bindings become: new ids, whatever the order; and, when no new id is an old one,
\* that of each application.
LEMMA ReboundIs ==
  ASSUME bound = [a \in LegacyApps |-> a], IsFiniteSet(LegacyApps),
         NEW T, LegacyApps \subseteq T, NEW into \in [LegacyApps -> T],
         NEW order \in Orders(LegacyApps)
  PROVE  /\ Rebound(order, into) \in [LegacyApps -> T]
         /\ (\E a, b \in LegacyApps : a # b /\ into[a] = b) \/ Rebound(order, into) = into
<1> DEFINE n == Cardinality(LegacyApps)
           Free == ~ \E a, b \in LegacyApps : a # b /\ into[a] = b
<1>1. n \in Nat /\ order \in [1..n -> LegacyApps] /\ \A i, j \in 1..n : order[i] = order[j] => i = j
  BY FS_CardinalityType DEF Orders
<1>2. \A a \in LegacyApps : \E i \in 1..n : order[i] = a
  <2>1. order \in Injection(1..n, LegacyApps)
    BY <1>1 DEF Injection, IsInjective
  <2>2. Cardinality(1..n) = n
    BY <1>1, FS_Interval
  <2>3. order \in Surjection(1..n, LegacyApps)
    BY <2>1, <2>2, FS_Injection
  <2> QED BY <2>3 DEF Surjection
<1>3. n = Cardinality(DOMAIN order)
  BY <1>1, FS_Interval
<1>4. PICK after : /\ Rebound(order, into) = after[n]
                   /\ after = [i \in 0..n |-> IF i = 0 THEN bound
                                              ELSE Bind(order, into, after[i - 1], i)]
  BY <1>1, <1>3, ReboundSteps
<1> DEFINE Handled(i) == {order[j] : j \in 1..i}
           Right(i) == /\ after[i] \in [LegacyApps -> T]
                       /\ Free => \A a \in LegacyApps :
                                    after[i][a] = IF a \in Handled(i) THEN into[a] ELSE a
           Wrong == {i \in 0..n : ~Right(i)}
<1>5. Right(n)
  <2>1. SUFFICES ASSUME Wrong # {} PROVE FALSE
    BY <1>1
  <2>2. PICK m \in Wrong : \A l \in Wrong : m <= l
    <3>1. Wrong \in SUBSET Nat
      BY <1>1
    <3> HIDE DEF Wrong
    <3> QED BY <2>1, <3>1, Smallest
  <2>3. CASE m = 0
    <3>1. after[0] = [a \in LegacyApps |-> a]
      BY <1>1, <1>4
    <3>2. Handled(0) = {}
      OBVIOUS
    <3> QED BY <2>2, <2>3, <3>1, <3>2
  <2>4. CASE m # 0
    <3>1. m \in 1..n /\ m - 1 \in 0..n /\ Right(m - 1) /\ order[m] \in LegacyApps
      BY <1>1, <2>2, <2>4
    <3>2. after[m] = [a \in LegacyApps |-> IF after[m - 1][a] = order[m] THEN into[order[m]]
                                           ELSE after[m - 1][a]]
      BY <1>4, <2>4, <3>1 DEF Bind
    <3>3. after[m] \in [LegacyApps -> T]
      BY <3>1, <3>2
    <3>4. ASSUME Free, NEW a \in LegacyApps
          PROVE  after[m][a] = IF a \in Handled(m) THEN into[a] ELSE a
      <4>1. after[m - 1][a] = IF a \in Handled(m - 1) THEN into[a] ELSE a
        BY <3>1, <3>4
      <4>2. a \in Handled(m) <=> a \in Handled(m - 1) \/ a = order[m]
        <5>1. \A j \in 1..m : j \in 1..(m - 1) \/ j = m
          BY <3>1
        <5>2. 1..(m - 1) \subseteq 1..m /\ m \in 1..m
          BY <3>1
        <5> QED BY <5>1, <5>2
      <4>3. order[m] \notin Handled(m - 1)
        <5>1. \A j \in 1..(m - 1) : j \in 1..n /\ j # m
          BY <1>1, <3>1
        <5> QED BY <1>1, <3>1, <5>1
      <4> HIDE DEF Handled
      <4>4. CASE a = order[m]
        BY <3>2, <4>1, <4>2, <4>3, <4>4
      <4>5. CASE a # order[m] /\ a \in Handled(m - 1)
        <5>1. into[a] # order[m]
          BY <3>1, <3>4, <4>5
        <5> QED BY <3>2, <4>1, <4>2, <4>5, <5>1
      <4>6. CASE a # order[m] /\ a \notin Handled(m - 1)
        BY <3>2, <4>1, <4>2, <4>6
      <4> QED BY <4>4, <4>5, <4>6
    <3> QED BY <2>2, <3>3, <3>4
  <2> QED BY <2>3, <2>4
<1>6. Rebound(order, into) \in [LegacyApps -> T]
  BY <1>4, <1>5
<1>7. ASSUME Free PROVE Rebound(order, into) = into
  <2>1. \A a \in LegacyApps : a \in Handled(n)
    BY <1>2
  <2>2. \A a \in LegacyApps : after[n][a] = into[a]
    <3> HIDE DEF Handled
    <3> QED BY <1>5, <1>7, <2>1
  <2>3. after[n] \in [LegacyApps -> T]
    BY <1>4, <1>6
  <2>4. after[n] = into
    BY <2>2, <2>3
  <2> QED BY <1>4, <2>4
<1> QED BY <1>6, <1>7

\* Where the applications go: to the platform each was linked to or to one made for it.
LEMMA MergedIs ==
  ASSUME IsFiniteSet(LegacyApps), LegacyApps \subseteq Nat, linked \in [LegacyApps -> Nat],
         platforms \in SUBSET (Nat \ {0}), IsFiniteSet(platforms)
  PROVE  LET into == Merged(LegacyApps) IN
         /\ into \in [LegacyApps -> Nat \ {0}]
         /\ \A a \in LegacyApps :
              into[a] \in platforms \cup 1..(Largest(platforms \cup {0}) + Cardinality(LegacyApps))
         /\ \A a, b \in LegacyApps : into[a] = into[b] => a = b \/ SameSite(a, b)
<1> DEFINE into == Merged(LegacyApps)
           fresh == {a \in LegacyApps : linked[a] \notin platforms}
           base == Largest(platforms \cup {0})
           UpTo(a) == {b \in fresh : b <= a}
<1>1. base \in Nat /\ \A p \in platforms : p <= base
  <2>1. platforms \cup {0} \in SUBSET Nat /\ platforms \cup {0} # {}
    OBVIOUS
  <2>2. IsFiniteSet(platforms \cup {0})
    BY FS_AddElement
  <2> HIDE DEF base
  <2> QED BY <2>1, <2>2, LargestIs DEF base
<1>2. \A a \in LegacyApps :
        IF a \in fresh THEN into[a] = base + Cardinality(UpTo(a)) ELSE into[a] = linked[a]
  BY DEF Merged
<1> HIDE DEF into, base
<1>3. ASSUME NEW a \in fresh
      PROVE  /\ IsFiniteSet(UpTo(a)) /\ Cardinality(UpTo(a)) \in Nat
             /\ 1 <= Cardinality(UpTo(a)) /\ Cardinality(UpTo(a)) <= Cardinality(LegacyApps)
  <2>1. UpTo(a) \in SUBSET LegacyApps /\ UpTo(a) # {}
    BY <1>3
  <2> HIDE DEF UpTo
  <2>2. /\ IsFiniteSet(UpTo(a)) /\ Cardinality(UpTo(a)) <= Cardinality(LegacyApps)
        /\ Cardinality(UpTo(a)) \in Nat
    BY <2>1, FS_Subset, FS_CardinalityType
  <2>3. Cardinality(UpTo(a)) # 0
    BY <2>1, <2>2, FS_EmptySet
  <2> QED BY <2>2, <2>3
<1>4. ASSUME NEW a \in fresh, NEW b \in fresh, a < b
      PROVE  Cardinality(UpTo(a)) # Cardinality(UpTo(b))
  <2>1. UpTo(a) \in SUBSET UpTo(b) /\ b \in UpTo(b) /\ b \notin UpTo(a)
    <3>1. \A c \in fresh : c \in Nat /\ (c <= a => c <= b)
      BY <1>4
    <3>2. \A c \in UpTo(a) : c \in UpTo(b)
      BY <3>1
    <3>3. b \in UpTo(b)
      BY <1>4, <3>1
    <3>4. b \notin UpTo(a)
      <4>1. a \in Nat /\ b \in Nat
        OBVIOUS
      <4> QED BY <1>4, <4>1
    <3> HIDE DEF UpTo
    <3> QED BY <3>2, <3>3, <3>4
  <2>2. IsFiniteSet(UpTo(b))
    BY <1>3
  <2> HIDE DEF UpTo
  <2> QED BY <2>1, <2>2, FS_Subset
<1>5. Cardinality(LegacyApps) \in Nat
  BY FS_CardinalityType
<1>6. ASSUME NEW a \in LegacyApps
      PROVE  /\ into[a] \in Nat \ {0}
             /\ into[a] \in platforms \cup 1..(base + Cardinality(LegacyApps))
             /\ a \in fresh => into[a] > base
             /\ a \notin fresh => into[a] <= base
  <2>1. CASE a \in fresh
    <3> HIDE DEF UpTo, fresh
    <3> QED BY <1>1, <1>2, <1>3, <1>5, <2>1
  <2>2. CASE a \notin fresh
    BY <1>1, <1>2, <2>2
  <2> QED BY <2>1, <2>2
<1>7. ASSUME NEW a \in LegacyApps, NEW b \in LegacyApps, into[a] = into[b]
      PROVE  a = b \/ SameSite(a, b)
  <2>1. CASE a \in fresh /\ b \in fresh
    <3>1. Cardinality(UpTo(a)) = Cardinality(UpTo(b))
      <4> HIDE DEF UpTo, fresh
      <4> QED BY <1>1, <1>2, <1>3, <1>7, <2>1
    <3>2. a \in Nat /\ b \in Nat
      OBVIOUS
    <3>3. a = b
      <4> HIDE DEF UpTo
      <4> QED BY <1>4, <2>1, <3>1, <3>2
    <3> QED BY <3>3
  <2>2. CASE a \notin fresh /\ b \notin fresh
    BY <1>2, <1>7, <2>2 DEF SameSite
  <2>3. CASE (a \in fresh) # (b \in fresh)
    <3> HIDE DEF fresh
    <3> QED BY <1>1, <1>6, <1>7, <2>3
  <2> QED BY <2>1, <2>2, <2>3
<1>8. into \in [LegacyApps -> Nat \ {0}]
  <2>1. into = [a \in LegacyApps |-> into[a]]
    BY DEF into, Merged
  <2> QED BY <1>6, <2>1
<1> QED BY <1>6, <1>7, <1>8 DEF into, base

Old == LegacySites \cup NewSites
\* What was given is finite, and the ids of platforms reach as far as merging them can.
LEMMA Ids ==
  /\ Old \subseteq AllIds /\ LegacyApps \subseteq AllIds /\ AllIds \subseteq Nat \ {0}
  /\ IsFiniteSet(AllIds) /\ IsFiniteSet(LegacyApps) /\ LegacyApps \subseteq Nat
  /\ \A S \in SUBSET Old : 1..(Largest(S \cup {0}) + Cardinality(LegacyApps)) \subseteq AllIds
<1> DEFINE All == LegacySites \cup LegacyApps \cup NewSites
           top == Largest(All)
           k == Cardinality(LegacyApps)
<1>1. IsFiniteSet(LegacyApps) /\ k \in Nat
  BY MigrationsAssumption, FS_CardinalityType
<1>2. All \in SUBSET Nat /\ All # {} /\ 0 \notin All
  BY MigrationsAssumption
<1>3. IsFiniteSet(All)
  <2>1. IsFiniteSet(LegacySites \cup LegacyApps)
    BY MigrationsAssumption, FS_Union
  <2> QED BY <2>1, MigrationsAssumption, FS_Union
<1>4. top \in Nat /\ \A m \in All : m <= top
  <2> HIDE DEF All
  <2> QED BY <1>2, <1>3, LargestIs
<1>5. AllIds = 1..(top + k)
  BY DEF AllIds
<1>6. \A m \in All : m \in AllIds
  <2> HIDE DEF All, top, k
  <2> QED BY <1>1, <1>2, <1>4, <1>5
<1>7. IsFiniteSet(AllIds) /\ AllIds \subseteq Nat \ {0}
  <2> HIDE DEF All, top, k
  <2>1. 1 \in Int /\ top + k \in Int
    BY <1>1, <1>4
  <2> QED BY <1>5, <2>1, FS_Interval
<1>8. ASSUME NEW S \in SUBSET Old
      PROVE  1..(Largest(S \cup {0}) + k) \subseteq AllIds
  <2>1. S \in SUBSET All
    BY DEF Old
  <2>2. IsFiniteSet(S)
    <3> HIDE DEF All
    <3> QED BY <1>3, <2>1, FS_Subset
  <2>3. IsFiniteSet(S \cup {0}) /\ S \cup {0} \in SUBSET Nat /\ S \cup {0} # {}
    BY <1>2, <2>1, <2>2, FS_AddElement
  <2>4. Largest(S \cup {0}) \in S \cup {0}
    BY <2>3, LargestIs
  <2>5. Largest(S \cup {0}) \in Nat /\ Largest(S \cup {0}) <= top
    <3>1. \A m \in S \cup {0} : m \in Nat /\ m <= top
      <4> HIDE DEF All, top
      <4>1. \A m \in S : m \in Nat /\ m <= top
        BY <1>2, <1>4, <2>1
      <4> QED BY <1>4, <4>1
    <3> HIDE DEF All, top
    <3> QED BY <2>4, <3>1
  <2> HIDE DEF All, top, k
  <2> QED BY <1>1, <1>4, <1>5, <2>5
<1> QED BY <1>1, <1>6, <1>7, <1>8, MigrationsAssumption DEF Old

Tabled ==
  /\ websites \in (SUBSET Old) \cup {NoTable}
  /\ platforms \in (SUBSET AllIds) \cup {NoTable}
  /\ linked \in [LegacyApps -> LegacySites \cup {0}]
  /\ bound \in [LegacyApps -> AllIds] /\ target \in [LegacyApps -> AllIds \cup {0}]
  /\ held \in [AllIds -> LegacyApps \cup {0}] /\ strangers \subseteq AllIds
Rest ==
  /\ columns \in {"old", "all"} /\ limits \in {"default", "of nginx"}
  /\ secrets \in [SecretTables -> {"plain", "encrypted"}]
  /\ workdir \in {"in root_path", "apart"} /\ start \in StartSteps /\ starts \in 0..MaxStarts
Unmerged ==
  /\ \/ goApps = LegacyApps /\ apps = NoTable
     \/ goApps = NoTable /\ apps = LegacyApps
  /\ platforms \in (SUBSET Old) \cup {NoTable}
  /\ bound = [a \in LegacyApps |-> a] /\ target = [a \in LegacyApps |-> 0]
Moved ==
  /\ goApps = NoTable /\ apps = NoTable
  /\ \A a \in LegacyApps : target[a] \in RowsIn(platforms)
  /\ Chained \/ bound = target
  /\ \A a \in LegacyApps : held[target[a]] = a \/ \E b \in LegacyApps : SameSite(a, b)
  /\ \A a, b \in LegacyApps : target[a] = target[b] => a = b \/ SameSite(a, b)
\* The tables there are at a statement, and what they hold.
Walking ==
  /\ start # "go_apps" => goApps = NoTable
  /\ start \in {"merge_websites", "drop_websites"} => HasTable(websites) /\ HasTable(platforms)
  /\ start = "drop_websites" => websites \subseteq platforms
  /\ start \in {"columns", "limits", "basic_auths", "ftp_users", "workdirs", "apps"} =>
       HasTable(platforms)
SitesKept ==
  /\ LegacySites \ strangers \subseteq RowsIn(websites) \cup RowsIn(platforms)
  /\ strangers \subseteq RowsIn(platforms)
MigInv == Tabled /\ Rest /\ SitesKept /\ (Unmerged \/ Moved) /\ Walking

LEMMA NoSuchTable ==
  /\ \A S \in SUBSET AllIds : S # NoTable /\ HasTable(S) /\ RowsIn(S) = S
  /\ ~HasTable(NoTable) /\ RowsIn(NoTable) = {}
  /\ LegacyApps \in SUBSET AllIds /\ Old \in SUBSET AllIds
<1>1. \A S \in SUBSET AllIds : S # NoTable
  BY MigrationsAssumption
<1>2. LegacyApps \in SUBSET AllIds /\ Old \in SUBSET AllIds
  BY Ids
<1> QED BY <1>1, <1>2 DEF HasTable, RowsIn

LEMMA MigrationsBegin ==
  ASSUME MigrationsInit
  PROVE  MigInv
<1>1. Tabled
  <2>1. LegacySites \in SUBSET Old /\ NewSites \in SUBSET Old /\ {} \in SUBSET Old
    BY DEF Old
  <2>2. websites \in (SUBSET Old) \cup {NoTable} /\ platforms \in (SUBSET Old) \cup {NoTable}
    BY <2>1 DEF MigrationsInit
  <2>3. platforms \in (SUBSET AllIds) \cup {NoTable}
    BY <2>2, Ids
  <2>4. bound \in [LegacyApps -> AllIds] /\ target \in [LegacyApps -> AllIds \cup {0}]
    BY Ids DEF MigrationsInit
  <2>5. held \in [AllIds -> LegacyApps \cup {0}] /\ strangers \subseteq AllIds
    BY <2>1, Ids DEF MigrationsInit
  <2> QED BY <2>2, <2>3, <2>4, <2>5 DEF MigrationsInit, Tabled
<1>2. Rest
  <2>1. starts \in 0..MaxStarts
    <3>1. starts = 0 /\ MaxStarts \in Nat
      BY MigrationsAssumption DEF MigrationsInit
    <3> QED BY <3>1
  <2> QED BY <2>1 DEF MigrationsInit, Rest, StartSteps
<1>3. Unmerged
  <2>1. LegacySites \in SUBSET Old /\ NewSites \in SUBSET Old /\ {} \in SUBSET Old
    BY DEF Old
  <2> QED BY <2>1 DEF MigrationsInit, Unmerged
<1>4. SitesKept
  <2>1. LegacySites \in SUBSET AllIds
    BY Ids DEF Old
  <2>2. RowsIn(LegacySites) = LegacySites /\ RowsIn(NewSites) = NewSites
    BY <2>1, NoSuchTable, Ids DEF Old
  <2> QED BY <2>2 DEF MigrationsInit, SitesKept
<1>5. Walking
  BY DEF MigrationsInit, Walking
<1> QED BY <1>1, <1>2, <1>3, <1>4, <1>5 DEF MigInv

\* A statement that leaves the rows of applications and platforms alone.
LEMMA RowsAlone ==
  ASSUME MigInv, UNCHANGED Tables, UNCHANGED <<linked, bound, target, held, strangers>>, Rest', Walking'
  PROVE  MigInv'
BY DEF MigInv, Tabled, SitesKept, Unmerged, Moved, SameSite, Chained, Tables, RowsIn, HasTable

LEMMA RenameGoAppsKeeps ==
  ASSUME MigInv, RenameGoApps
  PROVE  MigInv'
<1>1. goApps' = NoTable /\ UNCHANGED <<websites, platforms, linked, bound, target, held, strangers>>
  <2>1. CASE Unmerged
    BY <2>1, NoSuchTable DEF RenameGoApps, RowsUntouched, AppRowsUntouched, Unmerged
  <2>2. CASE Moved
    BY <2>2, NoSuchTable DEF RenameGoApps, RowsUntouched, AppRowsUntouched, Moved
  <2> QED BY <2>1, <2>2 DEF MigInv
<1>2. (Unmerged \/ Moved)'
  <2>1. CASE Unmerged
    BY <1>1, <2>1, NoSuchTable DEF RenameGoApps, Unmerged
  <2>2. CASE Moved
    BY <1>1, <2>2, NoSuchTable DEF RenameGoApps, Moved, SameSite, Chained, RowsIn, HasTable
  <2> QED BY <2>1, <2>2 DEF MigInv
<1>3. Tabled' /\ SitesKept'
  BY <1>1 DEF MigInv, Tabled, SitesKept, RowsIn, HasTable
<1>4. Rest' /\ Walking'
  BY <1>1 DEF MigInv, RenameGoApps, RowsUntouched, AppRowsUntouched, Rest, StartSteps, Walking, Goes
<1> QED BY <1>2, <1>3, <1>4 DEF MigInv

LEMMA DropGoAppsKeeps ==
  ASSUME MigInv, DropGoApps
  PROVE  MigInv'
<1>1. goApps' = goApps
  BY DEF DropGoApps, MigInv, Walking
<1>2. UNCHANGED Tables /\ UNCHANGED <<linked, bound, target, held, strangers>>
  BY <1>1 DEF DropGoApps, RowsUntouched, AppRowsUntouched, Tables
<1>3. Rest' /\ Walking'
  BY <1>2 DEF MigInv, DropGoApps, RowsUntouched, AppRowsUntouched, Rest, StartSteps, Walking, Goes, Tables
<1> QED BY <1>2, <1>3, RowsAlone

\* A statement about the websites and the platforms only.
LEMMA SitesMoved ==
  ASSUME MigInv, UNCHANGED <<goApps, apps>>, RowsUntouched,
         websites' \in (SUBSET Old) \cup {NoTable},
         platforms' \in (SUBSET AllIds) \cup {NoTable},
         Unmerged => platforms' \in (SUBSET Old) \cup {NoTable},
         RowsIn(platforms) \subseteq RowsIn(platforms)', SitesKept',
         start' \in StartSteps, starts' \in 0..MaxStarts, Walking'
  PROVE  MigInv'
<1>1. Tabled' /\ Rest'
  BY DEF MigInv, Tabled, Rest, RowsUntouched, AppRowsUntouched
<1>2. CASE Unmerged
  <2>1. Unmerged'
    BY <1>2 DEF Unmerged, RowsUntouched, AppRowsUntouched
  <2> QED BY <1>1, <2>1 DEF MigInv
<1>3. CASE Moved
  <2>1. Moved'
    BY <1>3 DEF Moved, SameSite, Chained, RowsUntouched, AppRowsUntouched
  <2> QED BY <1>1, <2>1 DEF MigInv
<1> QED BY <1>2, <1>3 DEF MigInv

LEMMA RenameWebsitesKeeps ==
  ASSUME MigInv, RenameWebsites
  PROVE  MigInv'
<1>1. /\ websites \in (SUBSET Old) \cup {NoTable} /\ platforms \in (SUBSET AllIds) \cup {NoTable}
      /\ Unmerged => platforms \in (SUBSET Old) \cup {NoTable}
      /\ SitesKept /\ start = "websites" /\ goApps = NoTable /\ starts \in 0..MaxStarts
  BY DEF MigInv, Tabled, Rest, Unmerged, RenameWebsites, Walking
<1>2. UNCHANGED <<goApps, apps>> /\ RowsUntouched
  BY DEF RenameWebsites
<1>3. CASE ~HasTable(websites)
  <2>1. UNCHANGED <<websites, platforms>> /\ Goes("schema")
    BY <1>3 DEF RenameWebsites
  <2>2. SitesKept' /\ RowsIn(platforms) \subseteq RowsIn(platforms)'
    BY <1>1, <1>2, <2>1 DEF SitesKept, RowsIn, HasTable, RowsUntouched, AppRowsUntouched
  <2>3. start' \in StartSteps /\ starts' = starts /\ Walking'
    BY <1>1, <1>2, <2>1 DEF Goes, Walking, StartSteps
  <2>5. /\ websites' \in (SUBSET Old) \cup {NoTable} /\ platforms' \in (SUBSET AllIds) \cup {NoTable}
        /\ Unmerged => platforms' \in (SUBSET Old) \cup {NoTable}
    <3>1. NoTable \in (SUBSET Old) \cup {NoTable} /\ NoTable \in (SUBSET AllIds) \cup {NoTable}
      OBVIOUS
    <3> QED BY <1>1, <2>1, <3>1
  <2> QED BY <1>1, <1>2, <2>2, <2>3, <2>5, SitesMoved
<1>4. CASE HasTable(websites) /\ ~HasTable(platforms)
  <2>1. platforms' = websites /\ websites' = NoTable /\ Goes("schema") /\ platforms = NoTable
    BY <1>4, NoSuchTable DEF RenameWebsites, HasTable
  <2>2. SitesKept' /\ RowsIn(platforms) \subseteq RowsIn(platforms)'
    BY <1>1, <1>2, <2>1 DEF SitesKept, RowsIn, HasTable, RowsUntouched, AppRowsUntouched
  <2>3. start' \in StartSteps /\ starts' = starts /\ Walking'
    BY <1>1, <1>2, <2>1 DEF Goes, Walking, StartSteps
  <2>4. websites \in (SUBSET AllIds) \cup {NoTable}
    BY <1>1, Ids
  <2>5. /\ websites' \in (SUBSET Old) \cup {NoTable} /\ platforms' \in (SUBSET AllIds) \cup {NoTable}
        /\ Unmerged => platforms' \in (SUBSET Old) \cup {NoTable}
    <3>1. NoTable \in (SUBSET Old) \cup {NoTable}
      OBVIOUS
    <3> QED BY <1>1, <2>1, <2>4, <3>1
  <2> QED BY <1>1, <1>2, <2>2, <2>3, <2>5, SitesMoved
<1>5. CASE HasTable(websites) /\ platforms = {} /\ websites # {}
  <2>0. HasTable(platforms) /\ RowsIn(platforms) = {}
    BY <1>5, NoSuchTable DEF RowsIn
  <2>1. platforms' = NoTable /\ UNCHANGED <<websites, start, starts>>
    BY <1>5, <2>0 DEF RenameWebsites
  <2>2. SitesKept' /\ RowsIn(platforms) \subseteq RowsIn(platforms)'
    BY <1>1, <1>2, <2>0, <2>1
       DEF SitesKept, RowsIn, HasTable, RowsUntouched, AppRowsUntouched
  <2>3. start' \in StartSteps /\ starts' = starts /\ Walking'
    BY <1>1, <1>2, <2>1 DEF Goes, Walking, StartSteps
  <2>5. /\ websites' \in (SUBSET Old) \cup {NoTable} /\ platforms' \in (SUBSET AllIds) \cup {NoTable}
        /\ Unmerged => platforms' \in (SUBSET Old) \cup {NoTable}
    <3>1. NoTable \in (SUBSET Old) \cup {NoTable} /\ NoTable \in (SUBSET AllIds) \cup {NoTable}
      OBVIOUS
    <3> QED BY <1>1, <2>1, <3>1
  <2> QED BY <1>1, <1>2, <2>2, <2>3, <2>5, SitesMoved
<1>6. CASE HasTable(websites) /\ HasTable(platforms) /\ websites = {}
  <2>1. UNCHANGED platforms /\ websites' = NoTable /\ Goes("schema")
    BY <1>6 DEF RenameWebsites
  <2>2. SitesKept' /\ RowsIn(platforms) \subseteq RowsIn(platforms)'
    BY <1>1, <1>2, <1>6, <2>1
       DEF SitesKept, RowsIn, HasTable, RowsUntouched, AppRowsUntouched
  <2>3. start' \in StartSteps /\ starts' = starts /\ Walking'
    BY <1>1, <1>2, <2>1 DEF Goes, Walking, StartSteps
  <2>5. /\ websites' \in (SUBSET Old) \cup {NoTable} /\ platforms' \in (SUBSET AllIds) \cup {NoTable}
        /\ Unmerged => platforms' \in (SUBSET Old) \cup {NoTable}
    <3>1. NoTable \in (SUBSET Old) \cup {NoTable} /\ NoTable \in (SUBSET AllIds) \cup {NoTable}
      OBVIOUS
    <3> QED BY <1>1, <2>1, <3>1
  <2> QED BY <1>1, <1>2, <2>2, <2>3, <2>5, SitesMoved
<1>7. CASE HasTable(websites) /\ HasTable(platforms) /\ websites # {} /\ platforms # {}
  <2>1. UNCHANGED <<websites, platforms>> /\ Goes("merge_websites")
    BY <1>7 DEF RenameWebsites
  <2>2. SitesKept' /\ RowsIn(platforms) \subseteq RowsIn(platforms)'
    BY <1>1, <1>2, <2>1 DEF SitesKept, RowsIn, HasTable, RowsUntouched, AppRowsUntouched
  <2>3. start' \in StartSteps /\ starts' = starts /\ Walking'
    BY <1>1, <1>2, <1>7, <2>1 DEF Goes, Walking, StartSteps, HasTable
  <2>5. /\ websites' \in (SUBSET Old) \cup {NoTable} /\ platforms' \in (SUBSET AllIds) \cup {NoTable}
        /\ Unmerged => platforms' \in (SUBSET Old) \cup {NoTable}
    <3>1. NoTable \in (SUBSET Old) \cup {NoTable} /\ NoTable \in (SUBSET AllIds) \cup {NoTable}
      OBVIOUS
    <3> QED BY <1>1, <2>1, <3>1
  <2> QED BY <1>1, <1>2, <2>2, <2>3, <2>5, SitesMoved
<1> QED BY <1>3, <1>4, <1>5, <1>6, <1>7

LEMMA MergeWebsitesKeeps ==
  ASSUME MigInv, MergeLegacyWebsites
  PROVE  MigInv'
<1>1. /\ websites \in SUBSET Old /\ platforms \in SUBSET AllIds
      /\ Unmerged => platforms \in SUBSET Old
      /\ goApps = NoTable /\ starts \in 0..MaxStarts /\ start \in StartSteps
  <2>1. HasTable(websites) /\ HasTable(platforms) /\ start = "merge_websites" /\ goApps = NoTable
    BY DEF MigInv, MergeLegacyWebsites, Walking
  <2>2. Tabled /\ starts \in 0..MaxStarts /\ start \in StartSteps
    BY DEF MigInv, Rest
  <2> QED BY <2>1, <2>2 DEF Tabled, Unmerged, HasTable
<1>2. /\ platforms' = platforms \cup websites /\ websites' = websites
      /\ Goes("drop_websites") /\ UNCHANGED <<goApps, apps>> /\ RowsUntouched
  BY DEF MergeLegacyWebsites
<1>3. platforms' \in SUBSET AllIds /\ HasTable(platforms)' /\ HasTable(websites)'
  BY <1>1, <1>2, Ids, NoSuchTable DEF HasTable
<1>4. RowsIn(platforms) = platforms /\ RowsIn(platforms)' = platforms'
  BY <1>1, <1>3, NoSuchTable, Ids DEF RowsIn, HasTable
<1>5. SitesKept' /\ RowsIn(platforms) \subseteq RowsIn(platforms)'
  BY <1>2, <1>4 DEF MigInv, SitesKept, RowsIn, HasTable, RowsUntouched, AppRowsUntouched
<1>6. start' \in StartSteps /\ starts' = starts /\ Walking'
  BY <1>1, <1>2, <1>3 DEF Goes, Walking, StartSteps
<1> QED BY <1>1, <1>2, <1>3, <1>5, <1>6, SitesMoved

LEMMA DropWebsitesKeeps ==
  ASSUME MigInv, DropWebsites
  PROVE  MigInv'
<1>1. /\ websites \subseteq platforms /\ HasTable(websites) /\ HasTable(platforms)
      /\ goApps = NoTable /\ starts \in 0..MaxStarts /\ SitesKept
      /\ platforms \in (SUBSET AllIds) \cup {NoTable}
      /\ Unmerged => platforms \in (SUBSET Old) \cup {NoTable}
  BY DEF MigInv, DropWebsites, Walking, Rest, Tabled, Unmerged
<1>2. /\ platforms' = platforms /\ websites' = NoTable /\ Goes("schema")
      /\ UNCHANGED <<goApps, apps>> /\ RowsUntouched
  BY DEF DropWebsites
<1>3. SitesKept' /\ RowsIn(platforms) \subseteq RowsIn(platforms)'
  BY <1>1, <1>2 DEF SitesKept, RowsIn, HasTable, RowsUntouched, AppRowsUntouched
<1>4. start' \in StartSteps /\ starts' = starts /\ Walking'
  BY <1>1, <1>2 DEF Goes, Walking, StartSteps
<1>5. /\ websites' \in (SUBSET Old) \cup {NoTable} /\ platforms' \in (SUBSET AllIds) \cup {NoTable}
      /\ Unmerged => platforms' \in (SUBSET Old) \cup {NoTable}
  <2>1. NoTable \in (SUBSET Old) \cup {NoTable}
    OBVIOUS
  <2> QED BY <1>1, <1>2, <2>1
<1> QED BY <1>1, <1>2, <1>3, <1>4, <1>5, SitesMoved

LEMMA AutoMigrateKeeps ==
  ASSUME MigInv, AutoMigrate
  PROVE  MigInv'
<1>1. platforms' = (IF HasTable(platforms) THEN platforms ELSE {}) /\ goApps = NoTable
  BY DEF AutoMigrate, MigInv, Walking
<1>2. /\ platforms' \in (SUBSET AllIds) \cup {NoTable} /\ HasTable(platforms)'
      /\ Unmerged => platforms' \in (SUBSET Old) \cup {NoTable}
      /\ RowsIn(platforms)' = RowsIn(platforms)
  <2>1. {} \in SUBSET AllIds /\ {} \in SUBSET Old /\ {} # NoTable
    BY NoSuchTable
  <2> QED BY <1>1, <2>1 DEF MigInv, Tabled, Unmerged, RowsIn, HasTable
<1>3. /\ UNCHANGED <<goApps, apps, websites, linked, bound, target, held, strangers>>
      /\ start' = "columns" /\ starts' = starts
  BY DEF AutoMigrate, AppRowsUntouched, Goes
<1>4. Tabled' /\ SitesKept'
  BY <1>2, <1>3 DEF MigInv, Tabled, SitesKept, RowsIn, HasTable
<1>5. Rest'
  BY <1>3 DEF AutoMigrate, MigInv, Rest, StartSteps
<1>6. Walking'
  BY <1>1, <1>2, <1>3 DEF Walking
<1>7. (Unmerged \/ Moved)'
  BY <1>2, <1>3 DEF MigInv, Unmerged, Moved, SameSite, Chained
<1> QED BY <1>4, <1>5, <1>6, <1>7 DEF MigInv

\* The statements between, each about a column of its own.
LEMMA ColumnsKeep ==
  ASSUME MigInv, ReconcilePlatformColumns \/ SyncUploadLimits \/ RepairWorkingDirectories
                   \/ \E t \in SecretTables : MigrateLegacySecrets(t)
  PROVE  MigInv'
<1>1. /\ UNCHANGED Tables /\ UNCHANGED <<linked, bound, target, held, strangers>> /\ starts' = starts
      /\ start \in {"columns", "limits", "basic_auths", "ftp_users", "workdirs"}
      /\ start' \in {"limits", "basic_auths", "ftp_users", "workdirs", "apps"}
  BY DEF ReconcilePlatformColumns, SyncUploadLimits, RepairWorkingDirectories,
     AppRowsUntouched, MigrateLegacySecrets, Goes, SecretTables
<1>2. HasTable(platforms) /\ goApps = NoTable
  BY <1>1 DEF MigInv, Walking
<1>3. Walking'
  BY <1>1, <1>2 DEF Walking, HasTable, Tables
<1>4. Rest'
  <2>1. CASE ReconcilePlatformColumns
    BY <1>1, <2>1 DEF ReconcilePlatformColumns, MigInv, Rest, StartSteps
  <2>2. CASE SyncUploadLimits
    BY <1>1, <2>2 DEF SyncUploadLimits, MigInv, Rest, StartSteps
  <2>3. CASE RepairWorkingDirectories
    BY <1>1, <2>3 DEF RepairWorkingDirectories, MigInv, Rest, StartSteps
  <2>4. CASE \E t \in SecretTables : MigrateLegacySecrets(t)
    BY <1>1, <2>4 DEF MigrateLegacySecrets, MigInv, Rest, StartSteps
  <2> QED BY <2>1, <2>2, <2>3, <2>4
<1> QED BY <1>1, <1>3, <1>4, RowsAlone

\* The columns of a platform are those of the last application merged into it.
LEMMA DescribesIs ==
  ASSUME NEW into \in [LegacyApps -> AllIds], held \in [AllIds -> LegacyApps \cup {0}],
         IsFiniteSet(LegacyApps), LegacyApps \subseteq Nat,
         \A a, b \in LegacyApps : into[a] = into[b] => a = b \/ SameSite(a, b)
  PROVE  /\ Describes(LegacyApps, into) \in [AllIds -> LegacyApps \cup {0}]
         /\ \A a \in LegacyApps : \/ Describes(LegacyApps, into)[into[a]] = a
                                 \/ \E b \in LegacyApps : SameSite(a, b)
<1> DEFINE At(p) == {a \in LegacyApps : into[a] = p}
<1>1. ASSUME NEW p \in AllIds, \E a \in LegacyApps : into[a] = p
      PROVE  Largest(At(p)) \in At(p)
  <2>1. At(p) \in SUBSET LegacyApps /\ At(p) # {} /\ At(p) \in SUBSET Nat
    BY <1>1
  <2> HIDE DEF At
  <2>2. IsFiniteSet(At(p))
    BY <2>1, FS_Subset
  <2> QED BY <2>1, <2>2, LargestIs
<1>2. ASSUME NEW p \in AllIds
      PROVE  (IF \E a \in LegacyApps : into[a] = p THEN Largest(At(p)) ELSE held[p])
               \in LegacyApps \cup {0}
  BY <1>1, <1>2
<1>3. Describes(LegacyApps, into) \in [AllIds -> LegacyApps \cup {0}]
  BY <1>2 DEF Describes
<1>4. ASSUME NEW a \in LegacyApps
      PROVE  \/ Describes(LegacyApps, into)[into[a]] = a
             \/ \E b \in LegacyApps : SameSite(a, b)
  <2>1. Describes(LegacyApps, into)[into[a]] = Largest(At(into[a])) /\ into[a] \in AllIds
    BY DEF Describes
  <2>2. Largest(At(into[a])) \in At(into[a])
    BY <1>1, <2>1
  <2> HIDE DEF At
  <2>3. PICK b \in LegacyApps : b = Largest(At(into[a])) /\ into[b] = into[a]
    BY <2>2 DEF At
  <2> QED BY <2>1, <2>3
<1> QED BY <1>3, <1>4

LEMMA MergeAppsKeeps ==
  ASSUME MigInv, MergeLegacyApps
  PROVE  MigInv'
<1>0. /\ Tabled /\ Rest /\ SitesKept /\ start = "apps" /\ HasTable(platforms) /\ goApps = NoTable
      /\ UNCHANGED <<goApps, websites, linked, strangers, columns, limits, secrets, workdir>>
      /\ start' = "up" /\ starts' = starts
  BY DEF MigInv, Walking, MergeLegacyApps, Goes
<1>1. Rest' /\ Walking'
  BY <1>0 DEF Rest, StartSteps, Walking
<1>2. CASE ~HasTable(apps)
  <2>1. UNCHANGED Tables /\ UNCHANGED <<linked, bound, target, held, strangers>>
    BY <1>0, <1>2 DEF MergeLegacyApps, Tables
  <2> QED BY <1>1, <2>1, RowsAlone
<1>3. CASE HasTable(apps)
  <2>1. Unmerged /\ apps = LegacyApps
    BY <1>3, NoSuchTable DEF MigInv, Unmerged, Moved
  <2> DEFINE into == Merged(LegacyApps)
  <2>2. /\ platforms \in SUBSET Old /\ platforms \in SUBSET AllIds
        /\ platforms \in SUBSET (Nat \ {0}) /\ IsFiniteSet(platforms)
    <3>1. platforms \in SUBSET Old
      BY <1>0, <2>1 DEF Unmerged, HasTable
    <3> QED BY <3>1, Ids, FS_Subset
  <2>3. IsFiniteSet(LegacyApps) /\ LegacyApps \subseteq Nat /\ linked \in [LegacyApps -> Nat]
    <3>1. LegacySites \cup {0} \subseteq Nat
      BY MigrationsAssumption
    <3>2. linked \in [LegacyApps -> LegacySites \cup {0}]
      BY <1>0 DEF Tabled
    <3>3. linked \in [LegacyApps -> Nat]
      BY <3>1, <3>2
    <3> QED BY <3>3, Ids
  <2>4. /\ into \in [LegacyApps -> Nat \ {0}]
        /\ \A a \in LegacyApps :
             into[a] \in platforms \cup 1..(Largest(platforms \cup {0}) + Cardinality(LegacyApps))
        /\ \A a, b \in LegacyApps : into[a] = into[b] => a = b \/ SameSite(a, b)
    BY <2>2, <2>3, MergedIs
  <2>5. /\ platforms' = platforms \cup {into[a] : a \in LegacyApps}
        /\ target' = into /\ apps' = NoTable
        /\ held' = Describes(LegacyApps, into)
        /\ \E order \in Orders(LegacyApps) : bound' = Rebound(order, into)
    BY <1>3, <2>1 DEF MergeLegacyApps
  <2>6. into \in [LegacyApps -> AllIds]
    <3>1. 1..(Largest(platforms \cup {0}) + Cardinality(LegacyApps)) \subseteq AllIds
      BY <2>2, Ids
    <3> HIDE DEF into
    <3> QED BY <2>2, <2>4, <3>1
  <2>7. PICK order \in Orders(LegacyApps) : bound' = Rebound(order, into)
    BY <2>5
  <2> HIDE DEF into
  <2>8. /\ bound' \in [LegacyApps -> AllIds]
        /\ (\E a, b \in LegacyApps : a # b /\ into[a] = b) \/ bound' = into
    <3>1. bound = [a \in LegacyApps |-> a] /\ LegacyApps \subseteq AllIds
      BY <2>1, Ids DEF Unmerged
    <3> QED BY <2>3, <2>6, <2>7, <3>1, ReboundIs
  <2>9. platforms' \in SUBSET AllIds /\ HasTable(platforms)' /\ RowsIn(platforms)' = platforms'
    <3>1. platforms' \in SUBSET AllIds
      BY <2>2, <2>5, <2>6
    <3>2. platforms' # NoTable
      BY <3>1, NoSuchTable
    <3> QED BY <3>1, <3>2 DEF HasTable, RowsIn
  <2>13. /\ held' \in [AllIds -> LegacyApps \cup {0}]
         /\ \A a \in LegacyApps :
              held'[into[a]] = a \/ \E b \in LegacyApps : SameSite(a, b)
    BY <1>0, <2>3, <2>4, <2>5, <2>6, DescribesIs DEF Tabled
  <2>10. Moved'
    <3>1. \A a \in LegacyApps : target'[a] \in RowsIn(platforms)'
      BY <2>5, <2>9
    <3>2. Chained' \/ bound' = target'
      BY <2>5, <2>8 DEF Chained
    <3>3. (\A a \in LegacyApps : held[target[a]] = a \/ \E b \in LegacyApps : SameSite(a, b))'
      BY <1>0, <2>5, <2>13 DEF SameSite
    <3>4. (\A a, b \in LegacyApps : target[a] = target[b] => a = b \/ SameSite(a, b))'
      BY <1>0, <2>4, <2>5 DEF SameSite
    <3> QED BY <1>0, <2>5, <3>1, <3>2, <3>3, <3>4 DEF Moved
  <2>11. Tabled'
    BY <1>0, <2>5, <2>6, <2>8, <2>9, <2>13 DEF Tabled
  <2>12. SitesKept'
    BY <1>0, <2>5, <2>9 DEF SitesKept, RowsIn, HasTable
  <2> QED BY <1>1, <2>10, <2>11, <2>12 DEF MigInv
<1> QED BY <1>2, <1>3

LEMMA StartAgainKeeps ==
  ASSUME MigInv, StartAgain
  PROVE  MigInv'
<1>1. starts' \in 0..MaxStarts
  <2>1. starts \in 0..MaxStarts /\ starts < MaxStarts /\ starts' = starts + 1 /\ MaxStarts \in Nat
    BY MigrationsAssumption DEF StartAgain, MigInv, Rest
  <2> QED BY <2>1
<1>2. Rest' /\ Walking'
  BY <1>1 DEF StartAgain, MigInv, Rest, StartSteps, RowsUntouched, AppRowsUntouched, Walking
<1>3. UNCHANGED Tables /\ UNCHANGED <<linked, bound, target, held, strangers>>
  BY DEF StartAgain, RowsUntouched, AppRowsUntouched
<1> QED BY <1>2, <1>3, RowsAlone

LEMMA MigrationsKeep ==
  ASSUME MigInv, [MigrationsNext]_migrationVars
  PROVE  MigInv'
<1>1. CASE UNCHANGED migrationVars
  <2>1. /\ UNCHANGED <<linked, bound, target, held, strangers>> /\ UNCHANGED Tables
        /\ UNCHANGED <<columns, limits, secrets, workdir, start, starts>>
    BY <1>1 DEF migrationVars, Tables
  <2>2. Rest' /\ Walking'
    BY <2>1 DEF MigInv, Rest, Walking, Tables, HasTable
  <2> QED BY <2>1, <2>2, RowsAlone
<1>2. CASE MigrationsNext
  BY <1>2, RenameGoAppsKeeps, DropGoAppsKeeps, RenameWebsitesKeeps, MergeWebsitesKeeps,
     DropWebsitesKeeps, AutoMigrateKeeps, ColumnsKeep, MergeAppsKeeps, StartAgainKeeps
     DEF MigrationsNext, Migrate
<1> QED BY <1>1, <1>2

LEMMA RowsThere ==
  ASSUME MigInv
  PROVE  RowsKept /\ MigrationsTypeOK
<1>1. MigrationsTypeOK
  <2>1. LegacyApps \in SUBSET LegacyApps /\ Old \subseteq AllIds
    BY Ids
  <2>2. goApps \in (SUBSET LegacyApps) \cup {NoTable} /\ apps \in (SUBSET LegacyApps) \cup {NoTable}
    BY <2>1 DEF MigInv, Unmerged, Moved
  <2>3. websites \in (SUBSET AllIds) \cup {NoTable}
    BY <2>1 DEF MigInv, Tabled
  <2> QED BY <2>2, <2>3 DEF MigInv, Tabled, Rest, MigrationsTypeOK, TablesOf
<1>2. CASE Unmerged
  <2>1. \A a \in LegacyApps : target[a] = 0 /\ bound[a] = a
    BY <1>2 DEF Unmerged
  <2>2. LegacyApps \subseteq RowsIn(goApps) \cup RowsIn(apps)
    BY <1>2, NoSuchTable DEF Unmerged
  <2>3. /\ LegacySites \ strangers \subseteq RowsIn(websites) \cup RowsIn(platforms)
        /\ strangers \subseteq RowsIn(platforms)
    BY DEF MigInv, SitesKept
  <2> QED BY <1>1, <2>1, <2>2, <2>3 DEF RowsKept
<1>3. CASE Moved
  <2>1. \A a \in LegacyApps : target[a] # 0
    <3>1. RowsIn(platforms) \subseteq AllIds
      BY DEF MigInv, Tabled, RowsIn, HasTable
    <3> QED BY <1>3, <3>1, Ids DEF Moved
  <2>2. /\ LegacySites \ strangers \subseteq RowsIn(websites) \cup RowsIn(platforms)
        /\ strangers \subseteq RowsIn(platforms)
    BY DEF MigInv, SitesKept
  <2>3. \A a \in LegacyApps :
          /\ target[a] \in RowsIn(platforms) /\ (Chained \/ bound[a] = target[a])
          /\ held[target[a]] = a \/ \E b \in LegacyApps : SameSite(a, b)
    BY <1>3 DEF Moved
  <2>4. \A a, b \in LegacyApps : target[a] = target[b] => a = b \/ SameSite(a, b)
    BY <1>3 DEF Moved
  <2> QED BY <1>1, <2>1, <2>2, <2>3, <2>4 DEF RowsKept
<1> QED BY <1>1, <1>2, <1>3 DEF MigInv

\* The tables, bindings and ids of a start stay well typed, wherever starts stop.
THEOREM MigrationsTyped == MigrationsSpec => []MigrationsTypeOK
BY MigrationsBegin, MigrationsKeep, RowsThere, PTL DEF MigrationsSpec

\* Whatever ids websites and applications had, and wherever starts stop, every website is in a
\* table, but one whose id a platform made since has, and those platforms stay; a merged
\* application is in a platform that describes it, or another of its website's, with the
\* variables bound to it, if no new id is an old one (migrate, database.go).
THEOREM RowsAlwaysKept == MigrationsSpec => []RowsKept
BY MigrationsBegin, MigrationsKeep, RowsThere, PTL DEF MigrationsSpec

-----------------------------------------------------------------------------
(* Transfers.  What has been said and not answered yet says how far each    *)
(* end has come in the one walk over the tree.                              *)

Steps == [route : Routes, ends : BOOLEAN]
Calls == [path : Seq(Nodes), intoDir : BOOLEAN, received : BOOLEAN, times : BOOLEAN]

\* The directory a name is in, and the one the walk is in before a step and before all of them.
Front(p) == [i \in 1..Len(p)-1 |-> p[i]]
In(e) == IF e.ends THEN e.route ELSE Front(e.route)
Dir(w) == IF w = <<>> THEN <<>> ELSE In(Head(w))

\* A walk goes on in the directory it is in, and its last step is at the root asked for.
WalkOK(w) ==
  /\ w \in Seq(Steps)
  /\ \A i \in 1..Len(w) : w[i].route \in Wanted /\ (w[i].ends => IsDirectory(w[i].route))
  /\ \A i \in 1..Len(w)-1 : In(w[i+1]) = Front(w[i].route) /\ Len(w[i].route) > 1
  /\ w # <<>> => Len(w[Len(w)].route) = 1
  /\ ~asked.recursive => Len(w) <= 1

Arrived(q) ==
  /\ Landing(q) \in DOMAIN landed
  /\ landed[Landing(q)] = IF IsDirectory(q) THEN "dir" ELSE "whole"
  /\ ~IsDirectory(q) /\ asked.preserve => Landing(q) \in timed
Delivered(ahead) == \A q \in Wanted \ ahead : Arrived(q)

\* Where a directory lands, the root of the request included.
Place(p) == IF asked.intoDir \/ p = <<>> THEN p ELSE Tail(p)
Upto(p, k) == [i \in 1..k |-> p[i]]
\* The calls of the receiver are those of the directories from the one at hand up to the root.
Nested(calls, there, d, over, times) ==
  /\ Len(calls) = Len(d) + 1
  /\ \A j \in 1..Len(calls) :
       /\ calls[j].path = Place(Upto(d, Len(calls) - j))
       /\ calls[j].intoDir <=> j < Len(calls) \/ asked.intoDir
       /\ calls[j].times = IF j = 1 THEN times ELSE asked.preserve
       /\ j < Len(calls) => calls[j].path \in there
       /\ j = Len(calls) => calls[j].received = over

\* The receiver has done what is before the walk w, or has stopped there.
InStep(w, pc, times) ==
  /\ WalkOK(w) /\ Delivered(AheadIn(w))
  /\ \/ Ended(receiver)
     \/ receiver.pc = pc /\ Nested(receiver.calls, DOMAIN landed, Dir(w), w = <<>>, times)

AtTurn(pc, w) ==
  /\ pc \in {"entry", "header", "data"}
  /\ pc = "header" => asked.preserve
  /\ pc # "entry" => w # <<>> /\ ~Head(w).ends
  /\ pc = "data" => ~IsDirectory(Head(w).route) /\ Landing(Head(w).route) \in DOMAIN landed
  /\ InStep(w, IF pc = "data" THEN "data" ELSE "line", asked.preserve /\ pc # "entry")

\* A line that is on its way, and the walk its answer is for.
TimesSent(l, after, w) ==
  /\ l.kind = "T" /\ after = "header" /\ asked.preserve
  /\ w # <<>> /\ ~Head(w).ends /\ l.node = Name(Head(w).route) /\ InStep(w, "line", FALSE)
FileSent(l, after, w) ==
  /\ l.kind = "C" /\ after = "data"
  /\ w # <<>> /\ ~Head(w).ends /\ ~IsDirectory(Head(w).route) /\ l.node = Name(Head(w).route)
  /\ InStep(w, "line", asked.preserve)
DataSent(l, after, w) ==
  /\ l.kind = "data" /\ after = "entry"
  /\ \E p \in Wanted : /\ ~IsDirectory(p) /\ l.node = Name(p) /\ Landing(p) \in DOMAIN landed
                       /\ InStep(<<Enter(p)>> \o w, "data", asked.preserve)
DirectorySent(l, after, w) ==
  /\ l.kind = "D" /\ after = "entry" /\ asked.recursive
  /\ \E p \in Wanted, rest \in Seq(Steps) :
       /\ IsDirectory(p) /\ l.node = Name(p) /\ w = EntriesOf(p) \o <<Leave(p)>> \o rest
       /\ InStep(<<Enter(p)>> \o rest, "line", asked.preserve)
EndSent(l, after, w) ==
  /\ l.kind = "E" /\ after = "entry"
  /\ \E p \in Wanted : l.node = Name(p) /\ InStep(<<Leave(p)>> \o w, "line", FALSE)
ErrorSent(l) == /\ l.kind = "error" /\ sender.pc = "failed" /\ l.node \in Nodes
                /\ receiver.pc \in {"line", "done", "failed"}
InFlight(l, after, w) ==
  \/ TimesSent(l, after, w) \/ FileSent(l, after, w) \/ DataSent(l, after, w)
  \/ DirectorySent(l, after, w) \/ EndSent(l, after, w) \/ ErrorSent(l)

\* Whose turn it is: nothing is said twice, and nobody speaks out of turn.
Waits == sender.pc \in {"ack", "failed"}
NotBegun ==
  /\ receiver.pc = "hello" /\ lines = <<>> /\ acks = <<>> /\ Waits
  /\ sender.after = "entry" /\ sender.walk = <<Enter(<<asked.root>>)>>
  /\ DOMAIN landed = {} /\ timed = {}
SendersTurn ==
  /\ lines = <<>> /\ acks = <<>> /\ sender.pc \in {"entry", "header", "data"}
  /\ sender.walk # <<>> /\ AtTurn(sender.pc, sender.walk)
LineSent ==
  /\ \E l \in [kind : {"T", "C", "data", "D", "E", "error"}, node : Nodes] :
       lines = <<l>> /\ InFlight(l, sender.after, sender.walk)
  /\ acks = <<>> /\ Waits
LineAnswered ==
  /\ lines = <<>> /\ acks = <<TRUE>> /\ Waits /\ receiver.pc # "hello"
  /\ sender.pc = "ack" => AtTurn(sender.after, sender.walk)
LineRefused == lines = <<>> /\ acks = <<FALSE>> /\ Waits /\ receiver.pc = "failed"
Silent ==
  /\ lines = <<>> /\ acks = <<>> /\ receiver.pc # "hello" /\ sender.pc \in {"ack", "done", "failed"}
Dialogue == NotBegun \/ SendersTurn \/ LineSent \/ LineAnswered \/ LineRefused \/ Silent

\* What the ends say of each other when they have stopped.
Stopped ==
  /\ cut => scpFailures > 0
  /\ sender.pc = "done" => sender.walk = <<>> /\ Delivered({})
  /\ receiver.pc = "done" /\ scpFailures = 0 => Delivered({})
  /\ sender.pc = "failed" /\ scpFailures = 0 =>
       Ended(receiver) \/ (receiver.pc = "line" /\ lines = <<>> /\ ~Top.received)

ScpTyped ==
  /\ asked \in Requests
  /\ sender \in [pc : {"ack", "entry", "header", "data", "done", "failed"},
                 after : {"", "entry", "header", "data"}, walk : Seq(Steps)]
  /\ receiver \in [pc : {"hello", "line", "data", "done", "failed"}, calls : Seq(Calls)]
  /\ cut \in BOOLEAN /\ scpFailures \in 0..MaxScpFailures
Landed ==
  /\ \A l \in DOMAIN landed : landed[l] \in {"dir", "empty", "whole"}
  /\ \A l \in DOMAIN landed : \E p \in Wanted : l = Landing(p)
  /\ timed \subseteq DOMAIN landed
  /\ ~asked.preserve => timed = {}
ScpInv == ScpTyped /\ Landed /\ Dialogue /\ Stopped

\* Sequences with one more in front, and without the one in front.
LEMMA ConsIs ==
  ASSUME NEW S, NEW e \in S, NEW w \in Seq(S)
  PROVE  /\ <<e>> \o w \in Seq(S) /\ Len(<<e>> \o w) = Len(w) + 1 /\ <<e>> \o w # <<>>
         /\ (<<e>> \o w)[1] = e /\ Head(<<e>> \o w) = e /\ Tail(<<e>> \o w) = w
         /\ \A i \in 1..Len(w) : (<<e>> \o w)[i+1] = w[i]
<1> DEFINE s == <<e>> \o w
<1>1. <<e>> \in Seq(S) /\ Len(<<e>>) = 1 /\ <<e>>[1] = e
  OBVIOUS
<1>2. s \in Seq(S) /\ Len(s) = Len(w) + 1 /\ s[1] = e /\ \A i \in 1..Len(w) : s[i+1] = w[i]
  <2>1. /\ s \in Seq(S) /\ Len(s) = Len(<<e>>) + Len(w)
        /\ \A i \in 1..Len(<<e>>) + Len(w) :
             s[i] = IF i <= Len(<<e>>) THEN <<e>>[i] ELSE w[i - Len(<<e>>)]
    BY <1>1, ConcatProperties
  <2>2. Len(w) \in Nat
    OBVIOUS
  <2> HIDE DEF s
  <2>3. \A i \in 1..Len(w) : s[i+1] = w[i]
    <3> TAKE i \in 1..Len(w)
    <3>1. i + 1 \in 1..Len(<<e>>) + Len(w) /\ ~(i + 1 <= 1) /\ i + 1 - 1 = i
      BY <1>1, <2>2
    <3> QED BY <1>1, <2>1, <3>1
  <2> QED BY <1>1, <2>1, <2>2, <2>3
<1> HIDE DEF s
<1>3. s # <<>> /\ Head(s) = e
  BY <1>2
<1>4. Tail(s) = w
  <2>1. /\ Tail(s) \in Seq(S) /\ Len(Tail(s)) = Len(s) - 1
        /\ \A i \in 1..Len(Tail(s)) : Tail(s)[i] = s[i+1]
    BY <1>2, <1>3, HeadTailProperties
  <2> QED BY <1>2, <2>1, SeqEqual
<1> QED BY <1>2, <1>3, <1>4 DEF s

LEMMA UnconsIs ==
  ASSUME NEW S, NEW w \in Seq(S), w # <<>>
  PROVE  /\ Head(w) \in S /\ Head(w) = w[1] /\ Tail(w) \in Seq(S) /\ Len(Tail(w)) = Len(w) - 1
         /\ w = <<Head(w)>> \o Tail(w)
<1>1. /\ Head(w) \in S /\ Head(w) = w[1] /\ Tail(w) \in Seq(S) /\ Len(Tail(w)) = Len(w) - 1
      /\ \A i \in 1..Len(Tail(w)) : Tail(w)[i] = w[i+1]
  BY HeadTailProperties
<1> DEFINE s == <<Head(w)>> \o Tail(w)
<1>2. /\ s \in Seq(S) /\ Len(s) = Len(Tail(w)) + 1 /\ s[1] = Head(w)
      /\ \A i \in 1..Len(Tail(w)) : s[i+1] = Tail(w)[i]
  BY <1>1, ConsIs
<1> HIDE DEF s
<1>3. Len(w) \in Nat /\ Len(s) = Len(w)
  BY <1>1, <1>2
<1>4. \A i \in 1..Len(s) : s[i] = w[i]
  <2> TAKE i \in 1..Len(s)
  <2>1. CASE i = 1
    BY <1>1, <1>2, <2>1
  <2>2. CASE i # 1
    <3>1. i - 1 \in 1..Len(Tail(w)) /\ (i - 1) + 1 = i
      BY <1>1, <1>3, <2>2
    <3>2. s[(i - 1) + 1] = Tail(w)[i - 1] /\ Tail(w)[i - 1] = w[(i - 1) + 1]
      BY <1>1, <1>2, <3>1
    <3> QED BY <3>1, <3>2
  <2> QED BY <2>1, <2>2
<1>5. s = w
  BY <1>2, <1>3, <1>4, SeqEqual
<1> QED BY <1>1, <1>5 DEF s

\* The names on the way to an entry.
LEMMA RouteIs ==
  ASSUME NEW p \in Routes
  PROVE  /\ p \in Seq(Nodes) /\ Len(p) \in Nat /\ 1 <= Len(p) /\ Len(p) <= MaxDepth /\ p # <<>>
         /\ IsRoute(p) /\ Name(p) \in Nodes /\ DOMAIN p = 1..Len(p)
         /\ \A i \in 1..Len(p) : p[i] \in Nodes
<1>1. PICK k \in 1..MaxDepth : p \in [1..k -> Nodes] /\ IsRoute(p)
  BY DEF Routes
<1>2. k \in Nat /\ p \in Seq(Nodes) /\ Len(p) = k
  BY <1>1, ScpAssumption
<1>3. \A i \in 1..Len(p) : p[i] \in Nodes
  BY <1>1, <1>2
<1>4. Len(p) \in 1..Len(p)
  BY <1>1, <1>2
<1> QED BY <1>1, <1>2, <1>3, <1>4, ScpAssumption DEF Name

\* Two names on the way that are as long and agree are one.
LEMMA RoutesEqual ==
  ASSUME NEW p \in Seq(Nodes), NEW q \in Seq(Nodes), Len(p) = Len(q), \A i \in 1..Len(p) : p[i] = q[i]
  PROVE  p = q
BY SeqEqual

LEMMA RouteGrows ==
  ASSUME NEW p \in Wanted, IsDirectory(p), NEW i \in 1..Len(Children[Name(p)])
  PROVE  LET q == Append(p, Children[Name(p)][i]) IN
         /\ q \in Wanted /\ Len(q) = Len(p) + 1 /\ Front(q) = p
         /\ Name(q) = Children[Name(p)][i]
<1> DEFINE c == Children[Name(p)][i]
           q == Append(p, c)
<1>1. p \in Routes /\ p[1] = asked.root
  BY DEF Wanted
<1>2. /\ p \in Seq(Nodes) /\ Len(p) \in Nat /\ 1 <= Len(p) /\ Len(p) <= MaxDepth
      /\ IsRoute(p) /\ \A j \in 1..Len(p) : p[j] \in Nodes
  BY <1>1, RouteIs
<1>3. c \in Nodes
  BY ScpAssumption DEF IsDirectory
<1>4. /\ q \in Seq(Nodes) /\ Len(q) = Len(p) + 1 /\ q[Len(p) + 1] = c
      /\ \A j \in 1..Len(p) : q[j] = p[j]
  BY <1>2, <1>3, AppendProperties
<1> HIDE DEF q
<1>5. IsRoute(q)
  <2> SUFFICES ASSUME NEW j \in 1..Len(q)-1
               PROVE  /\ q[j] \in Directories
                      /\ \E l \in 1..Len(Children[q[j]]) : Children[q[j]][l] = q[j+1]
    BY DEF IsRoute
  <2>1. j \in 1..Len(p) /\ q[j] = p[j]
    BY <1>2, <1>4
  <2>2. CASE j = Len(p)
    BY <1>4, <2>1, <2>2 DEF IsDirectory, Name
  <2>3. CASE j # Len(p)
    <3>1. j \in 1..Len(p)-1 /\ j + 1 \in 1..Len(p) /\ q[j+1] = p[j+1]
      BY <1>2, <1>4, <2>1, <2>3
    <3> QED BY <1>2, <2>1, <3>1 DEF IsRoute
  <2> QED BY <2>2, <2>3
<1>6. Len(q) \in 1..MaxDepth /\ q \in [1..Len(q) -> Nodes]
  <2>1. q \in [1..Len(q) -> Nodes]
    BY <1>4
  <2>2. Len(q) # MaxDepth + 1
    BY <1>5, <2>1, ScpAssumption
  <2> QED BY <1>2, <1>4, <2>1, <2>2, ScpAssumption
<1>7. q \in Routes
  BY <1>5, <1>6 DEF Routes
<1>8. q[1] = asked.root
  BY <1>1, <1>2, <1>4
<1>9. Front(q) = p
  <2>1. Front(q) = [j \in 1..Len(p) |-> p[j]]
    BY <1>2, <1>4 DEF Front
  <2> QED BY <1>2, <2>1
<1>10. Name(q) = c
  BY <1>4 DEF Name
<1> QED BY <1>4, <1>7, <1>8, <1>9, <1>10 DEF Wanted, q

\* What is below a directory is its entry, or below one of them.
LEMMA UnderEntries ==
  ASSUME NEW p \in Wanted, NEW q \in Wanted, Under(p, q), q # p
  PROVE  IsDirectory(p) /\ \E i \in 1..Len(Children[Name(p)]) :
                              Under(Append(p, Children[Name(p)][i]), q)
<1>1. /\ p \in Seq(Nodes) /\ Len(p) \in Nat /\ 1 <= Len(p) /\ \A j \in 1..Len(p) : p[j] \in Nodes
      /\ q \in Seq(Nodes) /\ Len(q) \in Nat /\ IsRoute(q)
  BY RouteIs DEF Wanted
<1>2. Len(p) < Len(q)
  <2>1. Len(p) <= Len(q) /\ \A i \in 1..Len(p) : q[i] = p[i]
    BY DEF Under
  <2>2. ASSUME Len(p) = Len(q) PROVE FALSE
    BY <1>1, <2>1, <2>2, RoutesEqual
  <2> QED BY <1>1, <2>1, <2>2
<1>3. Len(p) \in 1..Len(q)-1 /\ q[Len(p)] = Name(p)
  BY <1>1, <1>2 DEF Under, Name
<1>4. PICK i \in 1..Len(Children[Name(p)]) : Children[Name(p)][i] = q[Len(p)+1]
  BY <1>1, <1>3 DEF IsRoute
<1>5. IsDirectory(p)
  BY <1>1, <1>3 DEF IsRoute, IsDirectory
<1> DEFINE r == Append(p, Children[Name(p)][i])
<1>6. Len(r) = Len(p) + 1 /\ r[Len(p)+1] = q[Len(p)+1] /\ \A j \in 1..Len(p) : r[j] = p[j]
  <2>1. Children[Name(p)][i] \in Nodes
    BY <1>5, ScpAssumption DEF IsDirectory
  <2> QED BY <1>1, <1>4, <2>1, AppendProperties
<1> HIDE DEF r
<1>7. Under(r, q)
  BY <1>1, <1>2, <1>6 DEF Under
<1> QED BY <1>5, <1>7 DEF r

\* Entries land apart.
LEMMA LandApart ==
  ASSUME NEW p \in Wanted, NEW q \in Wanted, Landing(p) = Landing(q)
  PROVE  p = q
<1>1. /\ p \in Seq(Nodes) /\ p # <<>> /\ Len(p) \in Nat /\ 1 <= Len(p) /\ p[1] = asked.root
      /\ q \in Seq(Nodes) /\ q # <<>> /\ Len(q) \in Nat /\ 1 <= Len(q) /\ q[1] = asked.root
  BY RouteIs DEF Wanted
<1>2. CASE asked.intoDir
  BY <1>2 DEF Landing
<1>3. CASE ~asked.intoDir
  <2>1. Tail(p) = Tail(q)
    BY <1>3 DEF Landing
  <2>2. p = <<Head(p)>> \o Tail(p) /\ q = <<Head(q)>> \o Tail(q) /\ Head(p) = Head(q)
    BY <1>1, UnconsIs
  <2> QED BY <2>1, <2>2
<1> QED BY <1>2, <1>3

LEMMA FrontIs ==
  ASSUME NEW p \in Routes
  PROVE  /\ Front(p) \in Seq(Nodes) /\ Len(Front(p)) = Len(p) - 1
         /\ Front(p) = <<>> <=> Len(p) = 1
         /\ \A i \in 1..Len(p)-1 : Front(p)[i] = p[i]
<1>1. p \in Seq(Nodes) /\ Len(p) \in Nat /\ 1 <= Len(p)
  BY RouteIs
<1>2. Front(p) \in Seq(Nodes) /\ Len(Front(p)) = Len(p) - 1
  <2>1. \A i \in 1..Len(p)-1 : p[i] \in Nodes
    BY <1>1
  <2>2. Len(p)-1 \in Nat
    BY <1>1
  <2> QED BY <2>1, <2>2 DEF Front
<1>3. Front(p) = <<>> <=> Len(p) = 1
  BY <1>1, <1>2, EmptySeq
<1>4. \A i \in 1..Len(p)-1 : Front(p)[i] = p[i]
  BY DEF Front
<1> QED BY <1>2, <1>3, <1>4

\* After a step, the walk is in the directory the step is in.
LEMMA WalkFirst ==
  ASSUME NEW e \in Steps, NEW w \in Seq(Steps), WalkOK(<<e>> \o w)
  PROVE  /\ WalkOK(w) /\ e.route \in Wanted /\ (e.ends => IsDirectory(e.route))
         /\ Dir(<<e>> \o w) = In(e)
         /\ Dir(w) = Front(e.route) /\ (w = <<>> <=> Len(e.route) = 1)
<1> DEFINE s == <<e>> \o w
<1>1. /\ s \in Seq(Steps) /\ Len(s) = Len(w) + 1 /\ s # <<>> /\ s[1] = e /\ Head(s) = e
      /\ \A i \in 1..Len(w) : s[i+1] = w[i]
  BY ConsIs
<1>2. WalkOK(s)
  OBVIOUS
<1> HIDE DEF s
<1>3. Len(w) \in Nat
  OBVIOUS
<1>4. e.route \in Wanted /\ (e.ends => IsDirectory(e.route)) /\ Dir(s) = In(e)
  BY <1>1, <1>2, <1>3 DEF WalkOK, Dir
<1>5. CASE w = <<>>
  <2>1. Len(e.route) = 1
    BY <1>1, <1>2, <1>5 DEF WalkOK
  <2>2. WalkOK(w)
    BY <1>5 DEF WalkOK
  <2>3. Dir(w) = Front(e.route)
    BY <1>4, <1>5, <2>1, FrontIs DEF Dir, Wanted
  <2> QED BY <1>4, <1>5, <2>1, <2>2, <2>3 DEF s
<1>6. CASE w # <<>>
  <2>1. Len(w) >= 1
    BY <1>3, <1>6, EmptySeq
  <2>2. In(w[1]) = Front(e.route) /\ Len(e.route) > 1
    <3>1. 1 \in 1..Len(s)-1 /\ 1 \in 1..Len(w) /\ s[1+1] = w[1]
      BY <1>1, <1>3, <2>1
    <3> QED BY <1>1, <1>2, <3>1 DEF WalkOK
  <2>3. Dir(w) = Front(e.route)
    BY <1>6, <2>2, UnconsIs DEF Dir
  <2>4. WalkOK(w)
    <3>1. \A i \in 1..Len(w) : w[i].route \in Wanted /\ (w[i].ends => IsDirectory(w[i].route))
      <4> TAKE i \in 1..Len(w)
      <4>1. i + 1 \in 1..Len(s) /\ s[i+1] = w[i]
        BY <1>1, <1>3
      <4> QED BY <1>2, <4>1 DEF WalkOK
    <3>2. \A i \in 1..Len(w)-1 : In(w[i+1]) = Front(w[i].route) /\ Len(w[i].route) > 1
      <4> TAKE i \in 1..Len(w)-1
      <4>1. i + 1 \in 1..Len(s)-1 /\ s[i+1] = w[i] /\ s[(i+1)+1] = w[i+1]
        BY <1>1, <1>3
      <4> QED BY <1>2, <4>1 DEF WalkOK
    <3>3. Len(w[Len(w)].route) = 1
      <4>1. s[Len(s)] = w[Len(w)]
        BY <1>1, <1>3, <2>1
      <4> QED BY <1>1, <1>2, <4>1 DEF WalkOK
    <3>4. ~asked.recursive => Len(w) <= 1
      BY <1>1, <1>2, <1>3 DEF WalkOK
    <3> QED BY <3>1, <3>2, <3>3, <3>4 DEF WalkOK
  <2>5. Len(e.route) # 1
    BY <1>4, <2>2, RouteIs DEF Wanted
  <2> QED BY <1>4, <1>6, <2>3, <2>4, <2>5 DEF s
<1> QED BY <1>5, <1>6

\* The walk through a directory: its entries, its end, and what comes after it.
LEMMA EntriesAre ==
  ASSUME NEW p \in Wanted, IsDirectory(p), NEW rest \in Seq(Steps)
  PROVE  LET w == EntriesOf(p) \o <<Leave(p)>> \o rest
             n == Len(Children[Name(p)]) IN
         /\ n \in Nat /\ w \in Seq(Steps) /\ Len(w) = n + 1 + Len(rest) /\ w # <<>>
         /\ \A i \in 1..n : /\ w[i] = Enter(Append(p, Children[Name(p)][i]))
                            /\ Append(p, Children[Name(p)][i]) \in Wanted
         /\ w[n+1] = Leave(p)
         /\ \A i \in 1..Len(rest) : w[n+1+i] = rest[i]
<1> DEFINE n == Len(Children[Name(p)])
           a == EntriesOf(p)
           b == <<Leave(p)>>
           ab == a \o b
           w == ab \o rest
<1>1. n \in Nat /\ Children[Name(p)] \in Seq(Nodes)
  BY ScpAssumption DEF IsDirectory
<1>2. \A i \in 1..n : Append(p, Children[Name(p)][i]) \in Wanted
  BY RouteGrows
<1>3. \A q \in Wanted : Enter(q) \in Steps /\ Leave(q) \in Steps
  BY DEF Wanted, Enter, Leave, Steps
<1>4. a \in Seq(Steps) /\ Len(a) = n /\ \A i \in 1..n : a[i] = Enter(Append(p, Children[Name(p)][i]))
  <2>1. \A i \in 1..n : Enter(Append(p, Children[Name(p)][i])) \in Steps
    BY <1>2, <1>3
  <2> QED BY <1>1, <2>1 DEF EntriesOf
<1>5. b \in Seq(Steps) /\ Len(b) = 1 /\ b[1] = Leave(p)
  BY <1>3
<1> HIDE DEF a, b, n
<1>6. /\ ab \in Seq(Steps) /\ Len(ab) = n + 1 /\ ab[n+1] = Leave(p)
      /\ \A i \in 1..n : ab[i] = a[i]
  <2>1. /\ ab \in Seq(Steps) /\ Len(ab) = n + 1
        /\ \A i \in 1..n+1 : ab[i] = IF i <= n THEN a[i] ELSE b[i - n]
    <3>1. /\ ab \in Seq(Steps) /\ Len(ab) = Len(a) + Len(b)
          /\ \A i \in 1..Len(a)+Len(b) : ab[i] = IF i <= Len(a) THEN a[i] ELSE b[i - Len(a)]
      BY <1>4, <1>5, ConcatProperties
    <3> HIDE DEF ab
    <3> QED BY <1>4, <1>5, <3>1
  <2> HIDE DEF ab
  <2>2. n + 1 \in 1..n+1 /\ ~(n + 1 <= n) /\ (n + 1) - n = 1
    BY <1>1
  <2>3. \A i \in 1..n : i \in 1..n+1 /\ i <= n
    BY <1>1
  <2> QED BY <1>5, <2>1, <2>2, <2>3
<1> HIDE DEF ab
<1>7. /\ w \in Seq(Steps) /\ Len(w) = n + 1 + Len(rest)
      /\ \A i \in 1..n+1 : w[i] = ab[i]
      /\ \A i \in 1..Len(rest) : w[n+1+i] = rest[i]
  <2>1. /\ w \in Seq(Steps) /\ Len(w) = Len(ab) + Len(rest)
        /\ \A i \in 1..Len(ab)+Len(rest) : w[i] = IF i <= Len(ab) THEN ab[i] ELSE rest[i - Len(ab)]
    BY <1>6, ConcatProperties
  <2> HIDE DEF w
  <2>2. Len(rest) \in Nat
    OBVIOUS
  <2>3. \A i \in 1..n+1 : i \in 1..Len(ab)+Len(rest) /\ i <= Len(ab)
    BY <1>1, <1>6, <2>2
  <2>4. \A i \in 1..Len(rest) : /\ n+1+i \in 1..Len(ab)+Len(rest) /\ ~(n+1+i <= Len(ab))
                                /\ n+1+i - Len(ab) = i
    BY <1>1, <1>6, <2>2
  <2> QED BY <1>6, <2>1, <2>3, <2>4
<1> HIDE DEF w
<1>8. w # <<>>
  <2>1. Len(w) # 0
    BY <1>1, <1>7
  <2> QED BY <1>7, <2>1, EmptySeq
<1>9. \A i \in 1..n : i \in 1..n+1
  BY <1>1
<1>10. n+1 \in 1..n+1
  BY <1>1
<1> QED BY <1>1, <1>2, <1>4, <1>6, <1>7, <1>8, <1>9, <1>10 DEF w, ab, a, b, n

\* A directory is entered.
LEMMA WalkEnters ==
  ASSUME NEW p \in Wanted, IsDirectory(p), NEW rest \in Seq(Steps), WalkOK(<<Enter(p)>> \o rest),
         asked.recursive
  PROVE  LET w == EntriesOf(p) \o <<Leave(p)>> \o rest IN
         /\ WalkOK(w) /\ Dir(w) = p
         /\ Wanted \ AheadIn(w) \subseteq {p} \cup (Wanted \ AheadIn(<<Enter(p)>> \o rest))
<1> DEFINE w == EntriesOf(p) \o <<Leave(p)>> \o rest
           n == Len(Children[Name(p)])
           old == <<Enter(p)>> \o rest
           Child(i) == Append(p, Children[Name(p)][i])
<1>1. /\ n \in Nat /\ w \in Seq(Steps) /\ Len(w) = n + 1 + Len(rest) /\ w # <<>>
      /\ \A i \in 1..n : w[i] = Enter(Child(i)) /\ Child(i) \in Wanted
      /\ w[n+1] = Leave(p)
      /\ \A i \in 1..Len(rest) : w[n+1+i] = rest[i]
  BY EntriesAre
<1>2. \A i \in 1..n : Len(Child(i)) = Len(p) + 1 /\ Front(Child(i)) = p
  BY RouteGrows
<1>3. Enter(p) \in Steps /\ Enter(p).route = p /\ Enter(p).ends = FALSE
  BY DEF Enter, Steps, Wanted
<1>4. WalkOK(rest) /\ Dir(rest) = Front(p) /\ (rest = <<>> <=> Len(p) = 1)
  BY <1>3, WalkFirst
<1>5. /\ old \in Seq(Steps) /\ Len(old) = Len(rest) + 1 /\ old[1] = Enter(p)
      /\ \A i \in 1..Len(rest) : old[i+1] = rest[i]
  BY <1>3, ConsIs
<1>6. Len(rest) \in Nat /\ Len(p) \in Nat /\ 1 <= Len(p)
  BY RouteIs DEF Wanted
<1> HIDE DEF w, n, old, Child
<1>7. \A i \in 1..Len(w) : i \in 1..n \/ i = n+1 \/ (i-(n+1) \in 1..Len(rest) /\ i = n+1+(i-(n+1)))
  BY <1>1, <1>6
<1>8. Leave(p).route = p /\ Leave(p).ends = TRUE /\ \A q : Enter(q).route = q /\ Enter(q).ends = FALSE
  BY DEF Enter, Leave
<1>9. \A i \in 1..Len(w) : w[i].route \in Wanted /\ (w[i].ends => IsDirectory(w[i].route))
  <2> TAKE i \in 1..Len(w)
  <2>1. CASE i \in 1..n
    BY <1>1, <1>8, <2>1
  <2>2. CASE i = n+1
    BY <1>1, <1>8, <2>2
  <2>3. ASSUME NEW j \in 1..Len(rest), i = n+1+j PROVE w[i].route \in Wanted /\ (w[i].ends => IsDirectory(w[i].route))
    BY <1>1, <1>4, <2>3 DEF WalkOK
  <2> QED BY <1>7, <2>1, <2>2, <2>3
<1>10. \A i \in 1..Len(w)-1 : In(w[i+1]) = Front(w[i].route) /\ Len(w[i].route) > 1
  <2> SUFFICES ASSUME NEW i \in 1..Len(w)-1
               PROVE  In(w[i+1]) = Front(w[i].route) /\ Len(w[i].route) > 1
    OBVIOUS
  <2>1. CASE i \in 1..n
    <3>1. w[i].route = Child(i) /\ Front(w[i].route) = p /\ Len(w[i].route) > 1
      BY <1>1, <1>2, <1>6, <1>8, <2>1
    <3>2. CASE i < n
      <4>1. i+1 \in 1..n
        BY <1>1, <2>1, <3>2
      <4> QED BY <1>1, <1>2, <1>8, <3>1, <4>1 DEF In
    <3>3. CASE i = n
      BY <1>1, <1>8, <3>1, <3>3 DEF In
    <3> QED BY <1>1, <2>1, <3>2, <3>3
  <2>2. CASE i = n+1
    <3>1. 1 \in 1..Len(rest) /\ w[i+1] = rest[1] /\ rest # <<>> /\ rest[1] = Head(rest)
      <4>1. 1 \in 1..Len(rest)
        BY <1>1, <1>6, <2>2
      <4>2. rest # <<>>
        BY <4>1
      <4> QED BY <1>1, <2>2, <4>1, <4>2, UnconsIs
    <3>2. In(rest[1]) = Front(p) /\ Len(p) > 1
      <4>1. Len(p) # 1
        BY <1>4, <3>1
      <4>2. Len(p) > 1
        <5>1. \A k \in Nat : 1 <= k /\ k # 1 => k > 1
          OBVIOUS
        <5> QED BY <1>6, <4>1, <5>1
      <4>3. Dir(rest) = In(rest[1])
        BY <3>1 DEF Dir
      <4> QED BY <1>4, <4>2, <4>3
    <3> QED BY <1>1, <1>8, <2>2, <3>1, <3>2
  <2>3. ASSUME NEW j \in 1..Len(rest), i = n+1+j
        PROVE  In(w[i+1]) = Front(w[i].route) /\ Len(w[i].route) > 1
    <3>1. j \in 1..Len(rest)-1 /\ j+1 \in 1..Len(rest) /\ i+1 = n+1+(j+1)
      BY <1>1, <1>6, <2>3
    <3>2. w[i] = rest[j] /\ w[i+1] = rest[j+1]
      BY <1>1, <2>3, <3>1
    <3> QED BY <1>4, <3>1, <3>2 DEF WalkOK
  <2>4. i \in 1..Len(w)
    BY <1>1, <1>6
  <2> QED BY <1>7, <2>1, <2>2, <2>3, <2>4
<1>11. Len(w[Len(w)].route) = 1
  <2>1. CASE rest = <<>>
    BY <1>1, <1>4, <1>8, <2>1
  <2>2. CASE rest # <<>>
    <3>1. Len(rest) \in 1..Len(rest) /\ Len(w) = n+1+Len(rest)
      BY <1>1, <1>6, <2>2, EmptySeq
    <3> QED BY <1>1, <1>4, <2>2, <3>1 DEF WalkOK
  <2> QED BY <2>1, <2>2
<1>12. WalkOK(w)
  BY <1>1, <1>9, <1>10, <1>11 DEF WalkOK
<1>13. Dir(w) = p
  <2>1. Head(w) = w[1]
    BY <1>1, UnconsIs
  <2>2. CASE n = 0
    BY <1>1, <1>8, <2>1, <2>2 DEF Dir, In
  <2>3. CASE n # 0
    <3>1. 1 \in 1..n
      BY <1>1, <2>3
    <3> QED BY <1>1, <1>2, <1>8, <2>1, <3>1 DEF Dir, In
  <2> QED BY <2>2, <2>3
<1>14. ASSUME NEW q \in Wanted, q \notin AheadIn(w), q # p PROVE q \notin AheadIn(old)
  <2> SUFFICES ASSUME NEW i \in 1..Len(old), ~old[i].ends, Under(old[i].route, q) PROVE FALSE
    BY DEF AheadIn
  <2>1. CASE i = 1
    <3>1. Under(p, q)
      BY <1>3, <1>5, <2>1
    <3>2. PICK j \in 1..n : Under(Child(j), q)
      BY <1>14, <3>1, UnderEntries DEF n, Child
    <3>3. j \in 1..Len(w) /\ w[j] = Enter(Child(j))
      BY <1>1, <1>6
    <3> QED BY <1>8, <1>14, <3>2, <3>3 DEF AheadIn
  <2>2. CASE i # 1
    <3>1. i-1 \in 1..Len(rest) /\ i = (i-1)+1 /\ n+1+(i-1) \in 1..Len(w)
      BY <1>1, <1>5, <1>6, <2>2
    <3>2. old[i] = rest[i-1] /\ w[n+1+(i-1)] = rest[i-1]
      BY <1>1, <1>5, <3>1
    <3> QED BY <1>14, <3>1, <3>2 DEF AheadIn
  <2> QED BY <2>1, <2>2
<1> QED BY <1>12, <1>13, <1>14 DEF w, old

\* An entry in front is ahead with what is below it, and an end hides nothing.
LEMMA AheadFirst ==
  ASSUME NEW e \in Steps, NEW w \in Seq(Steps)
  PROVE  AheadIn(<<e>> \o w) = AheadIn(w) \cup {q \in Wanted : ~e.ends /\ Under(e.route, q)}
<1> DEFINE s == <<e>> \o w
<1>1. /\ s \in Seq(Steps) /\ Len(s) = Len(w) + 1 /\ s[1] = e
      /\ \A i \in 1..Len(w) : s[i+1] = w[i]
  BY ConsIs
<1>2. Len(w) \in Nat
  OBVIOUS
<1> HIDE DEF s
<1>3. \A i \in 1..Len(s) : i = 1 \/ (i-1 \in 1..Len(w) /\ i = (i-1)+1)
  BY <1>1, <1>2
<1>4. 1 \in 1..Len(s) /\ \A i \in 1..Len(w) : i+1 \in 1..Len(s)
  BY <1>1, <1>2
<1>5. ASSUME NEW q \in AheadIn(s)
      PROVE  q \in AheadIn(w) \cup {r \in Wanted : ~e.ends /\ Under(e.route, r)}
  <2>1. PICK i \in 1..Len(s) : ~s[i].ends /\ Under(s[i].route, q)
    BY DEF AheadIn
  <2>2. q \in Wanted
    BY DEF AheadIn
  <2>3. CASE i = 1
    BY <1>1, <2>1, <2>2, <2>3
  <2>4. ASSUME NEW j \in 1..Len(w), i = j+1 PROVE q \in AheadIn(w)
    <3>1. s[i] = w[j]
      BY <1>1, <2>4
    <3> QED BY <2>1, <2>2, <3>1 DEF AheadIn
  <2> QED BY <1>3, <2>3, <2>4
<1>6. ASSUME NEW q \in Wanted, ~e.ends, Under(e.route, q) PROVE q \in AheadIn(s)
  BY <1>1, <1>4, <1>6 DEF AheadIn
<1>7. ASSUME NEW q \in AheadIn(w) PROVE q \in AheadIn(s)
  <2>1. PICK i \in 1..Len(w) : ~w[i].ends /\ Under(w[i].route, q)
    BY DEF AheadIn
  <2>2. s[i+1] = w[i] /\ i+1 \in 1..Len(s)
    BY <1>1, <1>4
  <2>3. q \in Wanted
    BY DEF AheadIn
  <2> QED BY <2>1, <2>2, <2>3 DEF AheadIn
<1> QED BY <1>5, <1>6, <1>7 DEF s

LEMMA UptoIs ==
  ASSUME NEW p \in Routes
  PROVE  /\ Upto(p, Len(p)) = p /\ Upto(p, Len(p)-1) = Front(p)
         /\ \A k \in 0..Len(p)-1 : Upto(Front(p), k) = Upto(p, k)
<1>1. p \in Seq(Nodes) /\ Len(p) \in Nat /\ 1 <= Len(p) /\ DOMAIN p = 1..Len(p)
  BY RouteIs
<1>2. Upto(p, Len(p)) = p /\ Upto(p, Len(p)-1) = Front(p)
  BY <1>1 DEF Upto, Front
<1>3. ASSUME NEW k \in 0..Len(p)-1 PROVE Upto(Front(p), k) = Upto(p, k)
  <2>1. \A i \in 1..k : Front(p)[i] = p[i]
    BY <1>1, <1>3, FrontIs
  <2> QED BY <2>1 DEF Upto
<1> QED BY <1>2, <1>3

\* The entry that is announced lands where the call at hand puts it.
LEMMA DestinationIs ==
  ASSUME NEW p \in Wanted, asked \in Requests, receiver.calls \in Seq(Calls), NEW there, NEW times,
         Nested(receiver.calls, there, Front(p), FALSE, times)
  PROVE  /\ Destination(Name(p)) = Landing(p)
         /\ receiver.calls # <<>> /\ Top = receiver.calls[1] /\ Top.times = times
         /\ Len(receiver.calls) = Len(p)
<1> DEFINE calls == receiver.calls
           f == Front(p)
<1>1. /\ p \in Seq(Nodes) /\ Len(p) \in Nat /\ 1 <= Len(p) /\ p \in Routes /\ Name(p) = p[Len(p)]
      /\ Name(p) \in Nodes
  BY RouteIs DEF Wanted, Name
<1>2. /\ f \in Seq(Nodes) /\ Len(f) = Len(p) - 1 /\ (f = <<>> <=> Len(p) = 1)
      /\ \A i \in 1..Len(p)-1 : f[i] = p[i]
  BY <1>1, FrontIs
<1>3. Len(calls) = Len(p)
  BY <1>1, <1>2 DEF Nested
<1>4. calls # <<>> /\ Top = calls[1]
  <2>1. calls # <<>>
    BY <1>1, <1>3, EmptySeq
  <2> QED BY <2>1, UnconsIs DEF Top
<1>5. Upto(f, Len(p)-1) = f
  BY <1>1, UptoIs
<1>6. /\ Top.path = Place(f) /\ (Top.intoDir <=> Len(p) > 1 \/ asked.intoDir) /\ Top.times = times
      /\ Len(p) = 1 => Top.received = FALSE
  <2>1. 1 \in 1..Len(calls)
    BY <1>1, <1>3
  <2> QED BY <1>1, <1>3, <1>4, <1>5, <2>1 DEF Nested
<1>7. /\ Append(f, Name(p)) \in Seq(Nodes) /\ Len(Append(f, Name(p))) = Len(p)
      /\ \A i \in 1..Len(p) : Append(f, Name(p))[i] = p[i]
  <2>1. /\ Append(f, Name(p)) \in Seq(Nodes) /\ Len(Append(f, Name(p))) = Len(f)+1
        /\ \A i \in 1..Len(f) : Append(f, Name(p))[i] = f[i]
        /\ Append(f, Name(p))[Len(f)+1] = Name(p)
    BY <1>1, <1>2, AppendProperties
  <2> QED BY <1>1, <1>2, <2>1
<1>8. Append(f, Name(p)) = p
  BY <1>1, <1>7, RoutesEqual
<1>9. CASE asked.intoDir
  <2>1. Top.path = f /\ Top.intoDir = TRUE /\ Landing(p) = p
    BY <1>6, <1>9 DEF Landing, Place, Calls
  <2> QED BY <1>3, <1>4, <1>6, <1>8, <2>1 DEF Destination
<1>10. CASE ~asked.intoDir /\ Len(p) = 1
  <2>1. Tail(p) = <<>>
    <3>1. Tail(p) \in Seq(Nodes) /\ Len(Tail(p)) = 0
      <4>1. p # <<>>
        BY <1>1, EmptySeq
      <4>2. Tail(p) \in Seq(Nodes) /\ Len(Tail(p)) = Len(p) - 1
        BY <1>1, <4>1, UnconsIs
      <4> QED BY <1>10, <4>2
    <3> QED BY <3>1, EmptySeq
  <2>2. Destination(Name(p)) = Top.path
    BY <1>1, <1>6, <1>10 DEF Destination
  <2>3. Top.path = <<>>
    BY <1>2, <1>6, <1>10 DEF Place
  <2>4. Landing(p) = Tail(p)
    BY <1>10 DEF Landing
  <2> QED BY <1>3, <1>4, <1>6, <2>1, <2>2, <2>3, <2>4
<1>11. CASE ~asked.intoDir /\ Len(p) # 1
  <2>1. Len(p) > 1
    <3>1. \A k \in Nat : 1 <= k /\ k # 1 => k > 1
      OBVIOUS
    <3> QED BY <1>1, <1>11, <3>1
  <2>2. f # <<>> /\ p # <<>>
    BY <1>1, <1>2, <1>11, EmptySeq
  <2>3. Destination(Name(p)) = Append(Tail(f), Name(p))
    BY <1>6, <1>11, <2>1, <2>2 DEF Destination, Place
  <2>4. /\ Tail(f) \in Seq(Nodes) /\ Len(Tail(f)) = Len(p) - 2
        /\ \A i \in 1..Len(p)-2 : Tail(f)[i] = f[i+1]
    BY <1>1, <1>2, <2>2, HeadTailProperties
  <2>5. /\ Tail(p) \in Seq(Nodes) /\ Len(Tail(p)) = Len(p) - 1
        /\ \A i \in 1..Len(p)-1 : Tail(p)[i] = p[i+1]
    BY <1>1, <2>2, HeadTailProperties
  <2>6. /\ Append(Tail(f), Name(p)) \in Seq(Nodes) /\ Len(Append(Tail(f), Name(p))) = Len(p) - 1
        /\ \A i \in 1..Len(p)-2 : Append(Tail(f), Name(p))[i] = Tail(f)[i]
        /\ Append(Tail(f), Name(p))[Len(p)-1] = Name(p)
    <3>1. /\ Append(Tail(f), Name(p)) \in Seq(Nodes)
          /\ Len(Append(Tail(f), Name(p))) = Len(Tail(f))+1
          /\ \A i \in 1..Len(Tail(f)) : Append(Tail(f), Name(p))[i] = Tail(f)[i]
          /\ Append(Tail(f), Name(p))[Len(Tail(f))+1] = Name(p)
      BY <1>1, <2>4, AppendProperties
    <3>2. Len(p) - 2 + 1 = Len(p) - 1
      BY <1>1
    <3> QED BY <2>4, <3>1, <3>2
  <2>7. \A i \in 1..Len(p)-1 : Append(Tail(f), Name(p))[i] = Tail(p)[i]
    <3> TAKE i \in 1..Len(p)-1
    <3>1. CASE i = Len(p)-1
      BY <1>1, <2>5, <2>6, <3>1
    <3>2. CASE i # Len(p)-1
      <4>1. i \in 1..Len(p)-2 /\ i+1 \in 1..Len(p)-1
        BY <1>1, <3>2
      <4> QED BY <1>2, <2>4, <2>5, <2>6, <4>1
    <3> QED BY <3>1, <3>2
  <2>8. Append(Tail(f), Name(p)) = Tail(p)
    BY <2>5, <2>6, <2>7, RoutesEqual
  <2>9. Landing(p) = Tail(p)
    BY <1>11 DEF Landing
  <2> QED BY <1>3, <1>4, <1>6, <2>3, <2>8, <2>9
<1> QED BY <1>9, <1>10, <1>11

\* A call for a directory that has landed.
LEMMA NestedPush ==
  ASSUME NEW p \in Wanted, asked \in Requests, NEW calls \in Seq(Calls), NEW there, NEW grown,
         there \subseteq grown, Landing(p) \in grown,
         Nested(calls, there, Front(p), FALSE, asked.preserve)
  PROVE  /\ <<Frame(Landing(p), TRUE)>> \o calls \in Seq(Calls)
         /\ Nested(<<Frame(Landing(p), TRUE)>> \o calls, grown, p, FALSE, FALSE)
<1> DEFINE s == <<Frame(Landing(p), TRUE)>> \o calls
<1>1. /\ p \in Seq(Nodes) /\ Len(p) \in Nat /\ 1 <= Len(p) /\ p \in Routes /\ p # <<>>
  BY RouteIs DEF Wanted
<1>2. Len(Front(p)) = Len(p) - 1 /\ Len(calls) = Len(p)
  BY <1>1, FrontIs DEF Nested
<1>3. Frame(Landing(p), TRUE) \in Calls
  <2>1. Landing(p) \in Seq(Nodes)
    BY <1>1, UnconsIs DEF Landing
  <2> QED BY <2>1 DEF Frame, Calls
<1>4. /\ s \in Seq(Calls) /\ Len(s) = Len(p) + 1 /\ s[1] = Frame(Landing(p), TRUE)
      /\ \A i \in 1..Len(p) : s[i+1] = calls[i]
  <2>1. /\ s \in Seq(Calls) /\ Len(s) = Len(calls) + 1 /\ s[1] = Frame(Landing(p), TRUE)
        /\ \A i \in 1..Len(calls) : s[i+1] = calls[i]
    <3> DEFINE top == Frame(Landing(p), TRUE)
    <3>1. top \in Calls
      BY <1>3
    <3> HIDE DEF top
    <3>2. /\ <<top>> \o calls \in Seq(Calls) /\ Len(<<top>> \o calls) = Len(calls) + 1
          /\ (<<top>> \o calls)[1] = top
          /\ \A i \in 1..Len(calls) : (<<top>> \o calls)[i+1] = calls[i]
      BY <3>1, ConsIs
    <3> QED BY <3>2 DEF top
  <2> HIDE DEF s
  <2> QED BY <1>2, <2>1
<1> HIDE DEF s
<1>5. Landing(p) = Place(p)
  BY <1>1 DEF Landing, Place
<1>6. ASSUME NEW j \in 1..Len(s)
      PROVE  /\ s[j].path = Place(Upto(p, Len(s) - j))
             /\ s[j].intoDir <=> j < Len(s) \/ asked.intoDir
             /\ s[j].times = IF j = 1 THEN FALSE ELSE asked.preserve
             /\ j < Len(s) => s[j].path \in grown
             /\ j = Len(s) => s[j].received = FALSE
  <2>1. CASE j = 1
    <3>1. Len(s) - j = Len(p) /\ j < Len(s)
      BY <1>1, <1>4, <2>1
    <3>2. s[j].path = Landing(p) /\ s[j].intoDir = TRUE /\ s[j].times = FALSE
      BY <1>4, <2>1 DEF Frame
    <3>3. Upto(p, Len(s) - j) = p
      BY <1>1, <3>1, UptoIs
    <3>4. s[j].path = Place(Upto(p, Len(s) - j))
      BY <1>5, <3>2, <3>3
    <3>5. j # Len(s)
      BY <1>1, <1>4, <2>1
    <3> QED BY <2>1, <3>1, <3>2, <3>4, <3>5
  <2>2. CASE j # 1
    <3>1. /\ j-1 \in 1..Len(calls) /\ j = (j-1)+1 /\ Len(calls) - (j-1) = Len(s) - j
          /\ Len(s) - j \in 0..Len(p)-1
          /\ (j-1 < Len(calls) <=> j < Len(s)) /\ (j-1 = Len(calls) <=> j = Len(s))
      BY <1>1, <1>2, <1>4, <2>2
    <3>2. s[j] = calls[j-1]
      BY <1>2, <1>4, <3>1
    <3>3. Upto(Front(p), Len(s) - j) = Upto(p, Len(s) - j)
      BY <1>1, <3>1, UptoIs
    <3>4. /\ calls[j-1].path = Place(Upto(Front(p), Len(calls) - (j-1)))
          /\ calls[j-1].intoDir <=> j-1 < Len(calls) \/ asked.intoDir
          /\ calls[j-1].times = asked.preserve
          /\ j-1 < Len(calls) => calls[j-1].path \in there
          /\ j-1 = Len(calls) => calls[j-1].received = FALSE
      BY <3>1 DEF Nested
    <3> QED BY <2>2, <3>1, <3>2, <3>3, <3>4
  <2> QED BY <2>1, <2>2
<1> QED BY <1>4, <1>6 DEF Nested, s

\* The call of a directory returns.
LEMMA NestedPop ==
  ASSUME NEW p \in Wanted, asked \in Requests, NEW calls \in Seq(Calls), NEW there, NEW times,
         Nested(calls, there, p, FALSE, times)
  PROVE  /\ calls # <<>> /\ Head(calls) = calls[1] /\ calls[1].path = Landing(p)
         /\ Len(calls) = Len(p) + 1 /\ Landing(p) \in there
         /\ Tail(calls) \in Seq(Calls) /\ Tail(calls) # <<>> /\ Tail(calls)[1] = calls[2]
         /\ calls[2].times = asked.preserve
         /\ Nested(Tail(calls), there, Front(p), FALSE, asked.preserve)
<1> DEFINE s == Tail(calls)
<1>1. /\ p \in Seq(Nodes) /\ Len(p) \in Nat /\ 1 <= Len(p) /\ p \in Routes /\ p # <<>>
  BY RouteIs DEF Wanted
<1>2. Len(Front(p)) = Len(p) - 1 /\ Len(calls) = Len(p) + 1
  BY <1>1, FrontIs DEF Nested
<1>3. calls # <<>> /\ Head(calls) = calls[1]
  <2>1. calls # <<>>
    BY <1>1, <1>2, EmptySeq
  <2> QED BY <2>1, UnconsIs
<1>4. s \in Seq(Calls) /\ Len(s) = Len(p) /\ \A i \in 1..Len(s) : s[i] = calls[i+1]
  BY <1>1, <1>2, <1>3, HeadTailProperties
<1> HIDE DEF s
<1>5. 1 \in 1..Len(calls) /\ 2 \in 1..Len(calls) /\ 1 < Len(calls) /\ 1 \in 1..Len(s) /\ 1+1 = 2
      /\ Len(calls) - 1 = Len(p) /\ 2 # 1
  BY <1>1, <1>2, <1>4
<1>6. calls[1].path = Landing(p) /\ Landing(p) \in there /\ calls[2].times = asked.preserve
  <2>1. calls[1].path = Place(Upto(p, Len(calls) - 1)) /\ calls[1].path \in there
        /\ calls[2].times = asked.preserve
    BY <1>5 DEF Nested
  <2>2. Upto(p, Len(calls) - 1) = p
    BY <1>1, <1>5, UptoIs
  <2> QED BY <1>1, <2>1, <2>2 DEF Place, Landing
<1>7. s # <<>> /\ s[1] = calls[2]
  <2>1. s[1] = calls[1+1]
    BY <1>4, <1>5
  <2> QED BY <1>1, <1>4, <1>5, <2>1, EmptySeq
<1>8. ASSUME NEW j \in 1..Len(s)
      PROVE  /\ s[j].path = Place(Upto(Front(p), Len(s) - j))
             /\ s[j].intoDir <=> j < Len(s) \/ asked.intoDir
             /\ s[j].times = asked.preserve
             /\ j < Len(s) => s[j].path \in there
             /\ j = Len(s) => s[j].received = FALSE
  <2>1. /\ j+1 \in 1..Len(calls) /\ j+1 # 1 /\ Len(calls) - (j+1) = Len(s) - j
        /\ Len(s) - j \in 0..Len(p)-1
        /\ (j+1 < Len(calls) <=> j < Len(s)) /\ (j+1 = Len(calls) <=> j = Len(s))
    BY <1>1, <1>2, <1>4
  <2>2. s[j] = calls[j+1] /\ Upto(Front(p), Len(s) - j) = Upto(p, Len(s) - j)
    BY <1>1, <1>4, <2>1, UptoIs
  <2>3. /\ calls[j+1].path = Place(Upto(p, Len(calls) - (j+1)))
        /\ calls[j+1].intoDir <=> j+1 < Len(calls) \/ asked.intoDir
        /\ calls[j+1].times = asked.preserve
        /\ j+1 < Len(calls) => calls[j+1].path \in there
        /\ j+1 = Len(calls) => calls[j+1].received = FALSE
    BY <2>1 DEF Nested
  <2> QED BY <2>1, <2>2, <2>3
<1>9. Nested(s, there, Front(p), FALSE, asked.preserve)
  <2>1. Len(s) = Len(Front(p)) + 1
    BY <1>1, <1>2, <1>4
  <2> QED BY <1>8, <2>1 DEF Nested
<1> QED BY <1>2, <1>3, <1>4, <1>6, <1>7, <1>9 DEF s

\* The call at hand notes what it has read.
LEMMA NestedTop ==
  ASSUME NEW calls \in Seq(Calls), calls # <<>>, NEW there, NEW grown, there \subseteq grown,
         NEW d, NEW over, NEW times, Nested(calls, there, d, over, times),
         NEW c \in Calls, c.path = calls[1].path, c.intoDir = calls[1].intoDir, NEW done,
         IF Len(calls) = 1 THEN c.received = done ELSE done = over
  PROVE  /\ <<c>> \o Tail(calls) \in Seq(Calls)
         /\ Nested(<<c>> \o Tail(calls), grown, d, done, c.times)
<1> DEFINE s == <<c>> \o Tail(calls)
<1>1. Tail(calls) \in Seq(Calls) /\ Len(Tail(calls)) = Len(calls) - 1 /\ Len(calls) \in Nat
      /\ Len(calls) # 0 /\ \A i \in 1..Len(Tail(calls)) : Tail(calls)[i] = calls[i+1]
  BY HeadTailProperties, EmptySeq
<1>2. /\ s \in Seq(Calls) /\ Len(s) = Len(Tail(calls)) + 1 /\ s[1] = c
      /\ \A i \in 1..Len(Tail(calls)) : s[i+1] = Tail(calls)[i]
  BY <1>1, ConsIs
<1> HIDE DEF s
<1>3. Len(s) = Len(calls)
  BY <1>1, <1>2
<1>4. ASSUME NEW j \in 1..Len(s), j # 1 PROVE s[j] = calls[j]
  <2>1. j-1 \in 1..Len(Tail(calls)) /\ (j-1)+1 = j
    BY <1>1, <1>3, <1>4
  <2> QED BY <1>1, <1>2, <2>1
<1>5. ASSUME NEW j \in 1..Len(s)
      PROVE  /\ s[j].path = Place(Upto(d, Len(s) - j))
             /\ s[j].intoDir <=> j < Len(s) \/ asked.intoDir
             /\ s[j].times = IF j = 1 THEN c.times ELSE asked.preserve
             /\ j < Len(s) => s[j].path \in grown
             /\ j = Len(s) => s[j].received = done
  <2>1. /\ calls[j].path = Place(Upto(d, Len(calls) - j))
        /\ calls[j].intoDir <=> j < Len(calls) \/ asked.intoDir
        /\ calls[j].times = IF j = 1 THEN times ELSE asked.preserve
        /\ j < Len(calls) => calls[j].path \in there
        /\ j = Len(calls) => calls[j].received = over
    BY <1>3 DEF Nested
  <2>2. CASE j = 1
    BY <1>2, <1>3, <2>1, <2>2
  <2>3. CASE j # 1
    <3>1. j = Len(calls) => done = over
      BY <2>3
    <3> QED BY <1>3, <1>4, <2>1, <2>3, <3>1
  <2> QED BY <2>2, <2>3
<1>6. Len(s) = Len(d) + 1
  BY <1>3 DEF Nested
<1> QED BY <1>2, <1>5, <1>6 DEF Nested, s

\* What an entry is depends on the request alone.
LEMMA RootWanted ==
  ASSUME asked \in Requests
  PROVE  <<asked.root>> \in Wanted /\ \A q \in Wanted : Under(<<asked.root>>, q)
<1>1. asked.root \in Nodes
  BY ScpAssumption DEF Requests
<1> DEFINE r == <<asked.root>>
<1>2. r \in Seq(Nodes) /\ Len(r) = 1 /\ r[1] = asked.root /\ r \in [1..1 -> Nodes]
  BY <1>1
<1> HIDE DEF r
<1>3. IsRoute(r)
  BY <1>2 DEF IsRoute
<1>4. r \in Routes
  BY <1>2, <1>3, ScpAssumption DEF Routes
<1>5. \A q \in Wanted : Under(r, q)
  BY <1>2, RouteIs DEF Wanted, Under
<1> QED BY <1>2, <1>4, <1>5 DEF Wanted, r

\* Nothing that was said changes as long as the receiver does not go on.
LEMMA InStepKept ==
  ASSUME UNCHANGED <<asked, landed, timed>>, receiver' = receiver \/ Ended(receiver')
  PROVE  /\ \A w, pc, times : InStep(w, pc, times) => InStep(w, pc, times)'
         /\ \A w, pc : AtTurn(pc, w) => AtTurn(pc, w)'
         /\ \A l, after, w :
              /\ TimesSent(l, after, w) => TimesSent(l, after, w)'
              /\ FileSent(l, after, w) => FileSent(l, after, w)'
              /\ DataSent(l, after, w) => DataSent(l, after, w)'
              /\ DirectorySent(l, after, w) => DirectorySent(l, after, w)'
              /\ EndSent(l, after, w) => EndSent(l, after, w)'
         /\ \A ahead : Delivered(ahead) => Delivered(ahead)'
<1>1. /\ Wanted' = Wanted /\ \A w : WalkOK(w)' <=> WalkOK(w)
      /\ \A w : AheadIn(w)' = AheadIn(w)
      /\ \A q : Landing(q)' = Landing(q) /\ Place(q)' = Place(q)
  BY DEF Wanted, WalkOK, AheadIn, Landing, Place
<1>2. \A q : Arrived(q)' <=> Arrived(q)
  BY <1>1 DEF Arrived
<1>3. \A ahead : Delivered(ahead) => Delivered(ahead)'
  BY <1>1, <1>2 DEF Delivered
<1>4. \A calls, there, d, over, times :
        Nested(calls, there, d, over, times)' <=> Nested(calls, there, d, over, times)
  BY <1>1 DEF Nested
<1>5. ASSUME NEW w, NEW pc, NEW times, InStep(w, pc, times) PROVE InStep(w, pc, times)'
  <2>1. WalkOK(w)' /\ Delivered(AheadIn(w))'
    BY <1>1, <1>2, <1>5 DEF InStep, Delivered
  <2>2. CASE Ended(receiver')
    BY <2>1, <2>2 DEF InStep
  <2>3. CASE receiver' = receiver
    <3>1. Ended(receiver) \/ (receiver.pc = pc /\ Nested(receiver.calls, DOMAIN landed, Dir(w), w = <<>>, times))
      BY <1>5 DEF InStep
    <3>2. Nested(receiver.calls, DOMAIN landed, Dir(w), w = <<>>, times)
            => Nested(receiver.calls, DOMAIN landed, Dir(w), w = <<>>, times)'
      BY <1>1, <2>3 DEF Nested
    <3> QED BY <2>1, <2>3, <3>1, <3>2 DEF InStep
  <2> QED BY <2>2, <2>3
<1>6. \A w, pc : AtTurn(pc, w) => AtTurn(pc, w)'
  <2> SUFFICES ASSUME NEW w, NEW pc, AtTurn(pc, w) PROVE AtTurn(pc, w)'
    OBVIOUS
  <2> DEFINE mode == IF pc = "data" THEN "data" ELSE "line"
             times == asked.preserve /\ pc # "entry"
  <2>1. InStep(w, mode, times)
    BY DEF AtTurn
  <2>2. InStep(w, mode, times)'
    BY <1>5, <2>1
  <2> QED BY <1>1, <2>2 DEF AtTurn
<1>7. ASSUME NEW l, NEW after, NEW w
      PROVE  /\ TimesSent(l, after, w) => TimesSent(l, after, w)'
             /\ FileSent(l, after, w) => FileSent(l, after, w)'
             /\ DataSent(l, after, w) => DataSent(l, after, w)'
             /\ DirectorySent(l, after, w) => DirectorySent(l, after, w)'
             /\ EndSent(l, after, w) => EndSent(l, after, w)'
  <2>1. TimesSent(l, after, w) => TimesSent(l, after, w)'
    BY <1>5 DEF TimesSent
  <2>2. FileSent(l, after, w) => FileSent(l, after, w)'
    BY <1>5 DEF FileSent
  <2>3. DataSent(l, after, w) => DataSent(l, after, w)'
    BY <1>1, <1>5 DEF DataSent
  <2>4. DirectorySent(l, after, w) => DirectorySent(l, after, w)'
    BY <1>1, <1>5 DEF DirectorySent
  <2>5. EndSent(l, after, w) => EndSent(l, after, w)'
    BY <1>1, <1>5 DEF EndSent
  <2> QED BY <2>1, <2>2, <2>3, <2>4, <2>5
<1> QED BY <1>3, <1>5, <1>6, <1>7

LEMMA OneSaid == \A x : Head(<<x>>) = x /\ Tail(<<x>>) = <<>> /\ <<x>> # <<>> /\ Append(<<>>, x) = <<x>>
<1> SUFFICES ASSUME NEW x PROVE Head(<<x>>) = x /\ Tail(<<x>>) = <<>> /\ <<x>> # <<>> /\ Append(<<>>, x) = <<x>>
  OBVIOUS
<1>1. <<x>> \in Seq({x}) /\ Len(<<x>>) = 1 /\ <<x>>[1] = x
  OBVIOUS
<1>2. Tail(<<x>>) \in Seq({x}) /\ Len(Tail(<<x>>)) = 0 /\ <<x>> # <<>>
  BY <1>1, HeadTailProperties, EmptySeq
<1>3. Tail(<<x>>) = <<>>
  BY <1>2, EmptySeq
<1> QED BY <1>1, <1>2, <1>3

SenderStates == [pc : {"ack", "entry", "header", "data", "done", "failed"},
                 after : {"", "entry", "header", "data"}, walk : Seq(Steps)]

\* What the sender leaves as it was when it goes on.
LEMMA SenderMoves ==
  ASSUME ScpInv, UNCHANGED <<asked, cut>>, ReceiverSide, sender' \in SenderStates,
         scpFailures' \in 0..MaxScpFailures, scpFailures <= scpFailures', Dialogue',
         sender'.pc = "done" => sender'.walk = <<>> /\ Delivered({}),
         sender'.pc = "failed" /\ scpFailures' = 0 =>
           Ended(receiver) \/ (receiver.pc = "line" /\ lines' = <<>> /\ ~Top.received)
  PROVE  ScpInv'
<1>1. ScpTyped'
  BY DEF ScpInv, ScpTyped, ReceiverSide, SenderStates
<1>2. Landed'
  BY DEF ScpInv, Landed, ReceiverSide, Wanted, Landing
<1>3. \A ahead : Delivered(ahead) => Delivered(ahead)'
  BY InStepKept DEF ReceiverSide
<1>4. scpFailures \in Nat /\ scpFailures' \in Nat /\ (scpFailures' = 0 => scpFailures = 0)
      /\ (scpFailures > 0 => scpFailures' > 0)
  <2>1. scpFailures \in Nat /\ scpFailures' \in Nat
    <3>1. scpFailures \in 0..MaxScpFailures
      BY DEF ScpInv, ScpTyped
    <3>2. MaxScpFailures \in Nat
      BY ScpAssumption
    <3> QED BY <3>1, <3>2
  <2>2. \A m, n \in Nat : m <= n => (n = 0 => m = 0) /\ (m > 0 => n > 0)
    OBVIOUS
  <2> QED BY <2>1, <2>2
<1>5. Stopped'
  BY <1>3, <1>4 DEF ScpInv, Stopped, ReceiverSide, Top
<1> QED BY <1>1, <1>2, <1>5 DEF ScpInv

\* The sender at its turn.
LEMMA TurnIs ==
  ASSUME ScpInv, sender.pc \in {"entry", "header", "data"}
  PROVE  /\ SendersTurn /\ receiver.pc # "hello" /\ sender.walk \in Seq(Steps)
         /\ Head(sender.walk) = sender.walk[1] /\ Head(sender.walk) \in Steps
         /\ Head(sender.walk).route \in Wanted /\ Name(Head(sender.walk).route) \in Nodes
         /\ sender.walk = <<Head(sender.walk)>> \o Tail(sender.walk)
         /\ Tail(sender.walk) \in Seq(Steps)
<1>1. SendersTurn
  BY DEF ScpInv, Dialogue, NotBegun, LineSent, LineAnswered, LineRefused, Silent, Waits
<1>2. InStep(sender.walk, IF sender.pc = "data" THEN "data" ELSE "line",
             asked.preserve /\ sender.pc # "entry")
  BY <1>1 DEF SendersTurn, AtTurn
<1>3. receiver.pc # "hello"
  BY <1>2 DEF InStep, Ended
<1>4. WalkOK(sender.walk) /\ sender.walk # <<>> /\ sender.walk \in Seq(Steps)
  BY <1>1, <1>2 DEF InStep, WalkOK, SendersTurn
<1>5. /\ Head(sender.walk) = sender.walk[1] /\ Head(sender.walk) \in Steps
      /\ sender.walk = <<Head(sender.walk)>> \o Tail(sender.walk)
      /\ Tail(sender.walk) \in Seq(Steps) /\ Len(sender.walk) \in Nat /\ Len(sender.walk) # 0
  BY <1>4, UnconsIs, EmptySeq
<1>6. sender.walk[1].route \in Wanted
  BY <1>4, <1>5 DEF WalkOK
<1>7. Name(sender.walk[1].route) \in Nodes
  BY <1>6, RouteIs DEF Wanted
<1> QED BY <1>1, <1>3, <1>4, <1>5, <1>6, <1>7

LEMMA ReadAckKeeps ==
  ASSUME ScpInv, ReadAck
  PROVE  ScpInv'
<1>1. /\ sender.pc = "ack" /\ UNCHANGED <<asked, cut, receiver, landed, timed, scpFailures, lines>>
      /\ sender \in SenderStates /\ scpFailures \in 0..MaxScpFailures /\ scpFailures <= scpFailures
  <2>1. /\ sender.pc = "ack" /\ UNCHANGED <<asked, cut, receiver, landed, timed, scpFailures, lines>>
    BY DEF ReadAck, ScpWorks, ReceiverSide, SenderFails
  <2>2. sender \in SenderStates /\ scpFailures \in 0..MaxScpFailures
    BY DEF ScpInv, ScpTyped, SenderStates
  <2> QED BY <2>1, <2>2, ScpAssumption
<1>2. ASSUME acks # <<>>, Head(acks), acks' = Tail(acks),
             SenderGoes(IF sender.after = "entry" /\ sender.walk = <<>> THEN "done" ELSE sender.after,
                        "", sender.walk)
      PROVE  ScpInv'
  <2>1. LineAnswered /\ acks = <<TRUE>> /\ lines = <<>> /\ receiver.pc # "hello"
    <3>1. LineRefused => Head(acks) = FALSE
      BY OneSaid DEF LineRefused
    <3> QED BY <1>1, <1>2, <3>1
        DEF ScpInv, Dialogue, NotBegun, SendersTurn, LineSent, LineAnswered, LineRefused, Silent
  <2>2. acks' = <<>>
    BY <1>2, <2>1, OneSaid
  <2>a. AtTurn(sender.after, sender.walk)
    BY <1>1, <2>1 DEF LineAnswered
  <2>b. PICK a, w : a = sender.after /\ w = sender.walk
    OBVIOUS
  <2>3. AtTurn(a, w) /\ AtTurn(a, w)'
    BY <1>1, <2>a, <2>b, InStepKept
  <2>4. CASE sender.after = "entry" /\ sender.walk = <<>>
    <3>1. sender' = [pc |-> "done", after |-> "", walk |-> sender.walk]
      BY <1>2, <2>4 DEF SenderGoes
    <3>2. sender' \in SenderStates /\ sender'.pc = "done" /\ sender'.walk = <<>>
      BY <1>1, <2>4, <3>1 DEF SenderStates
    <3>3. Delivered({})
      <4>1. AheadIn(w) = {}
        BY <2>4, <2>b DEF AheadIn
      <4> QED BY <2>3, <4>1 DEF AtTurn, InStep
    <3>4. Dialogue'
      BY <1>1, <2>1, <2>2, <3>2 DEF Dialogue, Silent
    <3> QED BY <1>1, <3>2, <3>3, <3>4, SenderMoves DEF ReceiverSide
  <2>5. CASE ~(sender.after = "entry" /\ sender.walk = <<>>)
    <3>1. sender' = [pc |-> sender.after, after |-> "", walk |-> sender.walk]
      BY <1>2, <2>5 DEF SenderGoes
    <3>2. /\ sender' \in SenderStates /\ sender'.pc = sender.after /\ sender'.walk = sender.walk
          /\ sender.after \in {"entry", "header", "data"} /\ sender.walk # <<>>
      BY <1>1, <2>b, <2>3, <2>5, <3>1 DEF SenderStates, AtTurn
    <3>3. SendersTurn'
      BY <1>1, <2>1, <2>2, <2>b, <2>3, <3>2 DEF SendersTurn
    <3> QED BY <1>1, <3>2, <3>3, SenderMoves DEF ReceiverSide, Dialogue
  <2> QED BY <2>4, <2>5
<1>3. ASSUME acks # <<>>, ~Head(acks), SenderFails
      PROVE  ScpInv'
  <2>1. LineRefused
    <3>1. LineAnswered => Head(acks) = TRUE
      BY OneSaid DEF LineAnswered
    <3> QED BY <1>1, <1>3, <3>1
        DEF ScpInv, Dialogue, NotBegun, SendersTurn, LineSent, LineRefused, Silent
  <2>2. /\ sender' = [sender EXCEPT !.pc = "failed"] /\ sender' \in SenderStates
        /\ sender'.pc = "failed" /\ UNCHANGED <<lines, acks>>
    BY <1>1, <1>3 DEF SenderFails, SenderStates
  <2>3. Dialogue'
    BY <1>1, <2>1, <2>2 DEF LineRefused, Dialogue, Waits
  <2> QED BY <1>1, <2>1, <2>2, <2>3, SenderMoves DEF ReceiverSide, LineRefused, Ended
<1>4. ASSUME acks = <<>>, Ended(receiver) \/ cut, SenderFails
      PROVE  ScpInv'
  <2>1. /\ sender' = [sender EXCEPT !.pc = "failed"] /\ sender' \in SenderStates
        /\ sender'.pc = "failed" /\ sender'.walk = sender.walk /\ sender'.after = sender.after
        /\ UNCHANGED <<lines, acks>>
    BY <1>1, <1>4 DEF SenderFails, SenderStates
  <2>2. NotBegun \/ LineSent \/ Silent
    <3>1. ~LineAnswered /\ ~LineRefused /\ ~SendersTurn
      BY <1>1, <1>4 DEF LineAnswered, LineRefused, SendersTurn
    <3> QED BY <3>1 DEF ScpInv, Dialogue
  <2>3. NotBegun \/ Silent => Dialogue'
    BY <1>1, <2>1 DEF NotBegun, Silent, Dialogue, Waits
  <2>4. LineSent => Dialogue'
    <3> SUFFICES ASSUME LineSent PROVE LineSent'
      BY DEF Dialogue
    <3>1. PICK l \in [kind : {"T", "C", "data", "D", "E", "error"}, node : Nodes] :
            lines = <<l>> /\ InFlight(l, sender.after, sender.walk)
      BY DEF LineSent
    <3>a. PICK a, w : a = sender.after /\ w = sender.walk
      OBVIOUS
    <3>2. sender'.after = a /\ sender'.walk = w /\ InFlight(l, a, w)
      BY <2>1, <3>1, <3>a
    <3>3. InFlight(l, a, w)'
      <4>1. ~ErrorSent(l)
        BY <1>1 DEF ErrorSent
      <4>2. /\ TimesSent(l, a, w) => TimesSent(l, a, w)'
            /\ FileSent(l, a, w) => FileSent(l, a, w)'
            /\ DataSent(l, a, w) => DataSent(l, a, w)'
            /\ DirectorySent(l, a, w) => DirectorySent(l, a, w)'
            /\ EndSent(l, a, w) => EndSent(l, a, w)'
        BY <1>1, InStepKept
      <4> QED BY <3>2, <4>1, <4>2 DEF InFlight
    <3> QED BY <1>1, <1>4, <2>1, <3>1, <3>2, <3>3 DEF LineSent, Waits
  <2>5. scpFailures = 0 => Ended(receiver)
    BY <1>4 DEF ScpInv, Stopped
  <2> QED BY <1>1, <2>1, <2>2, <2>3, <2>4, <2>5, SenderMoves DEF ReceiverSide
<1> QED BY <1>2, <1>3, <1>4 DEF ReadAck

\* The sender says a line, and waits.
LEMMA SaysLine ==
  ASSUME ScpInv, UNCHANGED <<asked, cut>>, ReceiverSide, sender.pc \in {"entry", "header", "data"},
         scpFailures' \in 0..MaxScpFailures, scpFailures <= scpFailures',
         NEW l \in [kind : {"T", "C", "data", "D", "E", "error"}, node : Nodes], Says(l),
         NEW after, NEW w, sender' \in SenderStates, sender'.after = after, sender'.walk = w,
         sender'.pc = "ack" \/ (sender'.pc = "failed" /\ scpFailures' # 0), InFlight(l, after, w)'
  PROVE  ScpInv'
<1>1. SendersTurn
  BY TurnIs
<1>2. lines' = <<l>> /\ acks' = <<>>
  BY <1>1, OneSaid DEF Says, SendersTurn
<1>3. LineSent'
  BY <1>2 DEF LineSent, Waits
<1> QED BY <1>3, SenderMoves DEF Dialogue

LEMMA SendKeeps ==
  ASSUME ScpInv,
         SendScpRefused \/ SendTimes \/ SendDirectory \/ SendFile \/ SendData \/ SendEnd \/ SendFails
  PROVE  ScpInv'
<1>1. /\ sender.pc \in {"entry", "header", "data"} /\ sender \in SenderStates
      /\ UNCHANGED <<asked, cut, receiver, landed, timed>> /\ ReceiverSide
      /\ scpFailures \in 0..MaxScpFailures
  BY DEF SendScpRefused, SendTimes, SendDirectory, SendFile, SendData, SendEnd, SendFails, HeaderDue,
         ReceiverSide, ScpInv, ScpTyped, SenderStates
<1>2. /\ ScpWorks => scpFailures' \in 0..MaxScpFailures /\ scpFailures <= scpFailures'
      /\ ScpFault => /\ scpFailures' \in 0..MaxScpFailures /\ scpFailures <= scpFailures'
                     /\ scpFailures' # 0
  BY <1>1, ScpAssumption DEF ScpWorks, ScpFault
<1> DEFINE e == Head(sender.walk)
           p == e.route
           rest == Tail(sender.walk)
<1>3. /\ SendersTurn /\ receiver.pc # "hello" /\ sender.walk \in Seq(Steps) /\ e \in Steps
      /\ p \in Wanted /\ Name(p) \in Nodes /\ sender.walk = <<e>> \o rest /\ rest \in Seq(Steps)
  BY <1>1, TurnIs
<1>4. AtTurn(sender.pc, sender.walk) /\ sender.walk # <<>>
  BY <1>3 DEF SendersTurn
<1>5. PICK w0, p0, e0, rest0 : w0 = sender.walk /\ p0 = p /\ e0 = e /\ rest0 = rest
  OBVIOUS
<1> HIDE DEF e, p, rest
<1>6. /\ e0 \in Steps /\ w0 \in Seq(Steps) /\ rest0 \in Seq(Steps) /\ w0 = <<e0>> \o rest0
      /\ w0 # <<>> /\ Head(w0) = e0 /\ Tail(w0) = rest0 /\ p0 = e0.route /\ Name(p0) \in Nodes
      /\ p0 \in Wanted
  BY <1>3, <1>4, <1>5 DEF e, p, rest
<1>7. \A w, pc, times : InStep(w, pc, times) => InStep(w, pc, times)'
  BY <1>1, InStepKept
<1>8. /\ InStep(w0, IF sender.pc = "data" THEN "data" ELSE "line",
                asked.preserve /\ sender.pc # "entry")
      /\ sender.pc = "header" => asked.preserve
      /\ sender.pc # "entry" => ~e0.ends
      /\ sender.pc = "data" => ~IsDirectory(p0) /\ Landing(p0) \in DOMAIN landed
  BY <1>4, <1>5, <1>6 DEF AtTurn
<1>9. asked.preserve \in BOOLEAN /\ asked.recursive \in BOOLEAN
  BY DEF ScpInv, ScpTyped, Requests
<1>10. /\ Landing(p0)' = Landing(p0) /\ Wanted' = Wanted
  BY <1>1 DEF Landing, Wanted
<1>11. ~e0.ends => e0 = Enter(p0)
  BY <1>6 DEF Steps, Enter
<1>12. \A kind \in {"T", "C", "data", "D", "E", "error"} :
         Line(kind, Name(p0)) \in [kind : {"T", "C", "data", "D", "E", "error"}, node : Nodes]
         /\ Line(kind, Name(p0)).kind = kind /\ Line(kind, Name(p0)).node = Name(p0)
  BY <1>6 DEF Line
<1>13. HeaderDue => InStep(w0, "line", asked.preserve) /\ ~e0.ends
  <2> SUFFICES ASSUME HeaderDue PROVE InStep(w0, "line", asked.preserve) /\ ~e0.ends
    OBVIOUS
  <2>1. ~e0.ends /\ sender.pc = (IF asked.preserve THEN "header" ELSE "entry")
    BY <1>5 DEF HeaderDue, e
  <2>2. sender.pc # "data" /\ (asked.preserve /\ sender.pc # "entry") = asked.preserve
    BY <1>9, <2>1
  <2> QED BY <1>8, <2>1, <2>2

<1>14. CASE SendScpRefused
  <2>1. sender' = [sender EXCEPT !.pc = "failed"] /\ ScpFault /\ Says(Line("error", asked.root))
        /\ sender.pc = "entry"
    BY <1>14 DEF SendScpRefused
  <2>2. sender' \in SenderStates /\ sender'.pc = "failed"
    BY <1>1, <2>1 DEF SenderStates
  <2>3. PICK l : l = Line("error", asked.root)
    OBVIOUS
  <2>4. l \in [kind : {"T", "C", "data", "D", "E", "error"}, node : Nodes] /\ l.kind = "error"
        /\ l.node \in Nodes
    BY <2>3, ScpAssumption DEF Line, ScpInv, ScpTyped, Requests
  <2>5. receiver.pc \in {"line", "done", "failed"}
    BY <1>8, <2>1 DEF InStep, Ended
  <2>6. PICK a, w : a = sender'.after /\ w = sender'.walk
    OBVIOUS
  <2>7. InFlight(l, a, w)'
    BY <1>1, <2>2, <2>4, <2>5 DEF InFlight, ErrorSent
  <2> QED BY <1>1, <1>2, <2>1, <2>2, <2>3, <2>4, <2>6, <2>7, SaysLine
<1>15. CASE SendTimes
  <2>1. /\ sender.pc = "entry" /\ asked.preserve /\ ~e0.ends /\ Says(Line("T", Name(p0))) /\ ScpWorks
        /\ sender' = [pc |-> "ack", after |-> "header", walk |-> w0]
    BY <1>5, <1>15 DEF SendTimes, SenderGoes, e, p
  <2>2. sender' \in SenderStates /\ sender'.pc = "ack" /\ sender'.after = "header" /\ sender'.walk = w0
    BY <1>6, <2>1 DEF SenderStates
  <2>3. PICK l : l = Line("T", Name(p0))
    OBVIOUS
  <2>4. l \in [kind : {"T", "C", "data", "D", "E", "error"}, node : Nodes] /\ l.kind = "T"
        /\ l.node = Name(p0)
    BY <1>12, <2>3
  <2>5. InStep(w0, "line", FALSE)
    <3>1. (asked.preserve /\ sender.pc # "entry") = FALSE
      BY <2>1
    <3> QED BY <1>8, <2>1, <3>1
  <2>6. TimesSent(l, "header", w0)'
    BY <1>1, <1>6, <1>7, <2>1, <2>4, <2>5 DEF TimesSent
  <2>7. InFlight(l, "header", w0)'
    BY <2>6 DEF InFlight
  <2> QED BY <1>1, <1>2, <2>1, <2>2, <2>3, <2>4, <2>7, SaysLine
<1>16. CASE SendDirectory
  <2>1. HeaderDue /\ IsDirectory(p0) /\ ScpWorks
        /\ \/ /\ asked.recursive /\ Says(Line("D", Name(p0)))
              /\ sender' = [pc |-> "ack", after |-> "entry",
                            walk |-> EntriesOf(p0) \o <<Leave(p0)>> \o rest0]
           \/ ~asked.recursive /\ SenderFails
    BY <1>5, <1>16 DEF SendDirectory, SenderGoes, e, p, rest
  <2>2. CASE asked.recursive /\ Says(Line("D", Name(p0)))
             /\ sender' = [pc |-> "ack", after |-> "entry",
                           walk |-> EntriesOf(p0) \o <<Leave(p0)>> \o rest0]
    <3>1. PICK w : w = EntriesOf(p0) \o <<Leave(p0)>> \o rest0
      OBVIOUS
    <3>2. w \in Seq(Steps)
      BY <1>6, <2>1, <3>1, EntriesAre
    <3>3. sender' \in SenderStates /\ sender'.pc = "ack" /\ sender'.after = "entry" /\ sender'.walk = w
      BY <2>2, <3>1, <3>2 DEF SenderStates
    <3>4. PICK l : l = Line("D", Name(p0))
      OBVIOUS
    <3>5. l \in [kind : {"T", "C", "data", "D", "E", "error"}, node : Nodes] /\ l.kind = "D"
          /\ l.node = Name(p0)
      BY <1>12, <3>4
    <3>6. InStep(<<Enter(p0)>> \o rest0, "line", asked.preserve)'
      <4>1. PICK v, t : v = <<Enter(p0)>> \o rest0 /\ t = asked.preserve
        OBVIOUS
      <4>2. InStep(v, "line", t) /\ t = asked.preserve'
        BY <1>1, <1>6, <1>11, <1>13, <2>1, <4>1
      <4> QED BY <1>7, <4>1, <4>2
    <3>7. DirectorySent(l, "entry", w)'
      BY <1>1, <1>6, <1>10, <2>1, <2>2, <3>1, <3>5, <3>6 DEF DirectorySent
    <3>8. InFlight(l, "entry", w)'
      BY <3>7 DEF InFlight
    <3> QED BY <1>1, <1>2, <2>1, <2>2, <3>3, <3>4, <3>5, <3>8, SaysLine
  <2>3. CASE ~asked.recursive /\ SenderFails
    <3>1. /\ sender' = [sender EXCEPT !.pc = "failed"] /\ sender' \in SenderStates
          /\ sender'.pc = "failed" /\ UNCHANGED <<lines, acks>>
      BY <1>1, <2>3 DEF SenderFails, SenderStates
    <3>2. Dialogue'
      BY <1>1, <1>3, <3>1 DEF SendersTurn, Silent, Dialogue
    <3>3. Ended(receiver) \/ (receiver.pc = "line" /\ lines' = <<>> /\ ~Top.received)
      <4>1. InStep(w0, "line", asked.preserve) /\ ~e0.ends
        BY <1>13, <2>1
      <4>2. Len(p0) = 1 /\ Front(p0) = <<>>
        <5>1. WalkOK(w0) /\ Len(w0) = Len(rest0) + 1 /\ Len(rest0) \in Nat /\ w0[1] = e0
          BY <1>6, <4>1, ConsIs DEF InStep
        <5>2. Len(w0) = 1
          BY <2>3, <5>1 DEF WalkOK
        <5>3. Len(p0) = 1
          BY <1>6, <5>1, <5>2 DEF WalkOK
        <5> QED BY <1>6, <5>3, FrontIs DEF Wanted
      <4>3. Dir(w0) = <<>> /\ (w0 = <<>>) = FALSE
        BY <1>6, <4>1, <4>2 DEF Dir, In
      <4>4. CASE ~Ended(receiver)
        <5>1. receiver.pc = "line" /\ Nested(receiver.calls, DOMAIN landed, <<>>, FALSE, asked.preserve)
          BY <4>1, <4>3, <4>4 DEF InStep
        <5>2. Len(receiver.calls) = 1 /\ receiver.calls[1].received = FALSE
          BY <5>1 DEF Nested
        <5>3. Top = receiver.calls[1]
          <6>1. receiver.calls \in Seq(Calls)
            BY DEF ScpInv, ScpTyped
          <6>2. receiver.calls # <<>>
            BY <5>2
          <6> QED BY <6>1, <6>2, UnconsIs DEF Top
        <5> QED BY <1>3, <3>1, <5>1, <5>2, <5>3 DEF SendersTurn
      <4> QED BY <4>4
    <3> QED BY <1>1, <1>2, <2>1, <3>1, <3>2, <3>3, SenderMoves
  <2> QED BY <2>1, <2>2, <2>3
<1>17. CASE SendFile
  <2>1. /\ HeaderDue /\ ~IsDirectory(p0) /\ Says(Line("C", Name(p0))) /\ ScpWorks
        /\ sender' = [pc |-> "ack", after |-> "data", walk |-> w0]
    BY <1>5, <1>17 DEF SendFile, SenderGoes, e, p
  <2>2. sender' \in SenderStates /\ sender'.pc = "ack" /\ sender'.after = "data" /\ sender'.walk = w0
    BY <1>6, <2>1 DEF SenderStates
  <2>3. PICK l : l = Line("C", Name(p0))
    OBVIOUS
  <2>4. l \in [kind : {"T", "C", "data", "D", "E", "error"}, node : Nodes] /\ l.kind = "C"
        /\ l.node = Name(p0)
    BY <1>12, <2>3
  <2>5. InStep(w0, "line", asked.preserve)' /\ ~e0.ends
    <3>1. PICK t : t = asked.preserve
      OBVIOUS
    <3> QED BY <1>1, <1>7, <1>13, <2>1, <3>1
  <2>6. FileSent(l, "data", w0)'
    BY <1>6, <2>1, <2>4, <2>5 DEF FileSent
  <2>7. InFlight(l, "data", w0)'
    BY <2>6 DEF InFlight
  <2> QED BY <1>1, <1>2, <2>1, <2>2, <2>3, <2>4, <2>7, SaysLine
<1>18. CASE SendData
  <2>1. /\ sender.pc = "data" /\ Says(Line("data", Name(p0))) /\ ScpWorks
        /\ sender' = [pc |-> "ack", after |-> "entry", walk |-> rest0]
    BY <1>5, <1>18 DEF SendData, SenderGoes, e, p, rest
  <2>2. sender' \in SenderStates /\ sender'.pc = "ack" /\ sender'.after = "entry" /\ sender'.walk = rest0
    BY <1>6, <2>1 DEF SenderStates
  <2>3. PICK l : l = Line("data", Name(p0))
    OBVIOUS
  <2>4. l \in [kind : {"T", "C", "data", "D", "E", "error"}, node : Nodes] /\ l.kind = "data"
        /\ l.node = Name(p0)
    BY <1>12, <2>3
  <2>5. InStep(<<Enter(p0)>> \o rest0, "data", asked.preserve)'
    <3>1. PICK v, t : v = <<Enter(p0)>> \o rest0 /\ t = asked.preserve
      OBVIOUS
    <3>2. (asked.preserve /\ sender.pc # "entry") = asked.preserve
      BY <1>9, <2>1
    <3>3. InStep(v, "data", t) /\ t = asked.preserve'
      BY <1>1, <1>6, <1>8, <1>11, <2>1, <3>1, <3>2
    <3> QED BY <1>7, <3>1, <3>3
  <2>6. DataSent(l, "entry", rest0)'
    BY <1>1, <1>6, <1>8, <1>10, <2>1, <2>4, <2>5 DEF DataSent
  <2>7. InFlight(l, "entry", rest0)'
    BY <2>6 DEF InFlight
  <2> QED BY <1>1, <1>2, <2>1, <2>2, <2>3, <2>4, <2>7, SaysLine
<1>19. CASE SendEnd
  <2>1. /\ sender.pc = "entry" /\ e0.ends /\ Says(Line("E", Name(p0))) /\ ScpWorks
        /\ sender' = [pc |-> "ack", after |-> "entry", walk |-> rest0]
    BY <1>5, <1>19 DEF SendEnd, SenderGoes, e, p, rest
  <2>2. sender' \in SenderStates /\ sender'.pc = "ack" /\ sender'.after = "entry" /\ sender'.walk = rest0
    BY <1>6, <2>1 DEF SenderStates
  <2>3. PICK l : l = Line("E", Name(p0))
    OBVIOUS
  <2>4. l \in [kind : {"T", "C", "data", "D", "E", "error"}, node : Nodes] /\ l.kind = "E"
        /\ l.node = Name(p0)
    BY <1>12, <2>3
  <2>5. InStep(<<Leave(p0)>> \o rest0, "line", FALSE)'
    <3>1. PICK v : v = <<Leave(p0)>> \o rest0
      OBVIOUS
    <3>2. e0 = Leave(p0)
      BY <1>6, <2>1 DEF Steps, Leave
    <3>3. (asked.preserve /\ sender.pc # "entry") = FALSE
      BY <2>1
    <3>4. InStep(v, "line", FALSE)
      BY <1>6, <1>8, <2>1, <3>1, <3>2, <3>3
    <3> QED BY <1>7, <3>1, <3>4
  <2>6. EndSent(l, "entry", rest0)'
    BY <1>6, <1>10, <2>4, <2>5 DEF EndSent
  <2>7. InFlight(l, "entry", rest0)'
    BY <2>6 DEF InFlight
  <2> QED BY <1>1, <1>2, <2>1, <2>2, <2>3, <2>4, <2>7, SaysLine
<1>20. CASE SendFails
  <2>1. /\ sender' = [sender EXCEPT !.pc = "failed"] /\ sender' \in SenderStates
        /\ sender'.pc = "failed" /\ UNCHANGED <<lines, acks>> /\ ScpFault
    BY <1>1, <1>20 DEF SendFails, SenderFails, SenderStates
  <2>2. Dialogue'
    BY <1>1, <1>3, <2>1 DEF SendersTurn, Silent, Dialogue
  <2> QED BY <1>1, <1>2, <2>1, <2>2, SenderMoves
<1> QED BY <1>14, <1>15, <1>16, <1>17, <1>18, <1>19, <1>20

ReceiverStates == [pc : {"hello", "line", "data", "done", "failed"}, calls : Seq(Calls)]

\* What is on its way is one line, and nobody has answered it.
LEMMA LineIs ==
  ASSUME ScpInv, lines # <<>>
  PROVE  /\ Tail(lines) = <<>> /\ acks = <<>> /\ Waits /\ receiver.pc # "hello"
         /\ \A ok : Append(acks, ok) = <<ok>>
         /\ Head(lines).node \in Nodes /\ InFlight(Head(lines), sender.after, sender.walk)
<1>1. LineSent
  BY DEF ScpInv, Dialogue, NotBegun, SendersTurn, LineAnswered, LineRefused, Silent
<1>2. PICK l \in [kind : {"T", "C", "data", "D", "E", "error"}, node : Nodes] :
        lines = <<l>> /\ InFlight(l, sender.after, sender.walk)
  BY <1>1 DEF LineSent
<1>3. Head(lines) = l /\ Tail(lines) = <<>>
  BY <1>2, OneSaid
<1>4. receiver.pc # "hello"
  BY <1>2 DEF InFlight, TimesSent, FileSent, DataSent, DirectorySent, EndSent, ErrorSent, InStep, Ended
<1> QED BY <1>1, <1>2, <1>3, <1>4, OneSaid DEF LineSent

\* What the receiver leaves as it was when it takes a line, and what it has to keep.
LEMMA ReceiverReads ==
  ASSUME ScpInv, SenderSide, lines # <<>>, receiver.pc \in {"line", "data"}, Takes,
         receiver' \in ReceiverStates, receiver'.pc # "hello", Landed',
         scpFailures' \in 0..MaxScpFailures, scpFailures <= scpFailures',
         NEW a, NEW w, a = sender.after, w = sender.walk,
         \/ Acks(TRUE) /\ AtTurn(a, w)'
         \/ receiver'.pc = "failed" /\ (Acks(FALSE) \/ UNCHANGED acks),
         receiver'.pc = "done" /\ scpFailures' = 0 => Delivered({})'
  PROVE  ScpInv'
<1>1. /\ lines' = <<>> /\ acks = <<>> /\ Waits /\ \A ok : Append(acks, ok) = <<ok>>
  BY LineIs DEF Takes
<1>2. ScpTyped'
  BY DEF ScpInv, ScpTyped, SenderSide, ReceiverStates
<1>3. Dialogue'
  <2>1. CASE Acks(TRUE) /\ AtTurn(a, w)'
    <3>1. acks' = <<TRUE>>
      BY <1>1, <2>1 DEF Acks
    <3> QED BY <1>1, <2>1, <3>1 DEF Dialogue, LineAnswered, Waits, SenderSide
  <2>2. CASE receiver'.pc = "failed" /\ Acks(FALSE)
    BY <1>1, <2>2 DEF Dialogue, LineRefused, Waits, SenderSide, Acks
  <2>3. CASE receiver'.pc = "failed" /\ UNCHANGED acks
    BY <1>1, <2>3 DEF Dialogue, Silent, Waits, SenderSide
  <2> QED BY <2>1, <2>2, <2>3
<1>4. scpFailures' = 0 => scpFailures = 0
  <2>1. scpFailures \in 0..MaxScpFailures
    BY DEF ScpInv, ScpTyped
  <2> QED BY <2>1, ScpAssumption
<1>5. scpFailures > 0 => scpFailures' > 0
  <2>1. scpFailures \in 0..MaxScpFailures
    BY DEF ScpInv, ScpTyped
  <2> QED BY <2>1, ScpAssumption
<1>6. Stopped'
  <2>1. sender.pc = "failed" => scpFailures # 0
    BY LineIs DEF ScpInv, Stopped, Ended
  <2> QED BY <1>1, <1>4, <1>5, <2>1 DEF ScpInv, Stopped, Waits, SenderSide
<1> QED BY <1>2, <1>3, <1>6 DEF ScpInv

\* An entry lands where no other does.
LEMMA LandedGrows ==
  ASSUME Landed, UNCHANGED asked, NEW p \in Wanted, NEW kind \in {"dir", "empty", "whole"},
         DOMAIN landed' = DOMAIN landed \cup {Landing(p)}, landed'[Landing(p)] = kind,
         \A l \in DOMAIN landed : l # Landing(p) => landed'[l] = landed[l],
         timed' = timed \/ (asked.preserve /\ timed' = timed \cup {Landing(p)})
  PROVE  /\ Landed'
         /\ \A q \in Wanted : Arrived(q) /\ q # p => Arrived(q)'
         /\ kind = (IF IsDirectory(p) THEN "dir" ELSE "whole")
              /\ (asked.preserve /\ ~IsDirectory(p) => Landing(p) \in timed') => Arrived(p)'
<1>1. Wanted' = Wanted /\ \A q : Landing(q)' = Landing(q)
  BY DEF Wanted, Landing
<1>2. Landed'
  BY <1>1 DEF Landed
<1>3. ASSUME NEW q \in Wanted, Arrived(q), q # p PROVE Arrived(q)'
  <2>1. Landing(q) # Landing(p)
    BY <1>3, LandApart
  <2>2. Landing(q) \in DOMAIN landed' /\ landed'[Landing(q)] = landed[Landing(q)]
    BY <1>3, <2>1 DEF Arrived
  <2> QED BY <1>1, <1>3, <2>2 DEF Arrived
<1>4. (Landing(p) \in DOMAIN landed' /\ landed'[Landing(p)] = IF IsDirectory(p) THEN "dir" ELSE "whole")
        /\ (~IsDirectory(p) /\ asked.preserve => Landing(p) \in timed') => Arrived(p)'
  BY <1>1 DEF Arrived
<1> QED BY <1>2, <1>3, <1>4

LEMMA NestedGrows ==
  ASSUME NEW calls, NEW there, NEW grown, there \subseteq grown, NEW d, NEW over, NEW times,
         Nested(calls, there, d, over, times)
  PROVE  Nested(calls, grown, d, over, times)
BY DEF Nested

\* The receiver is at the walk w after the step.
LEMMA InStepNext ==
  ASSUME UNCHANGED asked, NEW w, NEW pc, NEW times, WalkOK(w), \A q \in Wanted \ AheadIn(w) : Arrived(q)',
         Ended(receiver') \/ /\ receiver'.pc = pc
                             /\ Nested(receiver'.calls, DOMAIN landed', Dir(w), w = <<>>, times)
  PROVE  InStep(w, pc, times)'
<1>1. Wanted' = Wanted /\ WalkOK(w)' /\ AheadIn(w)' = AheadIn(w) /\ \A q : Place(q)' = Place(q)
  BY DEF Wanted, WalkOK, AheadIn, Place
<1>2. Delivered(AheadIn(w))'
  BY <1>1 DEF Delivered
<1>3. \A calls, there, d, over :
        Nested(calls, there, d, over, times) => Nested(calls, there, d, over, times)'
  BY <1>1 DEF Nested
<1> QED BY <1>1, <1>2, <1>3 DEF InStep, Ended

\* An entry of a directory, or the only one, has been received.
LEMMA EntryDoneIs ==
  ASSUME asked \in Requests, UNCHANGED asked, NEW calls \in Seq(Calls), NEW there,
         there \subseteq DOMAIN landed', NEW p \in Wanted,
         Nested(calls, there, Front(p), FALSE, asked.preserve),
         NEW w, WalkOK(w), Dir(w) = Front(p), w = <<>> <=> Len(p) = 1,
         \A q \in Wanted \ AheadIn(w) : Arrived(q)', EntryDone(calls)
  PROVE  /\ receiver' \in ReceiverStates /\ receiver'.pc \in {"line", "done"}
         /\ AtTurn("entry", w)'
         /\ receiver'.pc = "done" => Delivered({})'
<1> DEFINE c == [Head(calls) EXCEPT !.received = TRUE, !.times = FALSE]
           over == w = <<>>
<1>1. Len(p) \in Nat /\ 1 <= Len(p) /\ Len(Front(p)) = Len(p) - 1
  BY RouteIs, FrontIs DEF Wanted
<1>2. Len(calls) = Len(p)
  BY <1>1 DEF Nested
<1>3. calls # <<>> /\ Head(calls) = calls[1] /\ calls[1] \in Calls /\ 1 \in 1..Len(calls)
  <2>1. calls # <<>>
    BY <1>1, <1>2, EmptySeq
  <2> QED BY <1>1, <1>2, <2>1, UnconsIs
<1>4. /\ c \in Calls /\ c.path = calls[1].path /\ c.intoDir = calls[1].intoDir
      /\ c.received = TRUE /\ c.times = FALSE
  BY <1>3 DEF Calls
<1>5. receiver' = [pc |-> IF c.intoDir THEN "line" ELSE "done", calls |-> <<c>> \o Tail(calls)]
  BY DEF EntryDone, ReceiverGoes
<1> HIDE DEF c
<1>6. IF Len(calls) = 1 THEN c.received = over ELSE over = FALSE
  BY <1>2, <1>4
<1> HIDE DEF over
<1>7. <<c>> \o Tail(calls) \in Seq(Calls) /\ Nested(<<c>> \o Tail(calls), DOMAIN landed', Front(p), over, FALSE)
  <2>1. PICK t, grown, d : t = asked.preserve /\ grown = DOMAIN landed' /\ d = Front(p)
    OBVIOUS
  <2>2. Nested(calls, there, d, FALSE, t) /\ there \subseteq grown
    BY <2>1
  <2>3. /\ <<c>> \o Tail(calls) \in Seq(Calls)
        /\ Nested(<<c>> \o Tail(calls), grown, d, over, c.times)
    BY <1>3, <1>4, <1>6, <2>2, NestedTop
  <2> QED BY <1>4, <2>1, <2>3
<1>8. c.intoDir \in BOOLEAN /\ (~c.intoDir => w = <<>>)
  <2>1. calls[1].intoDir <=> 1 < Len(calls) \/ asked.intoDir
    BY <1>3 DEF Nested
  <2>2. ~(1 < Len(calls)) => Len(p) = 1
    BY <1>1, <1>2
  <2> QED BY <1>4, <2>1, <2>2 DEF Calls
<1>9. /\ receiver' \in ReceiverStates /\ receiver'.pc \in {"line", "done"}
      /\ receiver'.pc = "line" \/ (receiver'.pc = "done" /\ w = <<>>)
      /\ receiver'.calls = <<c>> \o Tail(calls)
  BY <1>5, <1>7, <1>8 DEF ReceiverStates
<1>10. InStep(w, "line", FALSE)'
  <2>1. Nested(receiver'.calls, DOMAIN landed', Dir(w), w = <<>>, FALSE)
    BY <1>7, <1>9 DEF over
  <2>2. Ended(receiver') \/ receiver'.pc = "line"
    BY <1>9 DEF Ended
  <2> QED BY <2>1, <2>2, InStepNext
<1>11. AtTurn("entry", w)'
  <2>1. (asked.preserve' /\ "entry" # "entry") = FALSE
    OBVIOUS
  <2> QED BY <1>10, <2>1 DEF AtTurn
<1>12. receiver'.pc = "done" => Delivered({})'
  <2> SUFFICES ASSUME receiver'.pc = "done" PROVE Delivered({})'
    OBVIOUS
  <2>1. w = <<>>
    BY <1>9
  <2>2. AheadIn(w) = {} /\ Wanted' = Wanted
    BY <2>1 DEF AheadIn, Wanted
  <2> QED BY <2>2 DEF Delivered
<1> QED BY <1>9, <1>11, <1>12

LEMMA ReceiveScpKeeps ==
  ASSUME ScpInv, ReceiveScp
  PROVE  ScpInv'
<1>1. /\ receiver.pc = "hello" /\ UNCHANGED <<asked, sender, cut, lines, landed, timed, scpFailures>>
  BY DEF ReceiveScp, SenderSide, FsKept, ScpWorks
<1>2. NotBegun
  BY <1>1 DEF ScpInv, Dialogue, LineSent, SendersTurn, LineAnswered, LineRefused, Silent, AtTurn, InFlight, TimesSent,
              FileSent, DataSent, DirectorySent, EndSent, ErrorSent, InStep, Ended
<1>3. asked \in Requests /\ asked.intoDir \in BOOLEAN /\ asked.preserve \in BOOLEAN
  BY DEF ScpInv, ScpTyped, Requests
<1> DEFINE w == <<Enter(<<asked.root>>)>>
           calls == <<Frame(<<>>, asked.intoDir)>>
<1>4. /\ <<asked.root>> \in Wanted /\ Enter(<<asked.root>>) \in Steps
      /\ \A q \in Wanted : Under(<<asked.root>>, q)
  BY <1>3, RootWanted DEF Enter, Steps, Wanted
<1>5. w \in Seq(Steps) /\ Len(w) = 1 /\ w[1] = Enter(<<asked.root>>) /\ Head(w) = w[1] /\ w # <<>>
  BY <1>4
<1>6. Frame(<<>>, asked.intoDir) \in Calls /\ calls \in Seq(Calls) /\ Len(calls) = 1
      /\ calls[1] = Frame(<<>>, asked.intoDir) /\ Head(calls) = calls[1]
  BY <1>3 DEF Frame, Calls
<1> HIDE DEF calls
<1>7. PICK v : v = w
  OBVIOUS
<1>8. v \in Seq(Steps) /\ Len(v) = 1 /\ v[1] = Enter(<<asked.root>>) /\ Head(v) = v[1] /\ v # <<>>
  BY <1>5, <1>7
<1> HIDE DEF w
<1>9. WalkOK(v) /\ AheadIn(v) = Wanted /\ Dir(v) = <<>>
  <2>1. /\ Enter(<<asked.root>>).route = <<asked.root>> /\ Enter(<<asked.root>>).ends = FALSE
        /\ Len(<<asked.root>>) = 1
    BY DEF Enter
  <2>2. WalkOK(v)
    BY <1>4, <1>8, <2>1 DEF WalkOK
  <2>3. AheadIn(v) = Wanted
    BY <1>4, <1>8, <2>1 DEF AheadIn
  <2>4. Dir(v) = <<>>
    <3>1. <<asked.root>> \in Routes
      BY <1>4 DEF Wanted
    <3>2. Front(<<asked.root>>) = <<>>
      BY <2>1, <3>1, FrontIs
    <3>3. In(v[1]) = Front(<<asked.root>>)
      BY <1>8, <2>1 DEF In
    <3> QED BY <1>8, <3>2, <3>3 DEF Dir
  <2> QED BY <2>2, <2>3, <2>4
<1>10. scpFailures' = 0 => sender.pc # "failed"
  BY <1>1 DEF ScpInv, Stopped, Ended
<1>11. CASE asked.mustBeDir /\ ~asked.intoDir
  <2>1. acks' = <<FALSE>> /\ receiver' = [receiver EXCEPT !.pc = "failed"]
    BY <1>2, <1>11, OneSaid DEF ReceiveScp, Acks, ReceiverFails, NotBegun
  <2>2. receiver' \in ReceiverStates /\ receiver'.pc = "failed"
    BY <2>1 DEF ScpInv, ScpTyped, ReceiverStates
  <2>3. ScpTyped' /\ Landed'
    BY <1>1, <2>2 DEF ScpInv, ScpTyped, Landed, ReceiverStates, Wanted, Landing
  <2>4. LineRefused'
    BY <1>1, <1>2, <2>1, <2>2 DEF NotBegun, LineRefused, Waits
  <2>5. Stopped'
    BY <1>1, <1>2, <1>10, <2>2 DEF ScpInv, Stopped, NotBegun, Waits
  <2> QED BY <2>3, <2>4, <2>5 DEF ScpInv, Dialogue
<1>12. CASE ~(asked.mustBeDir /\ ~asked.intoDir)
  <2>1. acks' = <<TRUE>> /\ receiver' = [pc |-> "line", calls |-> calls]
    BY <1>2, <1>12, OneSaid DEF ReceiveScp, Acks, ReceiverGoes, NotBegun, calls
  <2>2. receiver' \in ReceiverStates /\ receiver'.pc = "line" /\ receiver'.calls = calls
    BY <1>6, <2>1 DEF ReceiverStates
  <2>3. ScpTyped' /\ Landed'
    BY <1>1, <2>2 DEF ScpInv, ScpTyped, Landed, ReceiverStates, Wanted, Landing
  <2>4. Nested(calls, DOMAIN landed', <<>>, FALSE, FALSE)
    <3>1. /\ calls[1].path = <<>> /\ calls[1].intoDir = asked.intoDir /\ calls[1].times = FALSE
          /\ calls[1].received = FALSE
      BY <1>6 DEF Frame
    <3>2. Place(Upto(<<>>, 0)) = <<>>
      <4>1. Upto(<<>>, 0) = <<>>
        <5>1. Upto(<<>>, 0) \in Seq(Nodes) /\ Len(Upto(<<>>, 0)) = 0
          BY DEF Upto
        <5> QED BY <5>1, EmptySeq
      <4> QED BY <4>1 DEF Place
    <3>3. \A j \in 1..Len(calls) : j = 1 /\ Len(calls) - j = 0 /\ ~(j < Len(calls))
      BY <1>6
    <3>4. Len(calls) = Len(<<>>) + 1
      BY <1>6
    <3> QED BY <3>1, <3>2, <3>3, <3>4 DEF Nested
  <2>5. InStep(v, "line", FALSE)'
    <3>1. (v = <<>>) = FALSE
      BY <1>8
    <3> QED BY <1>1, <1>9, <2>2, <2>4, <3>1, InStepNext
  <2>6. AtTurn("entry", v)'
    <3>1. (asked.preserve' /\ "entry" # "entry") = FALSE
      OBVIOUS
    <3> QED BY <2>5, <3>1 DEF AtTurn
  <2>7. LineAnswered'
    <3>1. PICK a : a = sender.after
      OBVIOUS
    <3>2. a = "entry" /\ v = sender.walk
      BY <1>2, <1>7, <3>1 DEF NotBegun, w
    <3>3. AtTurn(a, v)'
      BY <2>6, <3>2
    <3> QED BY <1>1, <1>2, <2>1, <2>2, <3>1, <3>2, <3>3 DEF NotBegun, LineAnswered, Waits
  <2>8. Stopped'
    BY <1>1, <1>2, <1>10, <2>2 DEF ScpInv, Stopped, NotBegun, Waits
  <2> QED BY <2>3, <2>7, <2>8 DEF ScpInv, Dialogue
<1> QED BY <1>11, <1>12

\* What the receiver is told, by the kind of the line.
LEMMA LineSays ==
  ASSUME ScpInv, lines # <<>>, receiver.pc \in {"line", "data"}, NEW l, l = Head(lines),
         NEW a, NEW w, a = sender.after, w = sender.walk
  PROVE  /\ receiver.pc = "data" => DataSent(l, a, w)
         /\ receiver.pc = "line" =>
              /\ l.kind = "T" => TimesSent(l, a, w)
              /\ l.kind = "D" => DirectorySent(l, a, w)
              /\ l.kind = "C" => FileSent(l, a, w)
              /\ l.kind = "E" => EndSent(l, a, w)
         /\ w \in Seq(Steps) /\ asked \in Requests /\ asked.preserve \in BOOLEAN
         /\ receiver.calls \in Seq(Calls)
         /\ scpFailures \in 0..MaxScpFailures /\ scpFailures <= scpFailures
         /\ ScpFault => scpFailures' \in 0..MaxScpFailures /\ scpFailures <= scpFailures'
<1>1. InFlight(l, a, w)
  BY LineIs
<1>2. ~ErrorSent(l) \/ l.kind = "error"
  BY DEF ErrorSent
<1>3. receiver.pc = "data" => DataSent(l, a, w)
  BY <1>1 DEF InFlight, TimesSent, FileSent, DirectorySent, EndSent, ErrorSent, InStep, Ended
<1>4. receiver.pc = "line" =>
        /\ l.kind = "T" => TimesSent(l, a, w)
        /\ l.kind = "D" => DirectorySent(l, a, w)
        /\ l.kind = "C" => FileSent(l, a, w)
        /\ l.kind = "E" => EndSent(l, a, w)
  BY <1>1 DEF InFlight, TimesSent, FileSent, DirectorySent, EndSent, ErrorSent, DataSent
<1>5. scpFailures \in 0..MaxScpFailures /\ w \in Seq(Steps) /\ asked \in Requests
      /\ asked.preserve \in BOOLEAN /\ receiver.calls \in Seq(Calls)
  BY DEF ScpInv, ScpTyped, Requests
<1>6. /\ scpFailures <= scpFailures
      /\ ScpFault => scpFailures' \in 0..MaxScpFailures /\ scpFailures <= scpFailures'
  BY <1>5, ScpAssumption DEF ScpFault
<1> QED BY <1>3, <1>4, <1>5, <1>6

LEMMA ReadTimesKeeps ==
  ASSUME ScpInv, ReadTimes
  PROVE  ScpInv'
<1>1. /\ receiver.pc = "line" /\ lines # <<>> /\ Head(lines).kind = "T" /\ Takes /\ Acks(TRUE)
      /\ receiver' = [pc |-> "line", calls |-> <<[Top EXCEPT !.times = TRUE]>> \o Tail(receiver.calls)]
      /\ UNCHANGED <<asked, sender, cut, landed, timed, scpFailures>> /\ SenderSide
  BY DEF ReadTimes, NextLine, ReceiverGoes, FsKept, ScpWorks, SenderSide
<1>2. PICK a, w, l : a = sender.after /\ w = sender.walk /\ l = Head(lines)
  OBVIOUS
<1>3. /\ TimesSent(l, a, w) /\ receiver.calls \in Seq(Calls) /\ asked.preserve \in BOOLEAN
      /\ scpFailures \in 0..MaxScpFailures /\ scpFailures <= scpFailures
  BY <1>1, <1>2, LineSays
<1>4. /\ a = "header" /\ asked.preserve /\ w # <<>> /\ ~Head(w).ends /\ WalkOK(w)
      /\ Delivered(AheadIn(w)) /\ Nested(receiver.calls, DOMAIN landed, Dir(w), w = <<>>, FALSE)
  BY <1>1, <1>3 DEF TimesSent, InStep, Ended
<1> DEFINE c == [Top EXCEPT !.times = TRUE]
           calls == receiver.calls
<1>5. PICK d : d = Dir(w)
  OBVIOUS
<1>6. Nested(calls, DOMAIN landed, d, FALSE, FALSE)
  <2>1. (w = <<>>) = FALSE
    BY <1>4
  <2> QED BY <1>4, <1>5, <2>1
<1>7. Len(calls) # 0 /\ calls # <<>> /\ Top = calls[1] /\ Top \in Calls /\ 1 \in 1..Len(calls)
  <2>1. Len(calls) = Len(d) + 1 /\ Len(calls) \in Nat
    BY <1>3, <1>6 DEF Nested
  <2>2. Len(d) \in Nat
    <3>1. d \in Seq(Nodes)
      <4>1. w[1].route \in Routes /\ Head(w) = w[1]
        <5>1. w \in Seq(Steps) /\ Len(w) \in Nat /\ Len(w) # 0
          BY <1>4, EmptySeq DEF WalkOK
        <5> QED BY <1>4, <5>1, UnconsIs DEF WalkOK, Wanted
      <4> QED BY <1>4, <1>5, <4>1, FrontIs DEF Dir, In
    <3> QED BY <3>1
  <2>3. calls # <<>>
    BY <2>1, <2>2, EmptySeq
  <2> QED BY <1>3, <2>1, <2>2, <2>3, UnconsIs DEF Top
<1>8. /\ c \in Calls /\ c.path = calls[1].path /\ c.intoDir = calls[1].intoDir
      /\ c.received = calls[1].received /\ c.times = TRUE
  BY <1>7 DEF Calls
<1> HIDE DEF c
<1>9. IF Len(calls) = 1 THEN c.received = FALSE ELSE FALSE = FALSE
  BY <1>6, <1>7, <1>8 DEF Nested
<1>10. <<c>> \o Tail(calls) \in Seq(Calls) /\ Nested(<<c>> \o Tail(calls), DOMAIN landed, d, FALSE, TRUE)
  <2>1. PICK there : there = DOMAIN landed
    OBVIOUS
  <2>2. there \subseteq there
    OBVIOUS
  <2>3. <<c>> \o Tail(calls) \in Seq(Calls) /\ Nested(<<c>> \o Tail(calls), there, d, FALSE, c.times)
    BY <1>3, <1>6, <1>7, <1>8, <1>9, <2>1, <2>2, NestedTop
  <2> QED BY <1>8, <2>1, <2>3
<1>11. receiver' = [pc |-> "line", calls |-> <<c>> \o Tail(calls)]
  BY <1>1 DEF c
<1>12. /\ receiver' \in ReceiverStates /\ receiver'.pc = "line"
       /\ receiver'.calls = <<c>> \o Tail(calls)
  BY <1>10, <1>11 DEF ReceiverStates
<1>13. InStep(w, "line", TRUE)'
  <2>1. (w = <<>>) = FALSE
    BY <1>4
  <2>2. Nested(receiver'.calls, DOMAIN landed', Dir(w), w = <<>>, TRUE)
    BY <1>1, <1>5, <1>10, <1>12, <2>1
  <2>3. \A q \in Wanted \ AheadIn(w) : Arrived(q)'
    BY <1>1, <1>4 DEF Delivered, Arrived, Landing
  <2> QED BY <1>1, <1>4, <1>12, <2>2, <2>3, InStepNext
<1>14. AtTurn("header", w)'
  <2>1. (asked.preserve' /\ "header" # "entry") = TRUE
    BY <1>1, <1>3, <1>4
  <2> QED BY <1>1, <1>4, <1>13, <2>1 DEF AtTurn
<1>15. Landed'
  BY <1>1 DEF ScpInv, Landed, Wanted, Landing
<1>16. AtTurn(a, w)'
  BY <1>4, <1>14
<1> QED BY <1>1, <1>2, <1>3, <1>12, <1>15, <1>16, ReceiverReads

\* The entry that is asked for next is where the call at hand is.
LEMMA EntryAtHand ==
  ASSUME NEW e \in Steps, NEW rest \in Seq(Steps), NEW w, w = <<e>> \o rest, WalkOK(w), ~e.ends,
         asked \in Requests, receiver.calls \in Seq(Calls), NEW there, NEW times,
         Nested(receiver.calls, there, Dir(w), FALSE, times)
  PROVE  /\ e = Enter(e.route) /\ e.route \in Wanted /\ WalkOK(rest) /\ Dir(rest) = Front(e.route)
         /\ (rest = <<>> <=> Len(e.route) = 1)
         /\ Dir(w) = Front(e.route) /\ Nested(receiver.calls, there, Front(e.route), FALSE, times)
         /\ Destination(Name(e.route)) = Landing(e.route) /\ Top.times = times
         /\ e.route \in AheadIn(w)
<1>1. e.route \in Wanted /\ WalkOK(rest) /\ Dir(rest) = Front(e.route) /\ Dir(w) = In(e)
      /\ (rest = <<>> <=> Len(e.route) = 1)
  BY WalkFirst
<1>2. e = Enter(e.route) /\ In(e) = Front(e.route)
  BY DEF Steps, Enter, In
<1>3. PICK d : d = Front(e.route)
  OBVIOUS
<1>4. Nested(receiver.calls, there, d, FALSE, times)
  BY <1>1, <1>2, <1>3
<1>5. Destination(Name(e.route)) = Landing(e.route) /\ Top.times = times
  BY <1>1, <1>3, <1>4, DestinationIs
<1>6. e.route \in AheadIn(w)
  <2>1. Under(e.route, e.route)
    BY <1>1, RouteIs DEF Under, Wanted
  <2> QED BY <1>1, <2>1, AheadFirst
<1> QED BY <1>1, <1>2, <1>3, <1>4, <1>5, <1>6

LEMMA ReadFileKeeps ==
  ASSUME ScpInv, ReadFile
  PROVE  ScpInv'
<1>1. /\ receiver.pc = "line" /\ lines # <<>> /\ Head(lines).kind = "C" /\ Takes
      /\ UNCHANGED <<asked, sender, cut, timed>> /\ SenderSide
  BY DEF ReadFile, NextLine, SenderSide
<1>2. PICK a, w, l : a = sender.after /\ w = sender.walk /\ l = Head(lines)
  OBVIOUS
<1>3. /\ FileSent(l, a, w) /\ receiver.calls \in Seq(Calls) /\ asked.preserve \in BOOLEAN
      /\ asked \in Requests /\ w \in Seq(Steps)
      /\ scpFailures \in 0..MaxScpFailures /\ scpFailures <= scpFailures
      /\ ScpFault => scpFailures' \in 0..MaxScpFailures /\ scpFailures <= scpFailures'
  BY <1>1, <1>2, LineSays
<1>4. /\ a = "data" /\ w # <<>> /\ ~Head(w).ends /\ ~IsDirectory(Head(w).route)
      /\ l.node = Name(Head(w).route) /\ WalkOK(w) /\ Delivered(AheadIn(w))
      /\ Nested(receiver.calls, DOMAIN landed, Dir(w), w = <<>>, asked.preserve)
  BY <1>1, <1>3 DEF FileSent, InStep, Ended
<1>5. PICK e, rest, p : e = Head(w) /\ rest = Tail(w) /\ p = e.route
  OBVIOUS
<1>6. e \in Steps /\ rest \in Seq(Steps) /\ w = <<e>> \o rest
  BY <1>3, <1>4, <1>5, UnconsIs
<1>7. /\ p \in Wanted /\ Dir(w) = Front(p)
      /\ Nested(receiver.calls, DOMAIN landed, Front(p), FALSE, asked.preserve)
      /\ Destination(l.node) = Landing(p) /\ p \in AheadIn(w)
  <2>1. PICK there, t : there = DOMAIN landed /\ t = asked.preserve
    OBVIOUS
  <2>2. Nested(receiver.calls, there, Dir(w), FALSE, t) /\ ~e.ends
    <3>1. (w = <<>>) = FALSE
      BY <1>4
    <3> QED BY <1>4, <1>5, <2>1, <3>1
  <2>3. /\ p \in Wanted /\ Dir(w) = Front(p) /\ Nested(receiver.calls, there, Front(p), FALSE, t)
        /\ Destination(Name(p)) = Landing(p) /\ p \in AheadIn(w)
    BY <1>3, <1>4, <1>5, <1>6, <2>2, EntryAtHand
  <2> QED BY <1>4, <1>5, <2>1, <2>3
<1>8. CASE /\ landed' = [q \in DOMAIN landed \cup {Landing(p)} |->
                           IF q = Landing(p) THEN "empty" ELSE landed[q]]
           /\ Acks(TRUE) /\ ReceiverGoes("data", receiver.calls) /\ ScpWorks
  <2>1. /\ DOMAIN landed' = DOMAIN landed \cup {Landing(p)} /\ landed'[Landing(p)] = "empty"
        /\ \A q \in DOMAIN landed : q # Landing(p) => landed'[q] = landed[q]
    BY <1>8
  <2>2. Landed' /\ \A q \in Wanted : Arrived(q) /\ q # p => Arrived(q)'
    BY <1>1, <1>7, <2>1, LandedGrows DEF ScpInv
  <2>3. receiver' \in ReceiverStates /\ receiver'.pc = "data" /\ receiver'.calls = receiver.calls
    BY <1>3, <1>8 DEF ReceiverGoes, ReceiverStates
  <2>4. \A q \in Wanted \ AheadIn(w) : Arrived(q)'
    BY <1>4, <1>7, <2>2 DEF Delivered
  <2>5. Nested(receiver'.calls, DOMAIN landed', Dir(w), w = <<>>, asked.preserve)
    <3>1. PICK d, old, new : d = Dir(w) /\ old = DOMAIN landed /\ new = DOMAIN landed'
      OBVIOUS
    <3>2. old \subseteq new
      BY <2>1, <3>1
    <3> QED BY <1>4, <2>3, <3>1, <3>2, NestedGrows
  <2>6. InStep(w, "data", asked.preserve)'
    <3>1. PICK t : t = asked.preserve
      OBVIOUS
    <3>2. InStep(w, "data", t)'
      BY <1>1, <1>4, <2>3, <2>4, <2>5, <3>1, InStepNext
    <3> QED BY <1>1, <3>1, <3>2
  <2>7. AtTurn("data", w)'
    <3>1. (asked.preserve' /\ "data" # "entry") = asked.preserve'
      BY <1>1, <1>3
    <3>2. Landing(p)' = Landing(p)
      BY <1>1 DEF Landing
    <3> QED BY <1>4, <1>5, <2>1, <2>6, <3>1, <3>2 DEF AtTurn
  <2>8. AtTurn(a, w)'
    BY <1>4, <2>7
  <2> QED BY <1>1, <1>2, <1>3, <1>8, <2>2, <2>3, <2>8, ReceiverReads DEF ScpWorks
<1>9. CASE ScpFault /\ Acks(FALSE) /\ ReceiverFails /\ UNCHANGED landed
  <2>1. receiver' \in ReceiverStates /\ receiver'.pc = "failed"
    BY <1>9 DEF ReceiverFails, ScpInv, ScpTyped, ReceiverStates
  <2>2. Landed'
    BY <1>1, <1>9 DEF ScpInv, Landed, Wanted, Landing
  <2> QED BY <1>1, <1>2, <1>3, <1>9, <2>1, <2>2, ReceiverReads
<1> QED BY <1>2, <1>7, <1>8, <1>9 DEF ReadFile

LEMMA ReadDataKeeps ==
  ASSUME ScpInv, ReadData
  PROVE  ScpInv'
<1>1. /\ receiver.pc = "data" /\ lines # <<>> /\ Takes
      /\ UNCHANGED <<asked, sender, cut>> /\ SenderSide
  BY DEF ReadData, SenderSide
<1>2. PICK a, w, l : a = sender.after /\ w = sender.walk /\ l = Head(lines)
  OBVIOUS
<1>3. /\ DataSent(l, a, w) /\ receiver.calls \in Seq(Calls) /\ asked.preserve \in BOOLEAN
      /\ asked \in Requests /\ w \in Seq(Steps)
      /\ scpFailures \in 0..MaxScpFailures /\ scpFailures <= scpFailures
      /\ ScpFault => scpFailures' \in 0..MaxScpFailures /\ scpFailures <= scpFailures'
  BY <1>1, <1>2, LineSays
<1>4. PICK p \in Wanted : /\ ~IsDirectory(p) /\ l.node = Name(p) /\ Landing(p) \in DOMAIN landed
                          /\ InStep(<<Enter(p)>> \o w, "data", asked.preserve)
  BY <1>3 DEF DataSent
<1>5. PICK e, u : e = Enter(p) /\ u = <<e>> \o w
  OBVIOUS
<1>6. /\ WalkOK(u) /\ Delivered(AheadIn(u)) /\ a = "entry"
      /\ Nested(receiver.calls, DOMAIN landed, Dir(u), u = <<>>, asked.preserve)
  BY <1>1, <1>3, <1>4, <1>5 DEF InStep, Ended, DataSent
<1>7. e \in Steps /\ ~e.ends /\ e.route = p
  BY <1>5 DEF Enter, Steps, Wanted
<1>8. /\ WalkOK(w) /\ Dir(w) = Front(p) /\ (w = <<>> <=> Len(p) = 1)
      /\ Nested(receiver.calls, DOMAIN landed, Front(p), FALSE, asked.preserve)
      /\ Destination(l.node) = Landing(p) /\ Top.times = asked.preserve
  <2>1. PICK there, t : there = DOMAIN landed /\ t = asked.preserve
    OBVIOUS
  <2>2. Nested(receiver.calls, there, Dir(u), FALSE, t) /\ e.route = p
    <3>1. (u = <<>>) = FALSE
      BY <1>3, <1>5, <1>7, ConsIs
    <3> QED BY <1>6, <1>7, <2>1, <3>1
  <2>3. /\ WalkOK(w) /\ Dir(w) = Front(p) /\ (w = <<>> <=> Len(p) = 1)
        /\ Nested(receiver.calls, there, Front(p), FALSE, t)
        /\ Destination(Name(p)) = Landing(p) /\ Top.times = t
    BY <1>3, <1>5, <1>6, <1>7, <2>2, EntryAtHand
  <2> QED BY <1>4, <2>1, <2>3
<1>9. \A q \in Wanted \ AheadIn(w) : q = p \/ Arrived(q)
  <2> SUFFICES ASSUME NEW q \in Wanted \ AheadIn(w), q # p, ~Arrived(q) PROVE FALSE
    OBVIOUS
  <2>1. q \in AheadIn(u)
    BY <1>6 DEF Delivered
  <2>2. Under(p, q)
    BY <1>3, <1>5, <1>7, <2>1, AheadFirst
  <2> QED BY <1>4, <2>2, UnderEntries
<1>10. CASE /\ landed' = [landed EXCEPT ![Landing(p)] = "whole"]
            /\ SetTimes(Landing(p)) /\ Acks(TRUE) /\ EntryDone(receiver.calls) /\ ScpWorks
  <2>1. /\ DOMAIN landed' = DOMAIN landed \cup {Landing(p)} /\ landed'[Landing(p)] = "whole"
        /\ \A q \in DOMAIN landed : q # Landing(p) => landed'[q] = landed[q]
    BY <1>4, <1>10
  <2>2. timed' = IF asked.preserve THEN timed \cup {Landing(p)} ELSE timed
    BY <1>8, <1>10 DEF SetTimes
  <2>3. Landed' /\ (\A q \in Wanted : Arrived(q) /\ q # p => Arrived(q)') /\ Arrived(p)'
    BY <1>1, <1>4, <2>1, <2>2, LandedGrows DEF ScpInv
  <2>4. \A q \in Wanted \ AheadIn(w) : Arrived(q)'
    BY <1>9, <2>3
  <2>5. /\ receiver' \in ReceiverStates /\ receiver'.pc \in {"line", "done"}
        /\ AtTurn("entry", w)'
        /\ receiver'.pc = "done" => Delivered({})'
    <3>1. PICK calls, there : calls = receiver.calls /\ there = DOMAIN landed
      OBVIOUS
    <3>2. there \subseteq DOMAIN landed' /\ Nested(calls, there, Front(p), FALSE, asked.preserve)
          /\ EntryDone(calls) /\ calls \in Seq(Calls)
      BY <1>3, <1>8, <1>10, <2>1, <3>1
    <3> QED BY <1>1, <1>3, <1>8, <2>4, <3>2, EntryDoneIs
  <2>6. AtTurn(a, w)'
    BY <1>6, <2>5
  <2> QED BY <1>1, <1>2, <1>3, <1>10, <2>3, <2>5, <2>6, ReceiverReads DEF ScpWorks
<1>11. CASE ScpFault /\ ReceiverFails /\ FsKept /\ UNCHANGED acks
  <2>1. receiver' \in ReceiverStates /\ receiver'.pc = "failed"
    BY <1>11 DEF ReceiverFails, ScpInv, ScpTyped, ReceiverStates
  <2>2. Landed'
    BY <1>1, <1>11 DEF ScpInv, Landed, Wanted, Landing, FsKept
  <2> QED BY <1>1, <1>2, <1>3, <1>11, <2>1, <2>2, ReceiverReads
<1> QED BY <1>2, <1>8, <1>10, <1>11 DEF ReadData

LEMMA ReadDirectoryKeeps ==
  ASSUME ScpInv, ReadDirectory
  PROVE  ScpInv'
<1>1. /\ receiver.pc = "line" /\ lines # <<>> /\ Head(lines).kind = "D" /\ Takes
      /\ UNCHANGED <<asked, sender, cut, timed>> /\ SenderSide
  BY DEF ReadDirectory, NextLine, SenderSide
<1>2. PICK a, w, l : a = sender.after /\ w = sender.walk /\ l = Head(lines)
  OBVIOUS
<1>3. /\ DirectorySent(l, a, w) /\ receiver.calls \in Seq(Calls) /\ asked.preserve \in BOOLEAN
      /\ asked \in Requests /\ w \in Seq(Steps)
      /\ scpFailures \in 0..MaxScpFailures /\ scpFailures <= scpFailures
      /\ ScpFault => scpFailures' \in 0..MaxScpFailures /\ scpFailures <= scpFailures'
  BY <1>1, <1>2, LineSays
<1>4. PICK p \in Wanted, rest \in Seq(Steps) :
        /\ IsDirectory(p) /\ l.node = Name(p) /\ w = EntriesOf(p) \o <<Leave(p)>> \o rest
        /\ InStep(<<Enter(p)>> \o rest, "line", asked.preserve)
  BY <1>3 DEF DirectorySent
<1>5. PICK e, u, there, t : /\ e = Enter(p) /\ u = <<e>> \o rest
                            /\ there = DOMAIN landed /\ t = asked.preserve
  OBVIOUS
<1>6. /\ WalkOK(u) /\ Delivered(AheadIn(u)) /\ a = "entry" /\ asked.recursive
      /\ Nested(receiver.calls, there, Dir(u), u = <<>>, t)
  BY <1>1, <1>3, <1>4, <1>5 DEF InStep, Ended, DirectorySent
<1>7. e \in Steps /\ ~e.ends /\ e.route = p
  BY <1>5 DEF Enter, Steps, Wanted
<1>8. Nested(receiver.calls, there, Front(p), FALSE, t) /\ Destination(l.node) = Landing(p)
  <2>a. (u = <<>>) = FALSE
    BY <1>5, <1>7, ConsIs
  <2>b. Nested(receiver.calls, there, Dir(u), FALSE, t)
    BY <1>6, <2>a
  <2>1. Nested(receiver.calls, there, Front(p), FALSE, t) /\ Destination(Name(p)) = Landing(p)
    BY <2>b, <1>3, <1>5, <1>6, <1>7, EntryAtHand
  <2> QED BY <1>4, <2>1
<1>9. WalkOK(w) /\ Dir(w) = p /\ Wanted \ AheadIn(w) \subseteq {p} \cup (Wanted \ AheadIn(u)) /\ w # <<>>
  <2>1. WalkOK(<<Enter(p)>> \o rest)
    BY <1>5, <1>6
  <2>2. WalkOK(w) /\ Dir(w) = p /\ Wanted \ AheadIn(w) \subseteq {p} \cup (Wanted \ AheadIn(u))
    BY <1>4, <1>5, <1>6, <2>1, WalkEnters
  <2> QED BY <1>4, <2>2, EntriesAre
<1>10. CASE /\ landed' = [q \in DOMAIN landed \cup {Landing(p)} |->
                            IF q = Landing(p) THEN "dir" ELSE landed[q]]
            /\ Acks(TRUE) /\ ReceiverGoes("line", <<Frame(Landing(p), TRUE)>> \o receiver.calls)
            /\ ScpWorks
  <2>1. /\ DOMAIN landed' = DOMAIN landed \cup {Landing(p)} /\ landed'[Landing(p)] = "dir"
        /\ \A q \in DOMAIN landed : q # Landing(p) => landed'[q] = landed[q]
    BY <1>10
  <2>2. Landed' /\ (\A q \in Wanted : Arrived(q) /\ q # p => Arrived(q)') /\ Arrived(p)'
    BY <1>1, <1>4, <2>1, LandedGrows DEF ScpInv
  <2>3. PICK calls, new : calls = <<Frame(Landing(p), TRUE)>> \o receiver.calls /\ new = DOMAIN landed'
    OBVIOUS
  <2>4. calls \in Seq(Calls) /\ Nested(calls, new, p, FALSE, FALSE)
    <3>1. there \subseteq new /\ Landing(p) \in new
      BY <1>5, <2>1, <2>3
    <3>2. Nested(receiver.calls, there, Front(p), FALSE, asked.preserve)
      BY <1>5, <1>8
    <3> QED BY <1>3, <2>3, <3>1, <3>2, NestedPush
  <2>5. receiver' \in ReceiverStates /\ receiver'.pc = "line" /\ receiver'.calls = calls
    BY <1>10, <2>3, <2>4 DEF ReceiverGoes, ReceiverStates
  <2>6. \A q \in Wanted \ AheadIn(w) : Arrived(q)'
    BY <1>6, <1>9, <2>2 DEF Delivered
  <2>7. InStep(w, "line", FALSE)'
    <3>1. (w = <<>>) = FALSE
      BY <1>9
    <3>2. Nested(receiver'.calls, DOMAIN landed', Dir(w), w = <<>>, FALSE)
      BY <1>9, <2>3, <2>4, <2>5, <3>1
    <3> QED BY <1>1, <1>9, <2>5, <2>6, <3>2, InStepNext
  <2>8. AtTurn("entry", w)'
    <3>1. (asked.preserve' /\ "entry" # "entry") = FALSE
      OBVIOUS
    <3> QED BY <2>7, <3>1 DEF AtTurn
  <2>9. AtTurn(a, w)'
    BY <1>6, <2>8
  <2> QED BY <1>1, <1>2, <1>3, <1>10, <2>2, <2>5, <2>9, ReceiverReads DEF ScpWorks
<1>11. ASSUME ScpFault \/ ScpWorks, Acks(FALSE), ReceiverFails, UNCHANGED landed
       PROVE  ScpInv'
  <2>1. receiver' \in ReceiverStates /\ receiver'.pc = "failed"
    BY <1>11 DEF ReceiverFails, ScpInv, ScpTyped, ReceiverStates
  <2>2. Landed'
    BY <1>1, <1>11 DEF ScpInv, Landed, Wanted, Landing
  <2> QED BY <1>1, <1>2, <1>3, <1>11, <2>1, <2>2, ReceiverReads DEF ScpWorks
<1> QED BY <1>2, <1>8, <1>10, <1>11 DEF ReadDirectory

LEMMA ReadEndKeeps ==
  ASSUME ScpInv, ReadEnd
  PROVE  ScpInv'
<1>1. /\ receiver.pc = "line" /\ lines # <<>> /\ Head(lines).kind = "E" /\ Takes /\ Acks(TRUE)
      /\ UNCHANGED <<asked, sender, cut, scpFailures>> /\ SenderSide
  BY DEF ReadEnd, NextLine, SenderSide, ScpWorks
<1>2. PICK a, w, l : a = sender.after /\ w = sender.walk /\ l = Head(lines)
  OBVIOUS
<1>3. /\ EndSent(l, a, w) /\ receiver.calls \in Seq(Calls) /\ asked.preserve \in BOOLEAN
      /\ asked \in Requests /\ w \in Seq(Steps)
      /\ scpFailures \in 0..MaxScpFailures /\ scpFailures <= scpFailures
  BY <1>1, <1>2, LineSays
<1>4. PICK p \in Wanted : InStep(<<Leave(p)>> \o w, "line", FALSE)
  BY <1>3 DEF EndSent
<1>5. PICK e, u, there, t, calls : /\ e = Leave(p) /\ u = <<e>> \o w /\ calls = receiver.calls
                                   /\ there = DOMAIN landed /\ t = asked.preserve
  OBVIOUS
<1>6. /\ WalkOK(u) /\ Delivered(AheadIn(u)) /\ a = "entry"
      /\ Nested(calls, there, Dir(u), u = <<>>, FALSE)
  BY <1>1, <1>3, <1>4, <1>5 DEF InStep, Ended, EndSent
<1>7. e \in Steps /\ e.ends /\ e.route = p
  BY <1>5 DEF Leave, Steps, Wanted
<1>8. WalkOK(w) /\ Dir(u) = p /\ Dir(w) = Front(p) /\ (w = <<>> <=> Len(p) = 1) /\ (u = <<>>) = FALSE
      /\ AheadIn(w) = AheadIn(u)
  <2>1. WalkOK(w) /\ Dir(u) = In(e) /\ Dir(w) = Front(p) /\ (w = <<>> <=> Len(p) = 1)
    BY <1>3, <1>5, <1>6, <1>7, WalkFirst
  <2>2. (u = <<>>) = FALSE
    BY <1>3, <1>5, <1>7, ConsIs
  <2>3. AheadIn(w) = AheadIn(u)
    <3>1. AheadIn(u) = AheadIn(w) \cup {q \in Wanted : ~e.ends /\ Under(e.route, q)}
      BY <1>3, <1>5, <1>7, AheadFirst
    <3>2. {q \in Wanted : ~e.ends /\ Under(e.route, q)} = {}
      BY <1>7
    <3> QED BY <3>1, <3>2
  <2> QED BY <1>7, <2>1, <2>2, <2>3 DEF In
<1>9. Nested(calls, there, p, FALSE, FALSE)
  BY <1>6, <1>8
<1>10. /\ Top = calls[1] /\ Top.path = Landing(p) /\ Len(calls) = Len(p) + 1
       /\ Landing(p) \in DOMAIN landed
       /\ Tail(calls) \in Seq(Calls) /\ calls[2].times = t
       /\ Nested(Tail(calls), there, Front(p), FALSE, t)
  <2>1. calls \in Seq(Calls) /\ Head(calls) = Top
    BY <1>3, <1>5 DEF Top
  <2> QED BY <1>3, <1>5, <1>9, <2>1, NestedPop
<1>11. Len(calls) # 1
  <2>1. Len(p) \in Nat /\ 1 <= Len(p)
    BY RouteIs DEF Wanted
  <2> QED BY <1>10, <2>1
<1>12. /\ EntryDone(Tail(calls)) /\ UNCHANGED landed
       /\ timed' = IF asked.preserve THEN timed \cup {Landing(p)} ELSE timed
  BY <1>5, <1>10, <1>11 DEF ReadEnd
<1>13. Landed'
  BY <1>1, <1>3, <1>10, <1>12 DEF ScpInv, Landed, Wanted, Landing
<1>14. \A q \in Wanted \ AheadIn(w) : Arrived(q)'
  <2> SUFFICES ASSUME NEW q \in Wanted \ AheadIn(w) PROVE Arrived(q)'
    OBVIOUS
  <2>1. Arrived(q)
    BY <1>6, <1>8 DEF Delivered
  <2> QED BY <1>1, <1>12, <2>1 DEF Arrived, Landing
<1>15. /\ receiver' \in ReceiverStates /\ receiver'.pc \in {"line", "done"}
       /\ AtTurn("entry", w)'
       /\ receiver'.pc = "done" => Delivered({})'
  <2>1. PICK cs : cs = Tail(calls)
    OBVIOUS
  <2>2. there \subseteq DOMAIN landed' /\ Nested(cs, there, Front(p), FALSE, asked.preserve)
        /\ EntryDone(cs) /\ cs \in Seq(Calls)
    BY <1>5, <1>10, <1>12, <2>1
  <2> QED BY <1>1, <1>3, <1>8, <1>14, <2>2, EntryDoneIs
<1>16. AtTurn(a, w)'
  BY <1>6, <1>15
<1> QED BY <1>1, <1>2, <1>3, <1>13, <1>15, <1>16, ReceiverReads

LEMMA ReadErrorKeeps ==
  ASSUME ScpInv, ReadError
  PROVE  ScpInv'
<1>1. /\ receiver.pc = "line" /\ lines # <<>> /\ Takes /\ ReceiverFails /\ SenderSide
      /\ UNCHANGED <<asked, landed, timed, acks, scpFailures>>
  BY DEF ReadError, NextLine, SenderSide, ScpWorks, FsKept
<1>2. scpFailures \in 0..MaxScpFailures /\ scpFailures <= scpFailures
  BY <1>1, LineSays
<1>3. receiver' \in ReceiverStates /\ receiver'.pc = "failed"
  BY <1>1 DEF ReceiverFails, ScpInv, ScpTyped, ReceiverStates
<1>4. Landed'
  BY <1>1 DEF ScpInv, Landed, Wanted, Landing
<1> QED BY <1>1, <1>2, <1>3, <1>4, ReceiverReads

\* The receiver stops, and the sender is told nothing.
LEMMA EndOfInputKeeps ==
  ASSUME ScpInv, EndOfInput
  PROVE  ScpInv'
<1>1. /\ receiver.pc \in {"line", "data"} /\ lines = <<>> /\ (Ended(sender) \/ cut)
      /\ UNCHANGED <<asked, sender, cut, landed, timed, lines, acks, scpFailures>>
  BY DEF EndOfInput, SenderSide, ScpWorks, FsKept
<1>2. /\ receiver' \in ReceiverStates /\ Ended(receiver') /\ receiver'.pc # "hello"
      /\ receiver'.pc = "done" => receiver.pc = "line" /\ Top.received
  <2>1. receiver \in ReceiverStates
    BY DEF ScpInv, ScpTyped, ReceiverStates
  <2>2. CASE receiver.pc = "line" /\ Top.received
    BY <2>1, <2>2 DEF EndOfInput, ReceiverGoes, ReceiverStates, Ended
  <2>3. CASE ~(receiver.pc = "line" /\ Top.received)
    BY <2>1, <2>3 DEF EndOfInput, ReceiverFails, ReceiverStates, Ended
  <2> QED BY <2>2, <2>3
<1>3. (\A x, pc : AtTurn(pc, x) => AtTurn(pc, x)') /\ \A ahead : Delivered(ahead) => Delivered(ahead)'
  BY <1>1, <1>2, InStepKept
<1>4. ScpTyped' /\ Landed'
  BY <1>1, <1>2 DEF ScpInv, ScpTyped, ReceiverStates, Landed, Wanted, Landing
<1>5. PICK a, w, pc : a = sender.after /\ w = sender.walk /\ pc = sender.pc
  OBVIOUS
<1>6. Dialogue'
  <2>1. SendersTurn => SendersTurn'
    <3>1. SendersTurn => AtTurn(pc, w)'
      BY <1>3, <1>5 DEF SendersTurn
    <3> QED BY <1>1, <1>5, <3>1 DEF SendersTurn
  <2>2. LineAnswered => LineAnswered'
    <3>1. LineAnswered /\ sender.pc = "ack" => AtTurn(a, w)'
      BY <1>3, <1>5 DEF LineAnswered
    <3> QED BY <1>1, <1>2, <1>5, <3>1 DEF LineAnswered, Waits
  <2>3. Silent => Silent'
    BY <1>1, <1>2 DEF Silent
  <2>4. ~NotBegun /\ ~LineSent /\ ~LineRefused
    BY <1>1 DEF NotBegun, LineSent, LineRefused
  <2> QED BY <2>1, <2>2, <2>3, <2>4 DEF ScpInv, Dialogue
<1>7. receiver'.pc = "done" /\ scpFailures = 0 => Delivered({})
  <2> SUFFICES ASSUME receiver'.pc = "done", scpFailures = 0 PROVE Delivered({})
    OBVIOUS
  <2>1. ~cut
    BY DEF ScpInv, Stopped
  <2>2. sender.pc = "failed" => ~Top.received
    BY <1>1 DEF ScpInv, Stopped, Ended
  <2> QED BY <1>1, <1>2, <2>1, <2>2 DEF ScpInv, Stopped, Ended
<1>8. Stopped'
  BY <1>1, <1>2, <1>3, <1>7 DEF ScpInv, Stopped
<1> QED BY <1>4, <1>6, <1>8 DEF ScpInv

LEMMA CutKeeps ==
  ASSUME ScpInv, Cut
  PROVE  ScpInv'
<1>1. /\ UNCHANGED <<asked, sender, receiver, landed, timed>> /\ cut' = TRUE /\ lines' = <<>> /\ acks' = <<>>
      /\ ScpFault
  BY DEF Cut, FsKept
<1>2. scpFailures' \in 0..MaxScpFailures /\ scpFailures' > 0
  <2>1. scpFailures \in 0..MaxScpFailures /\ scpFailures < MaxScpFailures /\ scpFailures' = scpFailures + 1
    BY <1>1 DEF ScpFault, ScpInv, ScpTyped
  <2> QED BY <2>1, ScpAssumption
<1>3. (\A x, pc : AtTurn(pc, x) => AtTurn(pc, x)') /\ \A ahead : Delivered(ahead) => Delivered(ahead)'
  BY <1>1, InStepKept
<1>4. ScpTyped' /\ Landed'
  BY <1>1, <1>2 DEF ScpInv, ScpTyped, Landed, Wanted, Landing
<1>5. Dialogue'
  <2>1. NotBegun => NotBegun'
    BY <1>1 DEF NotBegun, Waits
  <2>2. SendersTurn => SendersTurn'
    <3>1. PICK w, pc : w = sender.walk /\ pc = sender.pc
      OBVIOUS
    <3>2. SendersTurn => AtTurn(pc, w)'
      BY <1>3, <3>1 DEF SendersTurn
    <3> QED BY <1>1, <3>1, <3>2 DEF SendersTurn
  <2>3. LineSent \/ LineAnswered \/ LineRefused => Silent'
    <3>1. LineSent => receiver.pc # "hello" /\ Waits
      BY LineIs DEF LineSent
    <3>2. LineAnswered \/ LineRefused => receiver.pc # "hello" /\ Waits
      BY DEF LineAnswered, LineRefused
    <3> QED BY <1>1, <3>1, <3>2 DEF Silent, Waits
  <2>4. Silent => Silent'
    BY <1>1 DEF Silent
  <2> QED BY <2>1, <2>2, <2>3, <2>4 DEF ScpInv, Dialogue
<1>6. Stopped'
  <2>1. scpFailures' # 0
    BY <1>2
  <2> QED BY <1>1, <1>2, <1>3, <2>1 DEF ScpInv, Stopped
<1> QED BY <1>4, <1>5, <1>6 DEF ScpInv

LEMMA ScpInitially == ScpInit => ScpInv
<1> SUFFICES ASSUME ScpInit PROVE ScpInv
  OBVIOUS
<1>1. <<asked.root>> \in Wanted /\ Enter(<<asked.root>>) \in Steps
  BY RootWanted DEF ScpInit, Enter, Steps, Wanted
<1>2. /\ sender.walk \in Seq(Steps) /\ sender.walk = <<Enter(<<asked.root>>)>> /\ sender.pc = "ack"
      /\ sender.after = "entry"
  BY <1>1 DEF ScpInit
<1>3. ScpTyped
  <2>1. 0 \in 0..MaxScpFailures
    BY ScpAssumption
  <2>2. <<>> \in Seq(Calls)
    OBVIOUS
  <2>3. sender \in [pc : {"ack", "entry", "header", "data", "done", "failed"},
                    after : {"", "entry", "header", "data"}, walk : Seq(Steps)]
    <3>1. PICK w : w = <<Enter(<<asked.root>>)>>
      OBVIOUS
    <3>2. w \in Seq(Steps) /\ sender = [pc |-> "ack", after |-> "entry", walk |-> w]
      BY <1>2, <3>1 DEF ScpInit
    <3> QED BY <3>2
  <2> QED BY <2>1, <2>2, <2>3 DEF ScpInit, ScpTyped
<1>4. DOMAIN landed = {}
  BY DEF ScpInit
<1>5. Landed
  BY <1>4 DEF ScpInit, Landed
<1>6. NotBegun
  BY <1>2, <1>4 DEF ScpInit, NotBegun, Waits
<1>7. Stopped
  BY <1>2 DEF ScpInit, Stopped
<1> QED BY <1>3, <1>5, <1>6, <1>7 DEF ScpInv, Dialogue

LEMMA ScpStutters ==
  ASSUME ScpInv, UNCHANGED scpVars
  PROVE  ScpInv'
<1>1. UNCHANGED <<asked, sender, receiver, lines, acks, cut, landed, timed, scpFailures>>
  BY DEF scpVars
<1>2. /\ \A x, pc : AtTurn(pc, x) => AtTurn(pc, x)'
      /\ \A ahead : Delivered(ahead) => Delivered(ahead)'
      /\ \A l, after, w :
           /\ TimesSent(l, after, w) => TimesSent(l, after, w)'
           /\ FileSent(l, after, w) => FileSent(l, after, w)'
           /\ DataSent(l, after, w) => DataSent(l, after, w)'
           /\ DirectorySent(l, after, w) => DirectorySent(l, after, w)'
           /\ EndSent(l, after, w) => EndSent(l, after, w)'
  BY <1>1, InStepKept
<1>3. ScpTyped' /\ Landed'
  BY <1>1 DEF ScpInv, ScpTyped, Landed, Wanted, Landing
<1>4. PICK a, w, pc : a = sender.after /\ w = sender.walk /\ pc = sender.pc
  OBVIOUS
<1>5. \A l : InFlight(l, a, w) => InFlight(l, a, w)'
  BY <1>1, <1>2 DEF InFlight, ErrorSent
<1>6. Dialogue'
  <2>1. SendersTurn => SendersTurn'
    <3>1. SendersTurn => AtTurn(pc, w)'
      BY <1>2, <1>4 DEF SendersTurn
    <3> QED BY <1>1, <1>4, <3>1 DEF SendersTurn
  <2>2. LineAnswered => LineAnswered'
    <3>1. LineAnswered /\ sender.pc = "ack" => AtTurn(a, w)'
      BY <1>2, <1>4 DEF LineAnswered
    <3> QED BY <1>1, <1>4, <3>1 DEF LineAnswered, Waits
  <2>3. LineSent => LineSent'
    BY <1>1, <1>4, <1>5 DEF LineSent, Waits
  <2>4. (NotBegun => NotBegun') /\ (LineRefused => LineRefused') /\ (Silent => Silent')
    BY <1>1 DEF NotBegun, LineRefused, Silent, Waits
  <2> QED BY <2>1, <2>2, <2>3, <2>4 DEF ScpInv, Dialogue
<1>7. Stopped'
  BY <1>1, <1>2 DEF ScpInv, Stopped, Ended, Top
<1> QED BY <1>3, <1>6, <1>7 DEF ScpInv

LEMMA ScpStep == ScpInv /\ [ScpNext]_scpVars => ScpInv'
<1> SUFFICES ASSUME ScpInv, [ScpNext]_scpVars PROVE ScpInv'
  OBVIOUS
<1>1. CASE ScpSend
  BY <1>1, ReadAckKeeps, SendKeeps DEF ScpSend
<1>2. CASE ScpReceive
  BY <1>2, ReceiveScpKeeps, ReadTimesKeeps, ReadDirectoryKeeps, ReadFileKeeps, ReadDataKeeps, ReadEndKeeps,
     ReadErrorKeeps, EndOfInputKeeps DEF ScpReceive
<1>3. CASE Cut
  BY <1>3, CutKeeps
<1>4. CASE UNCHANGED scpVars
  BY <1>4, ScpStutters
<1> QED BY <1>1, <1>2, <1>3, <1>4 DEF ScpNext

LEMMA ScpFollows == ScpInv => ScpTypeOK /\ ScpFaithful
<1> SUFFICES ASSUME ScpInv PROVE ScpTypeOK /\ ScpFaithful
  OBVIOUS
<1>1. \A i \in 1..Len(lines) : lines[i].node \in Nodes
  <2>1. CASE lines = <<>>
    BY <2>1
  <2>2. CASE lines # <<>>
    <3>1. LineSent
      BY <2>2 DEF ScpInv, Dialogue, NotBegun, SendersTurn, LineAnswered, LineRefused, Silent
    <3>2. PICK l \in [kind : {"T", "C", "data", "D", "E", "error"}, node : Nodes] : lines = <<l>>
      BY <3>1 DEF LineSent
    <3> QED BY <3>2
  <2> QED BY <2>1, <2>2
<1>2. ScpTypeOK
  BY <1>1 DEF ScpInv, ScpTyped, Landed, ScpTypeOK
<1>3. asked.preserve \in BOOLEAN
  BY DEF ScpInv, ScpTyped, Requests
<1>4. ASSUME NEW p \in Wanted, Arrived(p)
      PROVE  /\ Landing(p) \in DOMAIN landed /\ landed[Landing(p)] # "empty"
             /\ ~IsDirectory(p) => landed[Landing(p)] = "whole" /\ (asked.preserve <=> Landing(p) \in timed)
  BY <1>3, <1>4 DEF Arrived, ScpInv, Landed
<1>5. sender.pc \in {"entry", "header", "data"} => Delivered(AheadIn(sender.walk))
  <2> SUFFICES ASSUME sender.pc \in {"entry", "header", "data"} PROVE Delivered(AheadIn(sender.walk))
    OBVIOUS
  <2>1. AtTurn(sender.pc, sender.walk)
    BY TurnIs DEF SendersTurn
  <2> QED BY <2>1 DEF AtTurn, InStep
<1>6. sender.pc = "done" => Delivered({}) /\ Delivered(AheadIn(sender.walk))
  BY DEF ScpInv, Stopped, AheadIn, Delivered
<1>7. receiver.pc = "done" /\ scpFailures = 0 => Delivered({})
  BY DEF ScpInv, Stopped
<1>8. ScpFaithful
  <2>1. \A l \in DOMAIN landed : \E p \in Wanted : l = Landing(p)
    BY DEF ScpInv, Landed
  <2>2. sender.pc \in {"entry", "header", "data", "done"} =>
          \A p \in Wanted \ AheadIn(sender.walk) : ~IsDirectory(p) =>
            /\ Landing(p) \in DOMAIN landed /\ landed[Landing(p)] = "whole"
            /\ asked.preserve <=> Landing(p) \in timed
    <3> SUFFICES ASSUME sender.pc \in {"entry", "header", "data", "done"},
                        NEW p \in Wanted \ AheadIn(sender.walk), ~IsDirectory(p)
                 PROVE  /\ Landing(p) \in DOMAIN landed /\ landed[Landing(p)] = "whole"
                        /\ asked.preserve <=> Landing(p) \in timed
      OBVIOUS
    <3>1. Arrived(p)
      BY <1>5, <1>6 DEF Delivered
    <3> QED BY <1>4, <3>1
  <2>3. sender.pc = "done" \/ (receiver.pc = "done" /\ scpFailures = 0) =>
          \A p \in Wanted : Landing(p) \in DOMAIN landed /\ landed[Landing(p)] # "empty"
    BY <1>4, <1>6, <1>7 DEF Delivered
  <2> QED BY <2>1, <2>2, <2>3 DEF ScpFaithful
<1> QED BY <1>2, <1>8

\* What is asked for, sent, and at the receiver is of the request: no line names what is not in
\* the tree, and only what has landed is given the times of its source (serveSCP).
THEOREM ScpTypes == ScpSpec => []ScpTypeOK
<1>1. ScpInv => ScpTypeOK
  BY ScpFollows
<1> QED BY <1>1, ScpInitially, ScpStep, PTL DEF ScpSpec

\* However the reads of the two ends of a transfer come between each other, and wherever one of
\* them fails or the connection breaks, every file the sender has got past is whole where it
\* belongs, with the times of its source when they are preserved, nothing else has come with it,
\* and an end that succeeds leaves nothing out (sendSCPPath, receiveSCPEntries).
THEOREM ScpAlwaysFaithful == ScpSpec => []ScpFaithful
<1>1. ScpInv => ScpFaithful
  BY ScpFollows
<1> QED BY <1>1, ScpInitially, ScpStep, PTL DEF ScpSpec

-----------------------------------------------------------------------------
(***************************************************************************)
(* The components beside each other (MCPanel).  A step of the whole is a    *)
(* step of the component it belongs to and none of any other, so what holds *)
(* of each component by itself holds of the whole.                          *)
(***************************************************************************)
PanelComponent ==
  component \in {"update", "migrations", "domain", "access", "runtimes", "transfer"}

LEMMA PanelBegins ==
  ASSUME PanelInit
  PROVE  /\ PanelComponent
         /\ SelfUpdateInit /\ MigrationsInit /\ PdInit /\ AccessInit /\ RuntimesInit /\ ScpInit
BY DEF PanelInit, PanelComponent

LEMMA PanelMovesOne ==
  ASSUME [PanelNext]_panelVars
  PROVE  /\ component' = component
         /\ [SelfUpdateNext]_upVars /\ [MigrationsNext]_migrationVars /\ [PdNext]_pdVars
         /\ [AccessNext]_acVars /\ [RuntimesNext]_rtVars /\ [ScpNext]_scpVars
<1>1. CASE UNCHANGED panelVars
  BY <1>1 DEF panelVars
<1>2. CASE UpdatesStep
  BY <1>2 DEF UpdatesStep, UpdateOf
<1>3. CASE MigrationsStep
  BY <1>3 DEF MigrationsStep, MigrationOf
<1>4. CASE TransferStep
  BY <1>4 DEF TransferStep, TransferOf
<1>5. CASE DomainStep
  BY <1>5 DEF DomainStep
<1>6. CASE AccessStep
  BY <1>6 DEF AccessStep
<1>7. CASE RuntimesStep
  BY <1>7 DEF RuntimesStep
<1> QED BY <1>1, <1>2, <1>3, <1>4, <1>5, <1>6, <1>7 DEF PanelNext

\* The specification of the whole implements that of each component, but for its fairness.
LEMMA EachByItself ==
  PanelSpec => /\ []PanelComponent
               /\ SelfUpdateInit /\ [][SelfUpdateNext]_upVars
               /\ MigrationsInit /\ [][MigrationsNext]_migrationVars
               /\ PdInit /\ [][PdNext]_pdVars
               /\ AccessInit /\ [][AccessNext]_acVars
               /\ RuntimesInit /\ [][RuntimesNext]_rtVars
               /\ ScpInit /\ [][ScpNext]_scpVars
<1>1. PanelComponent /\ component' = component => PanelComponent'
  BY DEF PanelComponent
<1>2. PanelInit => PanelComponent
  BY PanelBegins
<1> QED BY <1>1, <1>2, PanelBegins, PanelMovesOne, PTL DEF PanelSpec

\* When a version is used where it is installed, tables, files, host and requests of every
\* part of the panel stay of the types of the code, whatever else overlaps or fails.
THEOREM PanelTyped ==
  ASSUME ~UseAnytime
  PROVE  PanelSpec => []PanelTypeOK
<1>1. SelfUpdateInit /\ [][SelfUpdateNext]_upVars => []SelfUpdateTypeOK
  <2>1. SelfUpdateInit => SelfUpdateTypeOK /\ Aimed
    BY SelfUpdateInitially DEF UpInv
  <2> QED BY <2>1, UpTypedStep, PTL
<1>2. MigrationsInit /\ [][MigrationsNext]_migrationVars => []MigInv
  BY MigrationsBegin, MigrationsKeep, PTL
<1>3. PdInit /\ [][PdNext]_pdVars => []PdInv
  BY PdInitially, PdStep, PTL
<1>4. AccessInit /\ [][AccessNext]_acVars => []AccessTypeOK
  <2>1. AccessInit => AccessTypeOK /\ AskedAbout
    BY AcInitially DEF AccessInit, AcInv, AskedAbout, Idle
  <2> QED BY <2>1, AcTypedStep, PTL
<1>5. RuntimesInit /\ [][RuntimesNext]_rtVars => []RtTypes
  BY RtTypesInitially, RtTypesStep, PTL
<1>6. ScpInit /\ [][ScpNext]_scpVars => []ScpInv
  BY ScpInitially, ScpStep, PTL
<1>7. PanelComponent /\ SelfUpdateTypeOK /\ MigInv /\ PdInv /\ AccessTypeOK /\ RtTypes /\ ScpInv
      => PanelTypeOK
  BY RowsThere, ScpFollows DEF PanelComponent, PdInv, RtTypes, PanelTypeOK
<1> QED BY <1>1, <1>2, <1>3, <1>4, <1>5, <1>6, <1>7, EachByItself, PTL

\* When updaters take turns and the database can be copied, users are changed one request at a
\* time, a version is used where it is installed and not installed again while it is, what each
\* part promises holds of the panel as a whole: its release is whole, every row is kept, it is
\* served, an administrator remains, versions in use work and transfers are faithful.
THEOREM PanelPromises ==
  ASSUME ~UpOverlapping, MaxSnapshotFails = 0, ~AcOverlapping, ~UseAnytime, ~Reinstalls
  PROVE  PanelSpec => [](/\ ReleaseWhole /\ RowsKept /\ PanelServed
                         /\ AdminRemains /\ UsedVersionsWork /\ ScpFaithful)
<1>1. SelfUpdateInit /\ [][SelfUpdateNext]_upVars => []UpInv
  BY SelfUpdateInitially, SelfUpdateStep, PTL
<1>2. MigrationsInit /\ [][MigrationsNext]_migrationVars => []MigInv
  BY MigrationsBegin, MigrationsKeep, PTL
<1>3. PdInit /\ [][PdNext]_pdVars => []PdInv
  BY PdInitially, PdStep, PTL
<1>4. AccessInit /\ [][AccessNext]_acVars => []AcInv
  BY AcInitially, AcStepKeeps, PTL
<1>5. RuntimesInit /\ [][RuntimesNext]_rtVars => []RtInv
  BY RuntimesInitially, RuntimesKeep, PTL
<1>6. ScpInit /\ [][ScpNext]_scpVars => []ScpInv
  BY ScpInitially, ScpStep, PTL
<1>7. UpInv => ReleaseWhole
  BY DEF UpInv, ReleaseWhole, Whole
<1>8. PdInv => PanelServed
  BY DEF PdInv, Progress, Agree, PanelServed
<1>9. AcInv => AdminRemains
  BY DEF AcInv
<1>10. RtInv => UsedVersionsWork
  BY DEF RtInv
<1> QED BY <1>1, <1>2, <1>3, <1>4, <1>5, <1>6, <1>7, <1>8, <1>9, <1>10, RowsThere, ScpFollows,
           EachByItself, PTL
=============================================================================

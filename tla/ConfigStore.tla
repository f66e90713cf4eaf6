----------------------------- MODULE ConfigStore -----------------------------
(***************************************************************************)
(* What the nginx transactions promise their callers: a store of virtual   *)
(* hosts in which a platform's configuration is replaced, together with    *)
(* the older files that mention its domains, in one step or not at all,    *)
(* and a web server that serves the store, or an attempt that failed.      *)
(***************************************************************************)
CONSTANTS Sites, Catchall, Default, Contents, CatchallContent, StockContent,
          Accepted, Overlap, Absent

VARIABLES config,  \* the virtual host enabled for each name, or Absent
          active   \* what nginx serves

vars  == <<config, active>>
Slots == Sites \cup {Catchall, Default}

Acceptable(c) ==
  /\ \A s \in Slots : c[s] \in Accepted \cup {Absent}
  /\ Absent \in {c[Catchall], c[Default]}

\* The store after platform s is written with v, or the catch-all installed.
Installed(s, v) ==
  [t \in Slots |-> IF t = s THEN v
                   ELSE IF t = Catchall THEN CatchallContent
                   ELSE IF <<s, t>> \in Overlap THEN Absent ELSE config[t]]
Rejecting ==
  [config EXCEPT ![Catchall] = CatchallContent,
                 ![Default] = IF @ = StockContent THEN Absent ELSE @]
Attempts == {Rejecting} \cup {Installed(s, v) : s \in Sites, v \in Contents}

Init == /\ config = [s \in Slots |-> IF s = Default THEN StockContent ELSE Absent]
        /\ active = config

\* A transaction that succeeds is served at once.
Commit == /\ config' \in Attempts /\ Acceptable(config')
          /\ active' = config'
\* Delete drops the platform's file; nginx follows at the next reload.
Withdraw == /\ \E s \in Sites : config' = [config EXCEPT ![s] = Absent]
            /\ UNCHANGED active
\* A transaction that fails leaves the store; a reload reported as failed may
\* have been effective, and the rollback's reload undoes it.
Leak   == active' \in {c \in Attempts : Acceptable(c)} /\ UNCHANGED config
Revert == active' = config /\ UNCHANGED config

Next == Commit \/ Withdraw \/ Leak \/ Revert
Spec == Init /\ [][Next]_vars
=============================================================================

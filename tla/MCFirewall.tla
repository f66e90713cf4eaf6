----------------------------- MODULE MCFirewall -----------------------------
(* Small instances of Firewall for TLC. *)
EXTENDS Firewall, TLC
CONSTANTS r1, r2

Ssh == [name |-> "ssh", proto |-> "tcp", port |-> "ssh", source |-> "0.0.0.0/0",
        action |-> "allow", enabled |-> TRUE]
Web == [Ssh EXCEPT !.name = "web", !.port = "web"]

\* SSH for everyone, its widened, narrowed, renamed and disabled forms, a rule that would
\* close it, and a rule for the web.
MCRules == {Ssh, [Ssh EXCEPT !.proto = "any"], [Ssh EXCEPT !.source = "here"],
            [Ssh EXCEPT !.name = "web"], [Ssh EXCEPT !.enabled = FALSE],
            [Ssh EXCEPT !.action = "deny"], Web}
FewRules == {[Ssh EXCEPT !.proto = "any"],
             [Ssh EXCEPT !.proto = "any", !.enabled = FALSE], Web}

\* What scripts/linux/install.sh opens (on ufw what "ufw allow 22" opens, whose listing has
\* the suffix of IPv6 in the port), and a service that firewalld opens by itself.
Opened(tag) == [tag |-> tag, proto |-> "tcp", port |-> "ssh", source |-> "0.0.0.0/0",
                action |-> "allow"]
MCNatives ==
  [b \in Backends |->
     CASE b = "ufw"       -> {[Opened("") EXCEPT !.proto = "any"]}
       [] b = "firewalld" -> {Opened("native"),
                              [Opened("native") EXCEPT !.proto = "service", !.port = "other"]}
       [] b = "iptables"  -> {Opened("native")}]
ASSUME MCNativesListed == NativesListed
RequestSymmetry == Permutations(Requests)
=============================================================================

\* Operators take turns on each kind of firewall; calls, commands and the panel may fail.
SPECIFICATION Spec
CONSTANTS
  r1 = r1
  r2 = r2
  Backends = {"ufw", "firewalld", "iptables"}
  Rules <- MCRules
  Natives <- MCNatives
  Requests = {r1}
  MaxRules = 2
  MaxCopies = 2
  Overlapping = FALSE
  MaxFailures = 1
  None = None
INVARIANTS TypeOK RowsMatchHost
PROPERTIES SshKept ReconcileRestores

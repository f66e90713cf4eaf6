\* Operators take turns on a host with ufw, and nothing fails.
SPECIFICATION Spec
CONSTANTS
  r1 = r1
  r2 = r2
  Backends = {"ufw"}
  Rules <- FewRules
  Natives <- MCNatives
  Requests = {r1}
  MaxRules = 3
  MaxCopies = 2
  Overlapping = FALSE
  MaxFailures = 0
  None = None
PROPERTIES SshNeverLost

\* Operators take turns; calls, commands and the panel itself may fail.
SPECIFICATION Spec
CONSTANTS
  shop = shop
  blog = blog
  ann = ann
  bob = bob
  r1 = r1
  r2 = r2
  Domains = {shop, blog}
  NameOf <- OwnNames
  Usernames = {ann, bob}
  Requests = {r1}
  MaxSites = 2
  MaxUsers = 3
  Overlapping = FALSE
  MaxFaults = 1
  MaxCrashes = 1
  None = None
SYMMETRY Symmetry
INVARIANTS TypeOK DomainsOwned VhostsMatchRows AccountsMatchUsers
PROPERTIES DeletesComplete SoundChangesSucceed

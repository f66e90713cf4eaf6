\* Operators take turns and nothing fails.
SPECIFICATION Spec
CONSTANTS
  shop = shop
  blog = blog
  ann = ann
  bob = bob
  r1 = r1
  r2 = r2
  Domains = {shop, blog}
  NameOf <- OwnNames
  Usernames = {ann, bob}
  Requests = {r1}
  MaxSites = 2
  MaxUsers = 3
  Overlapping = FALSE
  MaxFaults = 0
  MaxCrashes = 0
  None = None
SYMMETRY Symmetry
PROPERTIES FilesKept

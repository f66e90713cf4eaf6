\* Operators take turns on what belongs to the platforms; calls and commands may fail.
SPECIFICATION SitesSpec
CONSTANTS
  t1 = t1
  t2 = t2
  v1 = v1
  v2 = v2
  DbNames = {n1, n2}
  DbUsers = {u1, u2}
  DbPasswords = {p1, p2}
  DbSites = {s1}
  DbForeign = {}
  DbAccess = {"mariadb", "dsn", "cli"}
  DbRequests = {r1}
  MaxDbRows = 2
  DbOverlapping = FALSE
  MaxDbFailures = 1
  NoDb = NoDb
  AppSites = {t1, t2}
  AppServices = {v1, v2}
  AppPorts = {1, 2}
  BindHosts = {"loop", "any"}
  Asked <- Forms
  Settings <- RuntimeSettings
  Wildcards = {"any"}
  ForeignPorts = {}
  AppRequests = {r1}
  AppOverlapping = FALSE
  MaxAppFailures = 1
  NoApp = NoApp
  NoPort = 0
  ToolVersions = {1, 2}
  MaxToolChanges = 3
  MaxToolFailures = 2
  Branches = {main, dev}
  DpRequests = {r1}
  DpOverlapping = FALSE
  MaxPushes = 1
  MaxDpFailures = 1
  NoDp = NoDp
  BkFiles = {1, 2}
  BkLinks = {}
  BkDerived = {2}
  BkStores = {1, 2}
  MaxBackups = 3
  BkSameSecond = FALSE
  MaxEdits = 1
  MaxBkFailures = 1
  NoBk = NoBk
  CertDomains = {1, 2, 3}
  DomainSite <- SitesOfDomains
  IssueModes = {"certbot", "none", "dryrun"}
  MaxCerts = 2
  MaxPairs = 2
  MaxCertFailures = 1
  Checkers = {c1}
  AlOverlapping = FALSE
  MaxChecks = 3
  MaxHealthChanges = 2
  MaxAlertFailures = 1
  Names = {1, 2, 3, 4}
  DirNames = {1, 3}
  LeafNames = {2}
  HomeDirs = {1}
  HomeFiles <- LogFiles
  Numbered <- NumberedNames
  Unpacked <- UnpackedNames
  Clients = {c1}
  FmOverlapping = FALSE
  MaxData = 2
  MaxFmSteps = 4
  MaxFmFailures = 1
INVARIANTS SitesTypeOK DatabasesKept AppsKept ToolsFit DeployedIsServed CertsServed AlertsAgree
PROPERTIES RestoreBrings ImplementsEarlierStates PathsKept
CHECK_DEADLOCK FALSE

----------------------------- MODULE Migrations -----------------------------
(***************************************************************************)
(* The start of the panel on the tables of an older version (migrate in     *)
(* src/internal/bootstrap/database.go): applications and websites, once     *)
(* tables of their own, become rows of the one table of platforms.  Every   *)
(* statement is a transaction of its own but for the three merges, and a    *)
(* start that fails or dies is made again from its first statement.         *)
(***************************************************************************)
EXTENDS Integers, FiniteSets

CONSTANTS
  LegacySites,     \* the ids of the websites there were
  LegacyApps,      \* the ids of the applications there were
  NewSites,        \* ids of platforms made since, on a host that went back and forth
  NoTable,
  MaxStarts        \* bound on the starts that die, and on later restarts

Largest(s) == CHOOSE n \in s : \A m \in s : m <= n
\* Ids of applications and of websites were given apart.
AllIds == 1..(Largest(LegacySites \cup LegacyApps \cup NewSites) + Cardinality(LegacyApps))

ASSUME MigrationsAssumption ==
  /\ LegacySites \subseteq Nat \ {0} /\ IsFiniteSet(LegacySites)
  /\ LegacyApps \subseteq Nat \ {0} /\ IsFiniteSet(LegacyApps)
  /\ NewSites \subseteq Nat \ {0} /\ IsFiniteSet(NewSites)
  /\ LegacyApps \cup LegacySites # {}
  /\ MaxStarts \in Nat /\ \A rows \in SUBSET AllIds : NoTable # rows

VARIABLES
  goApps, apps,          \* the tables of applications, by id, or NoTable
  websites, platforms,   \* the tables of websites and platforms, by id, or NoTable
  linked,    \* by application, the website it was linked to, or 0
  bound,     \* by application, what app_env_vars, and the databases, say of its rows
  target,    \* by application, the platform it was merged into, 0 before
  held,      \* by platform, the application its columns describe, or 0
  strangers, \* the platforms that are not the website of their id
  columns,   \* of the table of platforms: "old" or "all"
  limits,    \* the upload limits of the platforms: "default" or "of nginx"
  secrets,   \* by table of secrets: "plain" or "encrypted"
  workdir,   \* the directory of a linked runtime: "in root_path" or "apart"
  start, starts

migrationVars == <<goApps, apps, websites, platforms, linked, bound, target, held, strangers,
                   columns, limits, secrets, workdir, start, starts>>

Tables == <<goApps, apps, websites, platforms>>
SecretTables == {"basic_auths", "ftp_users"}
StartSteps == {"go_apps", "drop_go_apps", "websites", "merge_websites", "drop_websites", "schema",
               "columns", "limits", "basic_auths", "ftp_users", "workdirs", "apps", "up"}
HasTable(t) == t # NoTable
Goes(step) == start' = step /\ UNCHANGED starts
AppRowsUntouched == UNCHANGED <<linked, bound, target, held, strangers>>
RowsUntouched == AppRowsUntouched /\ UNCHANGED <<columns, limits, secrets, workdir>>

-----------------------------------------------------------------------------
RenameGoApps ==
  /\ start = "go_apps" /\ Goes("drop_go_apps")
  /\ IF HasTable(goApps) /\ ~HasTable(apps)
     THEN apps' = goApps /\ goApps' = NoTable
     ELSE UNCHANGED <<goApps, apps>>
  /\ UNCHANGED <<websites, platforms>> /\ RowsUntouched

\* Whatever rows it has.
DropGoApps ==
  /\ start = "drop_go_apps" /\ Goes("websites")
  /\ goApps' = IF HasTable(apps) THEN NoTable ELSE goApps
  /\ UNCHANGED <<apps, websites, platforms>> /\ RowsUntouched

\* A mutant: the rows of the old table are not counted.
RenamedOrDropped ==
  /\ start = "websites"
  /\ IF HasTable(websites) /\ ~HasTable(platforms)
     THEN platforms' = websites /\ websites' = NoTable /\ Goes("schema")
     ELSE UNCHANGED platforms /\ websites' = NoTable /\ Goes("schema")
  /\ UNCHANGED <<goApps, apps>> /\ RowsUntouched

\* The table of one is renamed when the other has no rows, and rows of both are merged.
RenameWebsites ==
  /\ start = "websites"
  /\ CASE ~HasTable(websites) -> UNCHANGED <<websites, platforms>> /\ Goes("schema")
       [] HasTable(websites) /\ ~HasTable(platforms) ->
            platforms' = websites /\ websites' = NoTable /\ Goes("schema")
       [] HasTable(websites) /\ platforms = {} /\ websites # {} ->
            \* two statements: the empty table goes first
            platforms' = NoTable /\ UNCHANGED <<websites, start, starts>>
       [] HasTable(websites) /\ HasTable(platforms) /\ websites = {} ->
            UNCHANGED platforms /\ websites' = NoTable /\ Goes("schema")
       [] OTHER -> UNCHANGED <<websites, platforms>> /\ Goes("merge_websites")
  /\ UNCHANGED <<goApps, apps>> /\ RowsUntouched

\* A row whose id a platform has is skipped: the platform is not that website (strangers).
MergeLegacyWebsites ==
  /\ start = "merge_websites" /\ Goes("drop_websites")
  /\ platforms' = platforms \cup websites
  /\ UNCHANGED <<goApps, apps, websites>> /\ RowsUntouched

\* A mutant: the old table stays.
WebsitesStay ==
  /\ start = "drop_websites" /\ Goes("schema")
  /\ UNCHANGED Tables /\ RowsUntouched

DropWebsites ==
  /\ start = "drop_websites" /\ Goes("schema")
  /\ websites' = NoTable
  /\ UNCHANGED <<goApps, apps, platforms>> /\ RowsUntouched

\* Tables and columns that are missing are made.
AutoMigrate ==
  /\ start = "schema" /\ Goes("columns")
  /\ platforms' = (IF HasTable(platforms) THEN platforms ELSE {}) /\ columns' = "all"
  /\ AppRowsUntouched /\ UNCHANGED <<goApps, apps, websites, limits, secrets, workdir>>

\* The columns of platforms once more, by name.
ReconcilePlatformColumns ==
  /\ start = "columns" /\ Goes("limits") /\ columns' = "all"
  /\ UNCHANGED Tables /\ AppRowsUntouched /\ UNCHANGED <<limits, secrets, workdir>>

\* The column of limits, new in a table that had none, takes what the files of nginx say.
SyncUploadLimits ==
  /\ start = "limits" /\ columns = "all" /\ Goes("basic_auths") /\ limits' = "of nginx"
  /\ UNCHANGED Tables /\ AppRowsUntouched /\ UNCHANGED <<columns, secrets, workdir>>

\* The secrets of a table are encrypted together, and their plain text emptied.
MigrateLegacySecrets(t) ==
  /\ start = t /\ Goes(IF t = "basic_auths" THEN "ftp_users" ELSE "workdirs")
  /\ secrets' = [secrets EXCEPT ![t] = "encrypted"]
  /\ UNCHANGED Tables /\ AppRowsUntouched /\ UNCHANGED <<columns, limits, workdir>>

RepairWorkingDirectories ==
  /\ start = "workdirs" /\ Goes("apps")
  /\ workdir' = "apart"
  /\ UNCHANGED Tables /\ AppRowsUntouched /\ UNCHANGED <<columns, limits, secrets>>

\* An application goes into the platform it is linked to, if there is one, or into a new one.
Merged(rows) ==
  LET fresh == {a \in rows : linked[a] \notin platforms}
      base  == Largest(platforms \cup {0})
      place == [a \in fresh |-> base + Cardinality({b \in fresh : b <= a})]
  IN  [a \in LegacyApps |-> IF a \notin rows THEN target[a]
                            ELSE IF a \in fresh THEN place[a] ELSE linked[a]]

\* The rows bound to each old id are bound to the new one, one id after the other, in the
\* order a Go map is walked, which is any order.
Orders(rows) ==
  {o \in [1..Cardinality(rows) -> rows] : \A i, j \in 1..Cardinality(rows) : o[i] = o[j] => i = j}
Rebound(order, into) ==
  LET after[i \in 0..Cardinality(DOMAIN order)] ==
        IF i = 0 THEN bound
        ELSE [a \in LegacyApps |-> IF after[i - 1][a] = order[i] THEN into[order[i]]
                                   ELSE after[i - 1][a]]
  IN  after[Cardinality(DOMAIN order)]

\* One that is linked to the same website as others writes its columns over theirs; rows come
\* by id.
Describes(rows, into) ==
  [p \in AllIds |-> IF \E a \in rows : into[a] = p THEN Largest({a \in rows : into[a] = p})
                    ELSE held[p]]

MergeLegacyApps ==
  /\ start = "apps" /\ Goes("up")
  /\ IF HasTable(apps)
     THEN LET into == Merged(apps) IN
          /\ platforms' = platforms \cup {into[a] : a \in apps}
          /\ target' = into /\ held' = Describes(apps, into)
          /\ \E order \in Orders(apps) : bound' = Rebound(order, into)
          /\ apps' = NoTable
     ELSE UNCHANGED <<platforms, target, held, bound, apps>>
  /\ UNCHANGED <<goApps, websites, linked, strangers, columns, limits, secrets, workdir>>

\* A start that fails or dies, and a panel that is restarted.
StartAgain ==
  /\ starts < MaxStarts /\ starts' = starts + 1
  /\ start' = "go_apps"
  /\ UNCHANGED Tables /\ RowsUntouched

-----------------------------------------------------------------------------
MigrationsInit ==
  /\ \/ goApps = LegacyApps /\ apps = NoTable
     \/ goApps = NoTable /\ apps = LegacyApps
  /\ \/ websites = LegacySites /\ platforms \in {NoTable, {}} /\ strangers = {}
     \/ websites = LegacySites /\ platforms = NewSites /\ strangers = NewSites
     \/ websites \in {NoTable, {}} /\ platforms = LegacySites /\ strangers = {}
  /\ linked \in [LegacyApps -> LegacySites \cup {0}]
  /\ bound = [a \in LegacyApps |-> a] /\ target = [a \in LegacyApps |-> 0]
  /\ held = [p \in AllIds |-> 0]
  /\ columns = "old" /\ limits = "default"
  /\ secrets = [t \in SecretTables |-> "plain"] /\ workdir = "in root_path"
  /\ start = "go_apps" /\ starts = 0
Migrate ==
  \/ RenameGoApps \/ DropGoApps \/ RenameWebsites \/ MergeLegacyWebsites \/ DropWebsites
  \/ AutoMigrate \/ ReconcilePlatformColumns \/ SyncUploadLimits \/ RepairWorkingDirectories
  \/ MergeLegacyApps
  \/ \E t \in SecretTables : MigrateLegacySecrets(t)
MigrationsNext == Migrate \/ StartAgain

\* The service manager starts the panel until it is up.
MigrationsFairness == WF_migrationVars(Migrate)
MigrationsSpec == MigrationsInit /\ [][MigrationsNext]_migrationVars /\ MigrationsFairness

-----------------------------------------------------------------------------
TablesOf(id) == (SUBSET id) \cup {NoTable}
MigrationsTypeOK ==
  /\ goApps \in TablesOf(LegacyApps) /\ apps \in TablesOf(LegacyApps)
  /\ websites \in TablesOf(AllIds) /\ platforms \in TablesOf(AllIds)
  /\ linked \in [LegacyApps -> LegacySites \cup {0}]
  /\ bound \in [LegacyApps -> AllIds] /\ target \in [LegacyApps -> AllIds \cup {0}]
  /\ held \in [AllIds -> LegacyApps \cup {0}] /\ strangers \subseteq AllIds
  /\ columns \in {"old", "all"} /\ limits \in {"default", "of nginx"}
  /\ secrets \in [SecretTables -> {"plain", "encrypted"}]
  /\ workdir \in {"in root_path", "apart"} /\ start \in StartSteps /\ starts \in 0..MaxStarts

RowsIn(t) == IF HasTable(t) THEN t ELSE {}
\* Is the platform of one application the old id of another?
Chained == \E a, b \in LegacyApps : a # b /\ target[a] = b

\* Are two applications linked to one website?
SameSite(a, b) == a # b /\ linked[a] = linked[b] /\ linked[a] # 0

\* Wherever a start stops, every website of the old tables is in a table, but one whose id a
\* platform made since has, which is skipped and goes with its table; the platforms made since
\* stay.  Every application is in a table or, merged, in a platform that only those linked to
\* the same website share, and that describes it if there are none; its variables are still
\* bound to it, if no new id is an old one.
RowsKept ==
  /\ LegacySites \ strangers \subseteq RowsIn(websites) \cup RowsIn(platforms)
  /\ strangers \subseteq RowsIn(platforms)
  /\ \A a \in LegacyApps :
       IF target[a] = 0 THEN a \in RowsIn(goApps) \cup RowsIn(apps) /\ bound[a] = a
       ELSE /\ target[a] \in RowsIn(platforms) /\ (Chained \/ bound[a] = target[a])
            /\ held[target[a]] = a \/ \E b \in LegacyApps : SameSite(a, b)
  /\ \A a, b \in LegacyApps :
       target[a] # 0 /\ target[a] = target[b] => a = b \/ SameSite(a, b)

\* The panel comes up with the old tables gone, every column there and no secret in plain text.
MigrationsSettle ==
  <>[](/\ start = "up" /\ ~HasTable(goApps) /\ ~HasTable(apps) /\ ~HasTable(websites)
       /\ columns = "all" /\ limits = "of nginx" /\ \A t \in SecretTables : secrets[t] = "encrypted")

\* Environment variables and databases follow their application.
BindingsFollow == \A a \in LegacyApps : target[a] # 0 => bound[a] = target[a]
=============================================================================

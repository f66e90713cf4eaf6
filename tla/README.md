# A verification project for DeployCP

DeployCP is a hosting panel: one Go binary that keeps *platforms* (sites), users, firewall
rules, databases and so on as rows of an SQLite file, and the host as those rows say it should
be. Concurrent Fiber handlers and command-line runs of the same binary (`deploycp deploy`,
`reconcile-managed`, `bootstrap-host`, ...), in processes of their own, call the services of
`src/internal/services`, which call GORM repositories and, through the adapters of
`src/internal/platform`, commands of the host (`useradd`, `nginx -t`, `ufw`, `systemctl`), each
under a timeout and each able to fail or to take effect and be reported as failed.

What makes such a program hard is the same everywhere in it. An operation is a sequence of
database calls and host commands; nothing spans them: no lock, no transaction beyond one
repository call. A step in the middle fails, the undo of the earlier ones fails too or ignores
an error, the panel is killed, two requests interleave, a row read earlier is saved whole. This
project models the operations step by step, lets any step fail, and asks what is left. The
answers come in two kinds, because the code has no locks: what holds when operators *take turns*
(checked and, for every value of the constants, proved), and what two requests at once can do
(counterexamples, listed as findings).

Contents: [inventory](#inventory-of-the-system) · [modules](#modules-and-the-code-they-model) ·
[runs](#runs) · [bounds and fairness](#bounds-and-fairness) · [proofs](#what-is-proved) ·
[findings](#findings) · [limits](#what-is-not-modelled) · [plan](#plan)

## Inventory of the system

| component | state | operations | what must be right | here |
|---|---|---|---|---|
| nginx configuration (`website_service.go`) | `sites-available`, `sites-enabled`, what nginx has loaded | write, disable, remove a virtual host; sweep dangling links; catch-all; `nginx -t`, reload, rollback | the enabled tree is always one nginx accepts; success means served; one site's bad file never stops another's change | `NginxTransaction`, `ConfigStore` |
| platforms and site users (`website_service.go`, `site_user_service.go`, `website_handler.go`) | `platforms`, `website_domains`, `site_users`; accounts, homes, virtual hosts | create, update, delete; add, delete, disable a user; reset a password | a domain has one owner; rows, accounts, trees and virtual hosts agree; a deletion leaves nothing and can always be completed; a disabled user stays locked | `Platforms` |
| host firewall (`firewall_service.go`, `settings_handler.go`) | rules of the panel; ufw, firewalld (permanent and loaded) or iptables | create, update, delete, import, re-apply | active rules are enforced, nothing else of the panel is; SSH stays open to the operator | `Firewall` |
| Redis (`database_service.go`, `service_service.go`) | connections, `managed_services`; configuration, unit, boot entry, process | create, change password, delete, reconcile; actions of the services page | each row has its instance and the reverse; numbers and ports unique; the password shown opens it | `RedisInstances` |
| MariaDB and PostgreSQL (`database_service.go`) | connections; databases, users and grants of the server | create, change password, delete, alone and with a platform | as above; a deletion leaves no user who could read the next database of that name | `Databases` |
| applications (`app_service.go`) | runtime of a platform's row, unit, boot entry, sudo rules, services row, port, proxy; virtual environment, pm2 | create, build, start, stop, change settings, reconcile, delete | one binding each; rules, unit and proxy are those of the row; tools are of the version selected | `Apps`, `AppTools` |
| platform operations (`platform_ops_service.go`) | deployments and working trees; backups and archives; health checks and alerts | deploy, save its configuration; back up, restore; check | success means the commit checked out is what was built and runs; a restore brings the backup back; alerts agree with the last check | `Deploys`, `Backups`, `EarlierStates`, `Alerts` |
| self-update (`update_service.go`, `self-update.sh`, `update.sh`) | a status file, a lock, the installed release, its database | check, start, poll; the steps of the script and its rollback | one whole release afterwards; an update never blocks the next one for ever | `SelfUpdate` |
| runtime versions (`runtime_service.go`, `settings_service.go`, `settings_handler.go`) | installed trees, packages, wrappers, alternatives, PHP units | install, remove, make default, import | a version in use is neither removed nor replaced | `Runtimes` |
| panel domain (`panel_domain_service.go`) | setting, base URL, nginx file and link, certificate | set, clear | all of one domain, or as before | `PanelDomain` |
| certificates (`ssl_service.go`) | rows, pairs of files, what nginx is told to load | issue, import, self-sign, renew, delete | nginx can load what its configuration names | `Certificates` |
| authentication and panel users (`auth_service.go`, `panel_user_service.go`, `middleware`) | users, sessions, granted platforms | set up, log in, create, change, delete, profile | an active admin remains | `Access` |
| transfer shell (`restrictedtransfer`) | the two ends of an SCP transfer | send, receive, break off | what has been sent is whole where it belongs; nobody waits for ever | `ScpTransfer` |
| file manager (`elfinder_handler.go`) | the tree of a platform | make, write, rename, remove, archive, extract, paste | nothing is replaced that was not asked for | `FileManager` |
| panel database (`bootstrap/database.go`) | old tables, new tables, bindings, secrets | the migrations of a start | every row is kept, wherever a start stops | `Migrations` |
| FTP, cron, varnish | one row and one account or file each | create, change, delete | as for site users | failing steps of a deletion stand for them |
| dashboard, audit, views, middleware | samples in memory, an append-only log | request-local | - | not modelled |
| installation scripts | the host before the panel | run once | - | the SSH entry of `install.sh` is in `Firewall`'s initial state |

How they meet. A handler of `website_handler.go` calls the site users, then the platforms, which
call the nginx code; the deletion of a platform calls every other service in turn.
`ReconcileService.Run` re-applies users, applications, FTP, Redis, firewall, cron and varnish
from the rows and stops at the first error. `ServiceService` starts and stops the units the
others installed. All share the SQLite file, the two nginx directories and systemd; the only
mutexes of the program guard caches and a rate limiter (`dashboard_service.go:75`,
`update_service.go:34`, `handlers/common.go:23`, `bootstrap/app.go:75`,
`restrictedtransfer/transfer.go:67`).

The hazards this gives, each at its line and with the properties that watch it, are listed in
`PROJECT.json`; the two that no property covers say why.

## Modules and the code they model

Every module has one action per operation or step of it, a request being a handler or a command
in flight with a program counter and what it holds in memory. `Fault` is a call or command that
fails, and where a command can take effect and still be reported as failed both outcomes are
there. `Overlapping` (or `DbOverlapping` and the like) says whether requests may be in flight
together. Variables called `scarred`, `behind`, `torn`, `cutShort` and the like are history:
they name what a failure or a crash left half-way, so that a property can say *unless a failure
cut it short* of exactly those things. Some definitions named *Mutant* in a comment are changed
forms of the one below them, kept to show that a property depends on it.

**NginxTransaction** is `applyNginxTransaction` and what runs inside it: the snapshots
(`Capture`), the mutation (`RemoveStale`, `DisableStockDefault`, `WriteConfig`, `Unlink`,
`Link`), `Validate`, `Reload`, and the rollback in its two forms, path by path (`RestoreRemove`,
`Recreate`, `Undone`, then `Revalidate` and `Rereload`). Around it are the sweeps of dangling
links, `DisableConfig` and `RemoveConfig` of a deletion, and `Crash`. A path of the two
directories holds a file, a link or nothing; a virtual host is good or one nginx refuses.
`Overlap` says which files mention a platform's domains under another name. The scan for those
is one step, and panel restarts of nginx are left out.

**ConfigStore** is what callers rely on: a store changed in one step or not at all, and a server
that follows it. `NginxTransaction!ImplementsConfigStore` maps the store to *what the snapshots
would give back* while a transaction is staged, and to the disk otherwise.

**Platforms** has the rows with their domains, the site users, the accounts (home, locked), the
directory trees and the virtual hosts (the domains each answers for). A creation goes through
`CheckName`, `MakeAccount`, `SaveUser` (the handler's site user first), `CheckDomains`,
`Insert`, `Fetch`, `Load`, `Home`, `SaveOwner`, `Share`, `Vhost`, and back through
`UndoAccount`, `DropRow`, `DropTree`, `FindUser`, `DeleteAccount`, `DeleteUserRow` when a step
fails. A deletion goes user by user (`ScopedUser`, `ScopedUserRow`), then `Unserve`,
`RemoveTree`, `DeleteRow`. `SetPassword`, `Relock`, `Lock`, `Stamp` are the password reset and
the disabling. Writing a virtual host is one step; NginxTransaction has its detail. Deleting an
account takes its home with it, since `userdel -rf` does.

**Firewall** has the rules of the table, `host` (what is configured) and `loaded` (what is in
force; they differ on firewalld until a reload) as bags of entries, and the plan of commands a
change issues: `Replaced`, `Applied`, `Deleted`. The guards (`AllowsSsh`, `DeniesSsh`,
`MayReplace`, `MayDelete`) judge a rule as written, `EntryOf` renders it for each backend.
Import (`HostStatus`, `Missing`, `ImportOne`) and reconciliation (`NextRule`) are requests of
their own. `Inserted` is what gorm makes of an insertion: `Enabled` has `default:true`, so a
rule added as inactive is stored as active with nothing done for it (`adrift` names its row
until something is), and only `BeginUpdate` makes an inactive one. ufw lists an entry for any
protocol with the port `22 (v6)` in its IPv6 line (`PortListed`): the rule imported from it has
a port that no command accepts.

**RedisInstances** has the rows, and for each the configuration, unit, boot entry, entry of the
services page, whether systemd holds it active, and the configuration its process has *read*: a
start of an active unit reads nothing, and a process listens some time after `systemctl start`
returned. `WriteConf`, `InstallUnit`, `EnableUnit`, `StartUnit` are `provisionManagedRedis`;
`StopUnit` to `RemoveTree` are `deprovisionManagedRedis`, whose first errors are ignored. A port
is chosen by what listens (`Busy`), a number by the table (`NumberFor`). The unit restarts its
process (`Die`, `Bind`), and a `Reboot` starts what is enabled.

### What belongs to the platforms

**Databases** is `CreateDatabase`, `UpdateDatabasePassword` and `dropManagedDatabase`, statement
by statement, on a server of MariaDB, or of PostgreSQL over TCP (`"dsn"`) or through `runuser`
(`"cli"`), where the statements, the errors that are ignored and what one command does at once
differ. The table is asked for the user's name first; the database's is compared with nothing.
`DbForeign` are databases the server had before.

**Apps** has the runtime of each platform's row and what it makes on the host: the unit with its
port, the process, the boot entry, the sudo rules of the users, the row of the services page,
the proxy of the virtual host. Creation, settings, reconciliation and removal go through the
steps of `installService` and `deleteLinkedAppRuntime`. A process gets its port from the row
when there is no `PORT` in its environment, or, under gunicorn and uwsgi, as an argument in any
case (`argued`, `PortOf`). **AppTools** is what `preparePythonRuntime` and `prepareNodeRuntime`
keep from one installation to the next: a tree, and a marker of the version it was made with.

**Deploys** is `SaveDeployConfig` and `Deploy`: clone or fetch, checkout, reset, build, restart,
result, with pushes and users' changes in between; the first configuration saved always
restarts, since gorm puts the default in. **Backups** is `CreateBackup` and `RestoreBackup` with
the archive written file by file while the platform works. **EarlierStates** is what the two
promise an operator: a platform with the states it was in earlier, each kept in one step, never
changed, and brought back part by part after the present one is kept.
`Backups!ImplementsEarlierStates` maps them to the archives of completed rows, and what is being
brought back to the restore in hand. At the end of a restore, `RepairPlatform` writes
environment files, the virtual environment and Node's tools anew inside the tree that was just
restored (`RemakeDerived`, for the files of `BkDerived`): these are of the platform's rows and
not of the archive, and `EarlierStates` has them remade before its restore ends. **Alerts** is
`CheckHealth`: what a check reads, its row, and the alerts it opens, sends or resolves; a
certificate whose expiry cannot be told is as bad as one that expires.

**Certificates** has rows and pairs of files, and by domain the pair that the enabled
configuration names; certbot, its absence and a dry run are hosts of their own. A list of
certificates that cannot be read counts as empty: `WriteConfig` then leaves TLS out of the
configuration, with success, and `UpsertIssuedCert` makes a second row for the pair (`Twins`).
`behind` are the platforms whose configuration was last written so, or not at all, since their
rows changed. **FileManager** has a tree of two levels and the commands that change it, as the
platform's user or as the panel; a paste goes one source after the other. A step that fails
leaves what the code can leave: a file cut short, part of a directory copied (`PlacedPart`) or
removed, and a copy, move or write that is done and reported as failed, because the `chown` came
after it. A file put into an archive is named as seen from the first one: beside it, below it
(`dir/file`), or above it (`../file`, which makes the archive impossible to extract).

### What DeployCP does for itself

**SelfUpdate** is the status file as `StartInstall` and `readJobState` treat it, the launch
through systemd, `update.sh` step by step with `finish_update`, a second updater run by hand,
and updaters that are killed. **Migrations** is `migrate`: renaming, the three merges, the
columns, the limits, the secrets, and a start that dies anywhere and begins again. A host that
went back to an old release and forward again has platforms made in between (`NewSites`): a
website whose id one of them has is skipped, and lost with its table (`strangers`). `held` is
which application describes a platform: of two linked to one website, the one merged later.

**PanelDomain** is `UpdateGeneral` with `Configure`: a plain configuration, the challenge,
certbot, the one with TLS, then base URL and setting. The setting read first counts as empty
when it cannot be read, so that a request may store or clear the setting and do nothing else;
the general settings route writes it alone (`UpdateSetting`); and `Restore`, whose errors are
all ignored, may stop at any of its steps. `unclean` says that one of these happened, or that a
step the code does not undo failed, since the last configuration that came to its end.
**Access** has the rows of the users, the sessions, and handlers that trust the row the
middleware read; a new user is active and `is_admin` whatever the form asked for (`Inserted`),
but has the role it asked. **Runtimes** has the versions of one scripted runtime and of PHP
through `runtime-manager.sh`, apt, units and wrappers. **ScpTransfer** has both ends of the
protocol and the lines between them, over a connection that may break.

### Composition

`MCSites` holds the eight modules of the first group side by side and `MCPanel` the six of the
second. They share no state, so each behaviour is of one component, named by the variable
`component`, and the others stay at an initial state: the run explores the union of the
components and not their product. That each composition implements the specification of each of
its components is proved (`SitesImplementEach`). Where platforms, users, nginx and systemd units
meet, they meet inside one module.

Modules that end in `Proofs` hold theorems; the other ones whose name begins with `MC` give the
constants small values for TLC.

## Runs

State counts are of distinct states.

| run | what it asks | result |
|---|---|---|
| `nginx_serial` | in turns, with failing commands, failing rollback steps and a crash: is every refused file on disk accounted for, are live links kept, does success mean served, do good writes succeed | holds |
| `nginx_refines` | in turns, with failing commands: is a transaction atomic (implements ConfigStore), and is a broken staged tree always mended | holds |
| `nginx_overlap` | two requests, nothing failing: is the tree valid at rest | violated |
| `platforms_serial` | in turns, with a failure and a crash: do rows, domains, accounts, trees and virtual hosts agree; do deletions leave nothing and never get stuck; do sound changes succeed | holds, 2.3 million |
| `platforms_files` | in turns, nothing failing: are a platform's files removed only with it | violated |
| `firewall_turns` | in turns, three backends, one failure or crash: do rows and host agree, is SSH kept, does a reconciliation restore | holds |
| `firewall_lockout` | in turns, nothing failing: does a change of a rule ever close SSH | violated |
| `redis_turns` | in turns, two failures, crashes or reboots: do instances match rows, are numbers distinct, does a reconciliation restore | holds, 2.9 million |
| `sites_turns` | in turns, with failures: do databases, applications and their tools, deployments, backups, certificates, alerts and files agree with their rows; do backups and restores implement EarlierStates | holds, 1.1 million |
| `panel_parts` | with failures and kills: is the panel of one release, are the old rows kept that are not skipped, is its domain served, does an admin remain, are used versions there, are transfers faithful; and do updates, starts and transfers end | holds, 0.2 million |
| `update_rollback` | one update, the copy of the database failing: is the panel whole afterwards | violated |
| `migration_bindings` | one start, nothing failing: do variables follow their application | violated |

Each property of a run that holds is broken by a mutant of the code's definitions, for instance
a rollback that stops before its last path (`RestoredTooSoon`), a domain check that looks at the
first domain only (`ClashFirst`), a rule removed before its successor is applied
(`DeletedFirst`), or a unit not stopped before its file goes (`StopSkipped`), a marker-less
virtual environment that is kept (`KeptUnmarked`), files not brought back when TLS fails
(`TlsUnrestored`).

Properties in words: each is preceded in its module by a comment that says what it promises and
of which code. Some deserve a note.

- `Firewall!SshKept` is weaker than what the guard is for. `SshNeverLost`, the whole of it,
  fails without any failure; `SshKept` is the part that holds, for a change of an *enabled* rule
  to one that is rendered *otherwise*.
- `Firewall!ReconcileRestores` leaves out two cases on purpose: `Run` replaces each rule by
  itself, and `ReplaceRule` does nothing for a rule that lets everyone in on SSH and keeps its
  effect; and a disabled rule rendered like an enabled one takes its entry away in the same
  pass.
- `Firewall!RowsMatchHost` leaves out a rule that was added as inactive, which the panel shows
  as active: that is a finding, and its row stays in `adrift` until a change or a reconciliation
  deals with it.
- `Migrations!RowsKept` leaves out the websites that are skipped because a platform made since
  has their id (a finding), and asks of a platform that it describes an application linked to
  it, not which one.
- `PanelDomain!PanelServed` speaks of requests that came to their end or could be taken back.
  That what was taken back is what was there before is the part with the long sequences in it;
  the restore that fails itself, and the setting written alone, are in the model and excepted by
  name.
- `Backups!RestoreBrings` leaves out the files the panel derives from its rows.
- `FileManager!PathsKept` asks of half-done and falsely reported commands what it asks of the
  others; a removal and a write are meant to replace, and are not asked.
- `RedisInstances!RowsProvisioned`, a part of `InstancesMatchRows`, speaks of the configuration
  on disk, not of the one the process has read (see the findings).
- Conjunctions such as `VhostsMatchRows`, `AccountsMatchUsers`, `RowsMatchHost`, `DatabasesKept`
  and `AppsKept` say both directions of one agreement: what the rows promise is on the host, and
  what is on the host belongs to a row, to a request in flight or to a failure.
- `SelfUpdate!UpdateSettles` leaves out an updater that was killed or could not go back: the
  record then says *running*, which never expires.
- `Deploys!DeployedIsServed` and `Alerts!AlertsAgree` leave out what ended unrecorded, which the
  code cannot know of.

## Bounds and fairness

A bound is a constant named in its module: `MaxFaults`, `MaxCrashes`, `MaxFailures` (one budget
of failures, crashes and reboots), `MaxSites`, `MaxUsers`, `MaxRules`, `MaxRows`, `MaxCopies`
(how often iptables is given one entry). They are in guards, so a run explores everything up to
them.

- nginx: two requests, two site files of which one is an older name of the other, one good
  content and one refused (two good ones for the refinement, to tell an old from a new version),
  two faults so that a rollback can fail after a failure, one crash. The overlap run needs no
  fault.
- platforms: two domains, two user names, two platforms and three site users ever created:
  enough for a clash, for a user shared by two platforms, for a name used again after a
  deletion; one fault and one crash, each at every step. Names and domains are symmetric, only
  safety is checked under symmetry.
- firewall: seven rules (SSH for everyone, for the operator, disabled, denied, another port),
  two rows (three for the lockout), each of three backends, one failure.
- Redis: three ports of which another program holds one, two numbers, two passwords, two rows,
  two failures. Two failures let one interrupt what the first left behind.

- sites: two rows, names, users and passwords for databases; two platforms, two service names
  and two ports for applications, so that forms can clash, and settings with and without a port
  argument; two tool versions, three changes and two failures, since a half-made tree matters
  only to the next preparation; two branches and one push; two files (one of them derived) and
  two databases in a backup, three rows so that a restore has its own and an older one; two
  domains of one platform and one of another; three checks, two changes; four names and four
  file commands, in a home with a directory and a file in it. One failure elsewhere, at every
  step.
- panel: three releases, so that an update can follow an update, two failures and one kill; two
  websites, two applications and two platforms made since with ids that partly coincide, and two
  starts; two domains and three failures; two users and two browsers, two failures; one scripted
  version and two of PHP; a tree of two levels of directories with three files (`MaxDepth` is
  three names on the way), and one break of the connection.

Each of these constants has a wider setting the modules allow and the findings speak of:
`DbOverlapping`, `AppOverlapping`, `DpOverlapping`, `AlOverlapping`, `AcOverlapping`,
`FmOverlapping`, `UpOverlapping` (requests in flight together), `BkSameSecond`, `BkLinks`,
`Reinstalls`, `UseAnytime`, `MaxSnapshotFails`.

The turn-taking runs of platforms, firewall, Redis and what belongs to sites have one request:
with requests that never overlap and keep nothing after they end, a second changes nothing; the
proofs are for any number of them.

Fairness is used where something must end.

- `NginxTransaction!FairSpec` asks weak fairness of the steps of each request: a request runs to
  its end because every command of the runner has a timeout and handlers are goroutines nobody
  blocks.
- `SelfUpdate` asks it of the launch, of the updater's steps, of systemd starting a panel that
  died (`Restart=on-failure`), and of the expiry of a queued record, which is a matter of two
  minutes.
- `Migrations` asks it of the start: systemd starts a panel that failed or died again
  (`Restart=on-failure`), and a statement ends; starts that die are bounded by `MaxStarts`.
- `ScpTransfer` asks it of both processes: each reads or writes a pipe whose other end either
  goes on or is closed.

No fairness is asked of requests beginning, of failures, nor of crashes.

Deadlock is checked in the runs of nginx, platforms, firewall and Redis: a request may always
begin, if only from a page that has become stale (`NotFound`). In the other four (`sites_turns`,
`panel_parts`, `update_rollback`, `migration_bindings`) it is not, since a component really
stops there: a transfer ends, a start comes up, a bounded number of checks is spent. That
nothing hangs is what `UpdateSettles`, `StartsSettle` and `TransfersEnd` say.

## What is proved

All theorems are for every value of the constants that the module's ASSUME allows; those
assumptions are that bounds are naturals, that flags are Booleans, that the model values `None`,
`Absent`, `Linked` and `NoTable` are none of the other values, that the distribution's default
server is one nginx accepts, that the rules a form asks for are rules, that what an extraction
makes has the name of a directory, and that the directories a transfer sends end somewhere
(`MaxDepth`; a link to a directory above it, which `os.Stat` follows until the system refuses
the path, is left out).

| theorem | says |
|---|---|
| `NginxTransactionProofs!TypeCorrect` | `Spec => []TypeOK`, requests overlapping or not |
| `NginxTransactionProofs!SerialBrokenAccounted` | in turns, a refused enabled file belongs to a transaction in flight or to a crash or failed rollback |
| `NginxTransactionProofs!SerialImplementsStore` | in turns, with a rollback whose own steps succeed and a panel that does not die, transactions implement the atomic `ConfigStore` |
| `NginxTransactionProofs!SerialLiveLinksKept` | in turns, no link to an existing file goes but with a transaction that can give it back or with its platform |
| `NginxTransactionProofs!SerialOutcomesTrue` | in turns, a success is what nginx serves, and a well-formed virtual host is refused only after a failure or beside the stock default server |
| `PlatformsProofs!PlatformsTypeCorrect` | `Spec => []TypeOK`, overlapping or not |
| `PlatformsProofs!SerialDomainsOwned` | in turns, no domain has two owners |
| `PlatformsProofs!SerialAccountsMatchUsers` | in turns, system accounts and the panel's site users are the same, outside what a failure left |
| `PlatformsProofs!SerialDeletesComplete` | in turns, a deletion that succeeds leaves nothing of the platform, and it fails only at a step that fails |
| `PlatformsProofs!SerialSoundChangesSucceed` | in turns, a change with free domains is refused only at a step that fails or for an account out of step since a failure |
| `PlatformsProofs!SerialVhostsMatchRows` | in turns, nginx serves the virtual host each platform's row asks for, outside what a failure left |
| `FirewallProofs!FirewallTypeCorrect` | `Spec => []TypeOK`, overlapping or not |
| `FirewallProofs!SshKeptInTurns` | in turns, a change of an enabled rule never closes SSH |
| `FirewallProofs!RowsMatchHostInTurns` | in turns, away from failed commands and rules added as inactive, the host has what the active rules ask for and nothing else of the panel's |
| `FirewallProofs!ReconcileRestoresInTurns` | in turns, a reconciliation that succeeds has every rule it applies in force |
| `RedisInstancesProofs!RedisTypeCorrect` | `Spec => []TypeOK`, overlapping or not |
| `RedisInstancesProofs!NumbersDistinctInTurns`, `RowsProvisionedInTurns`, `InstancesOwnedInTurns` | in turns, the three safety invariants of `redis_turns` |
| `RedisInstancesProofs!ReconcileRestoresInTurns` | in turns, a reconciliation that succeeds has restored every instance |
| `DatabasesProofs!DatabasesTypes` | `DbSpec => []DatabasesTypeOK`, overlapping or not |
| `DatabasesProofs!DatabasesKeptInTurns` | in turns, a connection opens its own database with the password shown, and nothing of a removed one stays, outside what a failure left |
| `AppsProofs!AppsTypes` | `AppsSpec => []AppsTypeOK`, overlapping or not |
| `AppsProofs!AppsKeptInTurns` | in turns, each runtime has the unit, service row, sudo rule and proxy its row asks for, and nothing of a removed one stays, outside what a failure left or two rows contest |
| `PanelProofs!PanelServedAlways` | the panel's setting, base URL, nginx file and certificate are of one domain, whatever failed before, unless a request ended where the code does not undo or the undo failed, or wrote the setting alone |
| `PanelProofs!AdminRemainsInTurns` | in turns, a panel with users has an active admin |
| `PanelProofs!RuntimesTyped` | `RuntimesSpec => []RuntimesTypeOK`, for any versions, reinstalled or not |
| `PanelProofs!UsedVersionsWorkInTurns` | a runtime version in use is there, whole and executable |
| `PanelProofs!ReleaseWholeInTurns` | in turns, the panel at rest is of one whole release with a database it can read |
| `PanelProofs!MigrationsTyped`, `RowsAlwaysKept` | wherever starts stop, every website of the old tables is in a table unless its id was taken, and every application in a table or in a platform that describes it or another of its website, with its variables if no new id is an old one |
| `PanelProofs!ScpTypes`, `ScpAlwaysFaithful` | what a transfer has got past is whole where it belongs and nothing else is there, and an end that succeeds has left nothing out, for directories of any finite depth |
| `PanelProofs!PdTyped`, `AccessTyped`, `UpdateTyped`, `SitesProofs!ToolsTyped`, `DeploysTyped`, `AlertsTyped`, `BackupsTyped`, `CertsTyped`, `FilesTyped` | the types of the other components, whatever overlaps or fails |
| `SitesProofs!ToolsAlwaysFit` | what a unit is given to start was made with the version selected |
| `SitesProofs!DeployedIsServedInTurns` | in turns, a deployment shown as a success is the one checked out, built and running |
| `SitesProofs!AlertsAgreeInTurns` | in turns, the open alerts are those the latest check calls for, one of each kind |
| `SitesProofs!AlertsToldOnce` | overlapping or not, no more alerts of a kind are sent to the webhook than have a row |
| `SitesProofs!BackupsHoldApart`, `RestoreBringsApart` | a completed backup holds the platform as it was, and a restore brings all of it back but what the repair derives anew |
| `SitesProofs!BackupsKeepStates` | backups and restores implement `EarlierStates` |
| `SitesProofs!CertsAreServed` | nginx can load every pair its configuration names, and names that of the newest row once the refresh has been through with the certificates listed; requests here do not overlap in the model |
| `SitesProofs!PathsKeptInTurns` | in turns, a paste, an extraction and a new directory replace nothing, half-done and falsely reported ones included, and what was to be extracted is there |
| `SitesProofs!SitesImplementEach` | what belongs to the platforms, composed, implements each of its eight components |
| `SitesProofs!SitesTyped` | `SitesSpec => []SitesTypeOK`, overlapping or not |
| `SitesProofs!SitesPromises`, `SitesStepsKeep` | the safety invariants and the action properties of the eight hold together of `SitesSpec` |
| `PanelProofs!PanelTyped`, `PanelPromises` | the types and the safety invariants of the six parts of the panel hold together of `PanelSpec` |

Some theorems have a hypothesis, always on constants that say which behaviour the environment
may show. All but two exclude a behaviour the code does have, which a run or a finding shows to
break the property; the exceptions, `CatchallContent \in Accepted` and `NativesListed`, are
facts about the code and the host.

- *In turns* is `~Overlapping`, and for the components beside each other `~DbOverlapping`,
  `~AppOverlapping`, `~AcOverlapping`, `~DpOverlapping`, `~AlOverlapping`, `~UpOverlapping`,
  `~FmOverlapping`. Overlapping requests leave refused files at rest (`nginx_overlap`) and break
  `DomainsOwned` and others (findings).
- `SerialImplementsStore` also has `~FaultyRestore` and `MaxCrashes = 0`: a rollback that
  ignores its own failure, or a panel that dies, leaves what no atomic store would.
- `SerialOutcomesTrue` has `CatchallContent \in Accepted`: nginx accepts the reject block for
  unknown hosts, which `nginxUnknownHostRejectContent` renders for the version installed.
- `RowsMatchHostInTurns` and `ReconcileRestoresInTurns` have `NativesListed`, about the entries
  the host had before the panel: what firewalld lists of its own are ports and services for
  anywhere, which have one protocol each (`firewalldStatus`), and no entry of iptables carries
  the name of a rule in its comment. `MCFirewall` makes TLC evaluate it.
- `SerialVhostsMatchRows` has `OwnNames`, which says that `NameOf` is injective. The name of a
  file is the domain with every dot and the like turned into a hyphen (`website_handler.go`,
  `websiteNameFromDomain`), so that `a.b` and `a-b` have one file.
- `UsedVersionsWorkInTurns` has `~Reinstalls` (installing a version again empties it first) and
  `~UseAnytime` (the check that nobody uses a version is made before its removal, and the
  removal takes time). `RuntimesTyped` has `~UseAnytime` alone.
- `ReleaseWholeInTurns` has `MaxSnapshotFails = 0`: when the database cannot be copied the
  update goes on, and `update_rollback` shows what its rollback then does.
- The theorems of backups, but for their types, have `~BkSameSecond` (an archive is named by the
  second) and, for the restore, `BkLinks = {}` (absolute links of a home are not brought back).
  The refinement does without the latter: a restore that leaves links out brings back less, but
  nothing else.
- The theorems of the compositions have the hypotheses of the components they speak of; of the
  two about types only `PanelTyped` has one, `~UseAnytime`.

The arguments. Types need more than `TypeOK` alone, since a step uses what an earlier one put in
memory: `Platforms` adds that a handler past a step holds the row, user or name that step
produced; `Firewall` adds that the plan of a request is one its code makes; `AppInHand`,
`AskedAbout`, `Aimed`, `BkInHand` and their like say the same of the other components. None of
them needs turns: what a request holds is of its type whatever others do meanwhile. In turns,
the inductive invariants all begin with *at most one request is not at rest*, which makes a step
a question about one request, and go on with how much of the work is done at each program
counter:

- `NginxTransactionProofs`: the argument follows `Base(r)`, the tree the snapshots of a request
  would give back. The capture makes it equal to the disk, no step of the mutation or of the
  rollback changes it, and a rollback that ends has turned the disk into it, except at the files
  it is recorded to have failed on (`DiskOK`, `AtRest`). `StoreInv` adds, for the refinement,
  what a request still has to undo or has captured so far (`Removing`, `Scanned`, `Reaching`),
  so that the store changes at one step, the reload that succeeds. For the action properties,
  `SweepInv` adds that a sweep is about to remove only what is dangling still, and `TruthInv`
  that before any failure a well-formed virtual host is staged in a tree nginx accepts, unless
  the stock default server is there (`Sound`).
- `PlatformsProofs`: `SerialInv` is the types, the turns, `DomainsOwned`, and `Fresh`: from the
  check to the insertion the domains asked for are still nobody else's. `AccountInv` adds that
  every name is `Sound` or in the hand of the request at work; `VhostInv` that every platform is
  `UpToDate` or the request at work is on its way to serve it (`Answers`, `Served`), and that
  the files nginx has belong to rows (`Rooted`). For the action properties, `ChangeInv` adds
  that every user has an account, but for the one a handler is deleting (`Leaving`) and those
  out of step since a failure, so that a refresh of access finds the accounts it asks for.
  `DeleteInv` adds that the keys in the tables have been given out, and so the owner of a
  platform is older than it and not one of its further users (`Linked`); that the rows and
  owners a handler is about to save are those of the table (`Handed`); and of a deletion that
  each user is still on its list, in its hand, or one it leaves (`Spared`), with the file and
  the tree gone before the row (`Deleting`).
- `FirewallProofs`: `TurnsInv` adds `RemovesOld` (what a plan removes is the old rule's entry)
  and `Succeeded` (when it comes to be removed, the new rule's entry is in place). `MatchInv`
  says of the request at work how far its plan has come: what is left of the plan is in the
  order it was made in, with the reload that loads it still to come (`Planned`), the row it
  holds is the one in the table (`Holding`), the active rules it does not change are enforced
  (`Covers`), the rule it adds is there once its command has run (`Settles`), and the copies of
  an entry are at most its owners (`Counts`): that last one is why removing the entry of one
  rule never leaves behind a second that nobody owns. `Walled` says what the loaded rules and
  the copies can be on each of the three firewalls. `Restores` follows a reconciliation through
  its listing.
- `RedisInstancesProofs`: `TurnsInv` is the types, the turns, the three results, and `Flow`, one
  part for each operation. `Provided` says how much of an instance stands at each step,
  `Removed` how much is gone, `Creating` that the number chosen is still free, and `Reconciling`
  that every connection is still to be done, in hand, or standing. That an action touches one
  instance only (`Touches`) is proved once and used in the lemma `Acting`.
- `DatabasesProofs` and `AppsProofs`: `DbStages` and `AppStages` say how far the request at work
  has come with the instance it holds, `DbRowsFit`, `AccountsOwned`, `AppRowsFit` and `AppOwned`
  who the other instances belong to. The results follow when nobody is at work.
- `PanelProofs`: `Progress` says at each step of a save what the host has and that the files to
  bring back are those of the state it began in; `Safe` says that the admin a request was
  admitted for is an admin until it ends; `RtTypes` that a PHP default with a link is an
  installed package and, until it is restored, one of the packages; `RtHeld` that a version
  being removed is used by nobody; `Undoable`, `Aims` and `Reached` which release an updater has
  put in place so far and which copies it has kept to go back. For the migrations, `Unmerged`
  and `Moved` say where the applications are, and `Walking` which tables there are at a
  statement, so that the table dropped has been merged. Two lemmas are about what the walks over
  the rows compute: `MergedIs`, that applications linked apart go to platforms apart, and
  `ReboundIs`, that rebinding one id after the other, in any order, binds each row to its
  application when no new id is an old one. The prover has no rule of induction that can be used
  here; `Smallest`, that a set of numbers with a member has a smallest, stands in for it: the
  first step of the walk to go wrong does not. For transfers, `Dialogue` says whose turn it is:
  nothing is on its way, or one line, or one answer. A line names the entry the walk of the
  sender is at, and the answer the walk it allows; `Nested` has the calls of the receiver as
  those of the directories from the one at hand up to the root, so that both ends are at the
  same place (`InStep`) and an entry is written where its route leads (`DestinationIs`).
  `WalkOK` has each step of the walk in the directory the one before it left; so what is no
  longer ahead has arrived (`Delivered`), and a receiver whose only call is through has
  everything. Entries land apart because a route is the names on the way (`LandApart`).
- `SitesProofs`: `Underway` and `Marked` relate the version a preparation wants, the one the
  tree was made with and the marker (a marker without a tree only after a removal that stopped
  half way); `DpStage` says at each step of a deployment what is checked out, built and running;
  `Agreed` and `Counted` that a check has dealt with the kinds before the one it is at;
  `NamedApart` that no two archives share a name, `Packing` what the archive in hand holds
  already, and `Bringing` what a restore has brought back. For the refinement, `ChoiceKept` adds
  that the backup a restore was asked for is completed still with the content in hand for its
  archive, and that every completed row, or one about to be, has an archive: a step then maps to
  the one `EarlierStates` allows, the completion of a row to `Keep` or, before a restore, to
  `Restore`, a failing extraction or replay to `Stop`. For certificates, `ConfLoads`, `RowsLoad`
  and `CertsWritten` say of every domain that it is settled or its platform still has its
  refresh to come. For the file manager, `Planted` says that directories are in the root and
  that what is in one is below a directory that is there, so that nothing hides where a
  directory is put; that the name a paste has chosen is free until it is used is true in turns
  only (`InTurn`). For `AlertsToldOnce`, and the types of alerts, `Share` counts: what was sent
  of a kind, with what the checks under way will still send of it, is at most what has a row,
  and a check that is broken off gives up its share.
- Compositions: a step of the whole is a step of the one component named and a stutter of the
  others (`SitesMoveOne`, `PanelMovesOne`), and every initial state is one of each component; so
  the whole implements each of them and has what was proved of each.

Each of these invariants was checked by TLC on the constants of its run, or on larger ones,
before it was proved.

Only model-checked:

- `BrokenFlushed`, `UpdateSettles`, `StartsSettle` and `TransfersEnd` are liveness, and that,
  like ENABLED, is beyond the prover.

Every invariant, action property and refinement of the runs that hold is a theorem of its
component, under the hypotheses above, and those of components beside each other are theorems of
the composition too.

The project declares no RECURSIVE operator.

## Findings

Each has the line, comment, document or test it contradicts quoted in `PROJECT.json`. The first
five are counterexamples of a run.

1. `nginx_overlap`: two nginx transactions at once; the rollback of one restores a refused file
   of the other after the other has withdrawn it, and the tree stays broken.
2. `platforms_files`: every site user's home is its platform's home, and accounts are deleted
   with `userdel -rf`: a creation refused because its domain is in use deletes the files of the
   platform that uses it.
3. `firewall_lockout`: deleting a disabled rule, or enabling it again, removes the entry it is
   rendered like, SSH included. Only a change makes a disabled rule; an insertion does not.
4. `update_rollback`: when `sqlite3` cannot copy the database, the rollback puts the empty or
   partial copy in the place of the live one.
5. `migration_bindings`: ids are rebound one after the other, so that variables of an
   application whose new id is another's old id end with that other one.

The others were met while modelling and have no run of their own. The constant that opens each
in a module is named in its entry where there is one.

- Overlapping requests: two creations of one domain both pass the check; a password reset
  unlocks a user who is disabled meanwhile.
- Redis: a password change starts a unit that runs already, so the old password goes on; ports
  are compared with what listens, not with the table.
- Databases: `CREATE ... IF NOT EXISTS` takes over what is there, and the undo drops it; a
  platform's deletion takes unattached connections whose label contains its name.
- Backups and deployments: a restore of a Python platform stops at the absolute link of its
  virtual environment; two backups of one second share an archive; after the first, no other
  branch can be deployed.
- Applications: a linked runtime keeps its old `PORT` when its settings change.
- Certificates: a second import shares the files of the first, whose deletion then breaks nginx;
  a renewal reloads nothing.
- Runtimes: a failed reinstallation removes a version in use.
- Updates, transfers, migrations: a record that says *running* never expires; a connection that
  breaks between two files of a directory passes for the end of the transfer; `go_apps` is
  dropped when `apps` exists too, and a website of the old table whose id a platform has is
  skipped and dropped with the table.
- Defaults: a field that is FALSE is left out of an insertion when its column has a default, so
  that inactive firewall rules and users are stored as active.

Seen while modelling and without a property of their own, for whoever works on the firewall: on
firewalld a rule for any protocol is rendered as tcp; the iptables comment carries the rule's
name, which `sameFirewallHostEffect` ignores; ufw lists IPv4 and IPv6 twins that import as two
rows, of which the second may have a port no command accepts; a reconciliation stops at such a
row, and at a `service` rule imported from firewalld.

## What is not modelled

- Text: what a virtual host, unit or configuration says beyond what properties tell apart.
- Platforms: the enabled flag, fields other than domains, FTP members, `ReconcileSystemAccess`,
  several domains in one creation; linked databases, runtimes and cron jobs of a deletion are
  steps that may fail (`DeleteFails`).
- Firewall: port ranges, icmp, rules for any port, more than one operator's address, dryrun, the
  teardown of managed rules. What the three firewalls do with an entry they have, lack or refuse
  is external (`Added`, `Succeeds`, `Accepts`).
- Redis: connections to other hosts, which have no instance; dryrun; `RedisInfo`; the log file
  (its removal fails with the tree's). Reading the list and probing ports is one step, and so is
  a page action; a failing read ends a request with nothing changed, as `NotFound` does.
- Databases: connections to servers elsewhere, whose server the panel never changes; the tokens
  of the database UI; rights finer than *may use this database*.
- Applications: logs, environment variables other than `PORT`, what the unit says, the
  stand-alone pages of old versions. Deployments: deploy keys, and the command line's lookup of
  a platform. Backups: deletion, the port table, and two writers of one temporary file.
- Alerts: how often checks run, and what a webhook answers. Certificates: expiry dates, the ACME
  exchange (external) and the contents of hooks.
- File manager: deeper trees than two levels, permissions, searches, uploads in chunks, and what
  unpacking does to links.
- Updates: the download and its checksum, and units and scripts refreshed beside the release.
  Migrations: tables that are only created, and defaults of settings.
- Runtimes: other package managers than apt, the catalog on offer, shell profiles.
- Access: renaming a user, passwords, second factors, rate limits, CSRF. Transfers: SFTP, whose
  server is a library, and the confinement of paths, a pure function of names.
- Saves that write a whole row over columns changed meanwhile, except where the profile of a
  user (`Access`) and the pages of a platform (`Platforms`) do.
- Other platforms than Linux: the darwin and dryrun adapters are for development.
- Varnish and cron write one file each in sequence; dashboard and audit keep samples or append;
  views, validators and parsing are pure functions; installation scripts run once.

## Plan

What would be next, in order of what would hurt most:

1. Platforms extended by FTP users, the enabled flag and `ReconcileSystemAccess`, with row
   versions for whole-row saves.
2. One view of systemd units for `Apps`, `RedisInstances` and the services page, and
   `ReconcileService.Run` over all of them, which stops at the first error.
3. `Certificates` composed with `NginxTransaction`, so that a refused reload and its rollback
   are the same in both.
4. An abstract specification for `Databases` (connections that open their own data), refined by
   the module there is.
5. Proofs: with the modules above, and the refinement of 4.

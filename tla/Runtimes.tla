------------------------------- MODULE Runtimes -------------------------------
(***************************************************************************)
(* The runtime versions of the settings page (RuntimeService in             *)
(* src/internal/services/runtime_service.go, SystemPackageService,          *)
(* SettingsService and SettingsHandler): versions installed by              *)
(* runtime-manager.sh (Go, Node, Python, here one of them) and the PHP      *)
(* versions, which are packages of the host (here apt), with the wrappers   *)
(* in the runtime root that applications and shells run.                    *)
(***************************************************************************)
EXTENDS Integers, FiniteSetsExt

CONSTANTS
  Scripts,        \* versions runtime-manager.sh installs
  Phps,           \* PHP versions (major.minor); the greatest is the host's choice
  HostScript,     \* the version of Scripts the host itself has, or 0
  Reinstalls,     \* may the default, or a version in use, be installed again?
  UseAnytime,     \* may platforms change while a version is installed or removed?
  MaxRtFailures   \* bound on failing steps and crashes

RtVersions == Scripts \cup Phps
NoVersion == 0

ASSUME RuntimesAssumption ==
  /\ Scripts \subseteq Nat \ {0} /\ Phps \subseteq Nat \ {0} /\ Scripts \cap Phps = {}
  /\ HostScript \in Scripts \cup {NoVersion}
  /\ Reinstalls \in BOOLEAN /\ UseAnytime \in BOOLEAN /\ MaxRtFailures \in Nat

VARIABLES
  wrapper,      \* what <runtime root>/<runtime>/<version>/bin runs
  imported,     \* versions whose .deploycp-origin says host-import
  asdf,         \* versions asdf has installed
  fpm, cli,     \* the packages php<v>-fpm and php<v>-cli
  fpmUp,        \* PHP-FPM units that are active
  alternatives, \* update-alternatives for php
  links,        \* /usr/local/bin/<command> for each kind
  appUses,      \* RUNTIME_VERSION of the applications
  siteUses,     \* the PHP version of the PHP platforms
  rt,           \* the request at a version
  rtFailures, rtTorn

rtVars == <<wrapper, imported, asdf, fpm, cli, fpmUp, alternatives, links, appUses, siteUses,
            rt, rtFailures, rtTorn>>
rtHost == <<wrapper, imported, asdf, fpm, cli, fpmUp, alternatives, links>>
rtUses == <<appUses, siteUses>>

\* "none" is no directory, "bare" a bin directory without the command.
Wrappers == {"none", "bare", "managed", "host"}
RtIdle == [pc |-> "idle", version |-> NoVersion, before |-> NoVersion,
           hadFpm |-> FALSE, hadCli |-> FALSE]
RtSteps == {"idle", "asdf", "clear", "write", "fpm", "cli", "unit", "restore", "import",
            "rollback", "remove", "rmfpm", "rmcli", "rmdir"}

-----------------------------------------------------------------------------
Kind(v) == IF v \in Phps THEN "php" ELSE "script"
WrapperExists(v) == wrapper[v] \in {"managed", "host"}
\* VerifyInstalledVersion: the command is there and says it is this version.
Detected(v) == IF v \in Phps THEN v \in cli ELSE wrapper[v] = "host" \/ v \in asdf
VerifyInstalled(v) == WrapperExists(v) /\ Detected(v)

\* A dangling link in /usr/local/bin does not hide the command of the host.
Linked(kind) == links[kind] # NoVersion /\ WrapperExists(links[kind])
HostDefault(kind) == IF kind = "php" THEN alternatives.version ELSE HostScript
DefaultOf(kind) == IF Linked(kind) THEN links[kind] ELSE HostDefault(kind)
\* SystemDefaultVersion: php -v of the host prints the patch level, so that the default of
\* the host is never equal to a version of the list; a version behind the link is.
IsSystemDefault(v) ==
  IF Linked(Kind(v)) THEN links[Kind(v)] = v ELSE v \notin Phps /\ v = HostScript

\* runtimeVersionUsage.  Mutant: the PHP platforms are not counted.
AppsOnly(v) == v \in appUses
UsedBy(v) == v \in appUses \cup siteUses

\* The choice update-alternatives makes when the packages change.
Chosen(packages, choice) ==
  IF choice.manual /\ choice.version \in packages THEN choice
  ELSE [version |-> IF packages = {} THEN NoVersion ELSE Max(packages), manual |-> FALSE]
SetCli(packages) == cli' = packages /\ alternatives' = Chosen(packages, alternatives)

Quiet == UseAnytime \/ rt.pc = "idle"
Proceed(pc) == rt' = [rt EXCEPT !.pc = pc]
RtEnd == rt' = RtIdle
RtFault == rtFailures < MaxRtFailures /\ rtFailures' = rtFailures + 1
RtWorks == UNCHANGED <<rtFailures, rtTorn>>
Tears == rtTorn' = rtTorn \cup {rt.version}

-----------------------------------------------------------------------------
(* Platforms *)

\* AppService.validate, at a creation and at a change of the runtime.
AppTakes(v) == /\ Quiet /\ VerifyInstalled(v) /\ appUses' = appUses \cup {v}
               /\ UNCHANGED <<rtHost, siteUses, rt, rtFailures, rtTorn>>
AppLeaves(v) == /\ Quiet /\ v \in appUses /\ appUses' = appUses \ {v}
                /\ UNCHANGED <<rtHost, siteUses, rt, rtFailures, rtTorn>>
\* ensurePHPFPMVersion: installed is enough; the unit is started, and a failure ignored.
SiteTakes(v) ==
  /\ Quiet /\ v \in fpm /\ siteUses' = siteUses \cup {v}
  /\ \/ fpmUp' = fpmUp \cup {v} /\ RtWorks
     \/ v \notin fpmUp /\ UNCHANGED fpmUp /\ RtFault /\ rtTorn' = rtTorn \cup {v}
  /\ UNCHANGED <<wrapper, imported, asdf, fpm, cli, alternatives, links, appUses, rt>>
SiteLeaves(v) == /\ Quiet /\ v \in siteUses /\ siteUses' = siteUses \ {v}
                 /\ UNCHANGED <<rtHost, appUses, rt, rtFailures, rtTorn>>

-----------------------------------------------------------------------------
(* RuntimeVersionAdd *)

BeginAdd(v) ==
  /\ rt.pc = "idle" /\ (Reinstalls \/ ~(UsedBy(v) \/ IsSystemDefault(v)))
  /\ rt' = [pc |-> IF v \in Phps THEN "fpm" ELSE "asdf", version |-> v,
            before |-> DefaultOf("php"), hadFpm |-> v \in fpm, hadCli |-> v \in cli]
  /\ wrapper' = [wrapper EXCEPT ![v] = IF v \in Scripts /\ @ = "none" THEN "bare" ELSE @]
  /\ UNCHANGED <<imported, asdf, fpm, cli, fpmUp, alternatives, links, rtUses, rtFailures,
                 rtTorn>>

\* A failure removes the directory, in the script and again in InstallVersion.
Discard(v) == /\ wrapper' = [wrapper EXCEPT ![v] = "none"] /\ imported' = imported \ {v}
InstallScript ==
  LET v == rt.version IN
  /\ \/ /\ rt.pc = "asdf" /\ asdf' = asdf \cup {v} /\ Proceed("clear")
        /\ UNCHANGED wrapper
     \/ /\ rt.pc = "clear" /\ wrapper' = [wrapper EXCEPT ![v] = "bare"] /\ Proceed("write")
        /\ UNCHANGED asdf
     \/ /\ rt.pc = "write" /\ wrapper' = [wrapper EXCEPT ![v] = "managed"] /\ RtEnd
        /\ UNCHANGED asdf
  /\ RtWorks /\ UNCHANGED <<imported, fpm, cli, fpmUp, alternatives, links, rtUses>>
InstallScriptFails ==
  /\ rt.pc \in {"asdf", "write"} /\ RtFault /\ UNCHANGED rtTorn
  /\ Discard(rt.version) /\ RtEnd
  /\ UNCHANGED <<asdf, fpm, cli, fpmUp, alternatives, links, rtUses>>

\* ensurePHPRuntimePackages: the packages, then the unit.
EnsureFpm ==
  /\ rt.pc = "fpm" /\ fpm' = fpm \cup {rt.version} /\ Proceed("cli")
  /\ RtWorks /\ UNCHANGED <<wrapper, imported, asdf, cli, fpmUp, alternatives, links, rtUses>>
EnsureCli ==
  /\ rt.pc = "cli" /\ SetCli(cli \cup {rt.version}) /\ Proceed("unit")
  /\ RtWorks /\ UNCHANGED <<wrapper, imported, asdf, fpm, fpmUp, links, rtUses>>
StartFpm ==
  /\ rt.pc = "unit" /\ fpmUp' = fpmUp \cup {rt.version} /\ Proceed("restore")
  /\ RtWorks /\ UNCHANGED <<wrapper, imported, asdf, fpm, cli, alternatives, links, rtUses>>

\* restorePHPDefault: nothing to do when there was none, or when it is the same.
RestoredChoice ==
  IF rt.before \in {NoVersion, DefaultOf("php")} THEN alternatives
  ELSE [version |-> rt.before, manual |-> TRUE]
RestoreDefault ==
  /\ rt.pc = "restore"
  /\ alternatives' = RestoredChoice /\ Proceed("import")
  /\ RtWorks /\ UNCHANGED <<wrapper, imported, asdf, fpm, cli, fpmUp, links, rtUses>>

\* importPackageRuntimeBinary says "package" in the file of the origin.
ImportPackage ==
  LET v == rt.version IN
  /\ rt.pc = "import"
  /\ wrapper' = [wrapper EXCEPT ![v] = "managed"] /\ imported' = imported \ {v} /\ RtEnd
  /\ RtWorks /\ UNCHANGED <<asdf, fpm, cli, fpmUp, alternatives, links, rtUses>>

InstallPhpFails ==
  /\ rt.pc \in {"fpm", "cli", "unit", "restore", "import"} /\ RtFault
  /\ Proceed("rollback") /\ UNCHANGED <<rtHost, rtUses, rtTorn>>
\* rollbackPHPInstall: what was there before stays, and errors are ignored.
RollsBackFpm == ~rt.hadFpm
RollbackPhp ==
  LET v == rt.version
      fpmGone == \/ fpm' = fpm \/ (RollsBackFpm /\ fpm' = fpm \ {v})
      tidy == (~RollsBackFpm \/ v \notin fpm') /\ (rt.hadCli \/ v \notin cli')
  IN  /\ rt.pc = "rollback"
      /\ fpmGone /\ fpmUp' = fpmUp \cap fpm'
      /\ cli' \in {cli} \cup (IF rt.hadCli THEN {} ELSE {cli \ {v}})
      /\ alternatives' = Chosen(cli', alternatives)
      /\ IF tidy THEN RtWorks ELSE RtFault /\ Tears
      /\ Discard(v) /\ RtEnd
      /\ UNCHANGED <<asdf, links, rtUses>>

-----------------------------------------------------------------------------
(* RuntimeVersionRemove *)

\* The unit is stopped before its package goes.  Mutant: it is left running.
LeftUp(v) == fpmUp
StoppedFpm(v) == fpmUp \ {v}

BeginRemove(v) ==
  /\ rt.pc = "idle"
  /\ ~IsSystemDefault(v)
  /\ ~(v \in imported /\ VerifyInstalled(v))
  /\ ~UsedBy(v)
  /\ rt' = [RtIdle EXCEPT !.pc = IF v \in Phps THEN "rmfpm" ELSE "remove", !.version = v]
  /\ fpmUp' = StoppedFpm(v)
  /\ UNCHANGED <<wrapper, imported, asdf, fpm, cli, alternatives, links, rtUses, rtFailures,
                 rtTorn>>
\* asdf uninstall may fail, and the directory goes all the same.
RemoveScript ==
  /\ rt.pc = "remove"
  /\ asdf' \in {asdf, asdf \ {rt.version}} /\ Discard(rt.version) /\ RtEnd
  /\ RtWorks /\ UNCHANGED <<fpm, cli, fpmUp, alternatives, links, rtUses>>
RemoveFpm ==
  /\ rt.pc = "rmfpm" /\ fpm' = fpm \ {rt.version} /\ Proceed("rmcli")
  /\ RtWorks /\ UNCHANGED <<wrapper, imported, asdf, cli, fpmUp, alternatives, links, rtUses>>
RemoveCli ==
  /\ rt.pc = "rmcli" /\ SetCli(cli \ {rt.version}) /\ Proceed("rmdir")
  /\ RtWorks /\ UNCHANGED <<wrapper, imported, asdf, fpm, fpmUp, links, rtUses>>
RemoveDirectory ==
  /\ rt.pc = "rmdir" /\ Discard(rt.version) /\ RtEnd
  /\ RtWorks /\ UNCHANGED <<asdf, fpm, cli, fpmUp, alternatives, links, rtUses>>
RemoveFails ==
  /\ rt.pc \in {"remove", "rmfpm", "rmcli", "rmdir"} /\ RtFault /\ Tears
  /\ RtEnd /\ UNCHANGED <<rtHost, rtUses>>

-----------------------------------------------------------------------------
\* RuntimeVersionDefault: the link is removed, then made.
SetDefault(v) ==
  /\ rt.pc = "idle" /\ VerifyInstalled(v)
  /\ \/ links' = [links EXCEPT ![Kind(v)] = v] /\ UNCHANGED rtFailures
     \/ links' = [links EXCEPT ![Kind(v)] = NoVersion] /\ RtFault
  /\ UNCHANGED <<wrapper, imported, asdf, fpm, cli, fpmUp, alternatives, rtUses, rt, rtTorn>>
\* ImportSystemDefaultRuntime, whenever the settings page is shown.
ImportDefault ==
  /\ HostScript # NoVersion /\ ~Linked("script") /\ ~WrapperExists(HostScript)
  /\ wrapper' = [wrapper EXCEPT ![HostScript] = "host"]
  /\ imported' = imported \cup {HostScript}
  /\ UNCHANGED <<asdf, fpm, cli, fpmUp, alternatives, links, rtUses, rt, rtFailures, rtTorn>>

\* The panel dies, and the script it runs with it.
RtCrash ==
  /\ rt.pc # "idle" /\ RtFault /\ Tears /\ RtEnd
  /\ UNCHANGED <<rtHost, rtUses>>

RuntimesInit ==
  /\ wrapper = [v \in RtVersions |-> "none"] /\ imported = {} /\ asdf = {}
  /\ fpm = {} /\ fpmUp = {}
  /\ cli \in {{}} \cup {{v} : v \in Phps}
  /\ alternatives = Chosen(cli, [version |-> NoVersion, manual |-> FALSE])
  /\ links = [kind \in {"script", "php"} |-> NoVersion]
  /\ appUses = {} /\ siteUses = {}
  /\ rt = RtIdle /\ rtFailures = 0 /\ rtTorn = {}
RuntimesNext ==
  \/ \E v \in RtVersions : \/ AppTakes(v) \/ AppLeaves(v)
                           \/ BeginAdd(v) \/ BeginRemove(v) \/ SetDefault(v)
  \/ \E v \in Phps : SiteTakes(v) \/ SiteLeaves(v)
  \/ InstallScript \/ InstallScriptFails
  \/ EnsureFpm \/ EnsureCli \/ StartFpm \/ RestoreDefault \/ ImportPackage \/ InstallPhpFails \/ RollbackPhp
  \/ RemoveScript \/ RemoveFpm \/ RemoveCli \/ RemoveDirectory \/ RemoveFails
  \/ ImportDefault \/ RtCrash
RuntimesSpec == RuntimesInit /\ [][RuntimesNext]_rtVars

-----------------------------------------------------------------------------
(* Properties *)

RuntimesTypeOK ==
  /\ wrapper \in [RtVersions -> Wrappers] /\ imported \subseteq Scripts
  /\ asdf \subseteq Scripts /\ fpm \subseteq Phps /\ cli \subseteq Phps /\ fpmUp \subseteq fpm
  /\ alternatives \in [version : cli \cup {NoVersion}, manual : BOOLEAN]
  /\ links["script"] \in Scripts \cup {NoVersion} /\ links["php"] \in Phps \cup {NoVersion}
  /\ appUses \subseteq RtVersions /\ siteUses \subseteq Phps
  /\ rt \in [pc : RtSteps, version : RtVersions \cup {NoVersion},
             before : Phps \cup {NoVersion}, hadFpm : BOOLEAN, hadCli : BOOLEAN]
  /\ rtFailures \in 0..MaxRtFailures /\ rtTorn \subseteq RtVersions

\* A version that a platform runs on is there: it is neither removed nor replaced under it,
\* unless a step that failed halfway left it torn (runtimeVersionUsage,
\* settings_handler.go:1436).
UsedVersionsWork ==
  \A v \in RtVersions \ rtTorn :
    /\ v \in appUses => VerifyInstalled(v)
    /\ v \in siteUses => v \in fpmUp
=============================================================================

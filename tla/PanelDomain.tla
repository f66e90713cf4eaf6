----------------------------- MODULE PanelDomain ----------------------------
(***************************************************************************)
(* The domain of the panel itself (UpdateGeneral in                         *)
(* src/internal/handlers/settings_handler.go and                            *)
(* src/internal/services/panel_domain_service.go): a plain configuration    *)
(* is written and loaded so that certbot can answer its challenge, then one *)
(* with the certificate; then the base URL and the setting follow.  An      *)
(* error in the middle brings the files of the start back, as far as that   *)
(* works: what fails of it is not told.  The setting can also be written by *)
(* itself (Update of the same handler).                                     *)
(***************************************************************************)
EXTENDS Integers

CONSTANTS
  PdDomains,     \* the domains that may be asked for
  NoDomain,
  MaxPdFailures  \* bound on failing calls, restarts and bad configurations of others

ASSUME PdAssumption == NoDomain \notin PdDomains /\ MaxPdFailures \in Nat

Asked == PdDomains \cup {NoDomain}
PanelConfig == [domain : PdDomains, tls : BOOLEAN]
NoConfig == [domain |-> NoDomain, tls |-> FALSE]

VARIABLES
  available, enabled,  \* the panel's file among the available ones, and its link
  issued,              \* the domains certbot has a certificate for
  stored,              \* the setting panel_custom_domain
  urlLive, urlFile,    \* APP_BASE_URL in the process and in its environment file, by domain
  owned,               \* the domains of platforms
  sick,                \* would nginx refuse the files of others?
  save,                \* the request that runs, with the files to bring back
  pdFailures,
  unclean              \* ghost: has a request since the last whole one left things apart?

pdVars == <<available, enabled, issued, stored, urlLive, urlFile, owned, sick, save, pdFailures,
            unclean>>

NoSave == [pc |-> "idle", domain |-> NoDomain, configured |-> FALSE,
           available |-> NoConfig, enabled |-> FALSE]
Saves == [pc : {"idle", "plain", "cert", "tls", "remove", "url", "store"}, domain : Asked,
          configured : BOOLEAN, available : PanelConfig \cup {NoConfig}, enabled : BOOLEAN]

PdFaults(n) == pdFailures + n <= MaxPdFailures /\ pdFailures' = pdFailures + n
PdFault == PdFaults(1)
PdWorks == UNCHANGED pdFailures
PdGoes(pc) == save' = [save EXCEPT !.pc = pc]
PdEnds(clean) == save' = NoSave /\ unclean' = (unclean \/ ~clean)
PdFiles == UNCHANGED <<available, enabled>>
\* validatePanelDomain and FindDomainOwner: what Configure refuses before it touches anything.
AcceptsDomain(d) == d \in PdDomains /\ d \notin owned
PdUrls == UNCHANGED <<stored, urlLive, urlFile>>
PdHost == UNCHANGED <<issued, owned, sick>>

-----------------------------------------------------------------------------
\* A save of the general settings configures the domain whenever there is or was one; a domain
\* of a platform is refused, one a platform takes later is not looked for.  When the setting
\* cannot be read there was none.
UpdateGeneral(d) ==
  /\ save.pc = "idle"
  /\ d = NoDomain \/ AcceptsDomain(d)
  /\ \E existing \in {stored, NoDomain} :
       /\ existing # stored => PdFault
       /\ existing = stored => PdWorks
       /\ LET configured == d # NoDomain \/ existing # NoDomain IN
          save' = [pc |-> IF ~configured THEN "store"
                          ELSE IF d = NoDomain THEN "remove" ELSE "plain",
                   domain |-> d, configured |-> configured,
                   available |-> available, enabled |-> enabled]
  /\ PdFiles /\ PdUrls /\ PdHost /\ UNCHANGED unclean

\* Update with the key panel_custom_domain: the row and nothing else, whatever runs.
UpdateSetting(d) ==
  /\ stored' = d /\ unclean' = (unclean \/ d # stored)
  /\ UNCHANGED <<urlLive, urlFile, save>> /\ PdFiles /\ PdHost /\ PdWorks

\* enableConfig: the link of the panel's file, made unless it is there.
LinkMade == enabled' = TRUE

\* writeAndReload: a file nginx refuses is replaced by the one before it, if there was one that
\* could be read and the write works; the link stays.
TakenBack == IF available = NoConfig THEN [domain |-> save.domain, tls |-> FALSE] ELSE available
WritePlain ==
  /\ save.pc = "plain"
  /\ \/ /\ ~sick /\ PdWorks
        /\ available' = [domain |-> save.domain, tls |-> FALSE] /\ LinkMade
        /\ PdGoes("cert") /\ UNCHANGED unclean
     \/ /\ sick /\ PdWorks
        /\ available' = TakenBack /\ LinkMade
        /\ PdEnds(available # NoConfig /\ enabled)
     \/ PdFault /\ PdFiles /\ PdEnds(TRUE)          \* the file cannot be written
     \/ /\ PdFault /\ PdEnds(FALSE)     \* the link, nginx -t, the write back or the reload
        /\ available' \in {[domain |-> save.domain, tls |-> FALSE], TakenBack}
        /\ enabled' \in {enabled, TRUE}
  /\ PdUrls /\ PdHost

\* restorePoint, after n failures: the files of the start, unless one of its own steps fails,
\* or the reading at the start did; no error of them is looked at.
Restore(n, left, clean) ==
  \/ /\ PdFaults(n) /\ PdEnds(clean)
     /\ available' = save.available /\ enabled' = save.enabled
  \/ /\ PdFaults(n + 1) /\ PdEnds(FALSE)
     /\ available' \in {left, available, save.available, NoConfig}
     /\ enabled' \in {enabled, save.enabled, FALSE}

\* preflightHTTPChallenge: a token is served over HTTP by the plain configuration.
Answered == available = [domain |-> save.domain, tls |-> FALSE] /\ enabled

\* certbot runs unless the certificate is there, and only when the challenge is answered.
IssuePanelCertificate ==
  /\ save.pc = "cert"
  /\ \/ /\ save.domain \in issued \/ Answered
        /\ issued' = issued \cup {save.domain}
        /\ PdGoes("tls") /\ PdFiles /\ PdWorks /\ UNCHANGED unclean
     \/ save.domain \notin issued /\ UNCHANGED issued /\ Restore(1, available, TRUE)
  /\ PdUrls /\ UNCHANGED <<owned, sick>>

\* A mutant: the files stay as the failure left them.
TlsUnrestored ==
  /\ save.pc = "tls"
  /\ \/ /\ ~sick /\ PdWorks
        /\ available' = [domain |-> save.domain, tls |-> TRUE] /\ LinkMade
        /\ PdGoes("url") /\ UNCHANGED unclean
     \/ sick /\ PdWorks /\ PdFiles /\ PdEnds(TRUE)
  /\ PdUrls /\ PdHost

WriteTls ==
  /\ save.pc = "tls"
  /\ \/ /\ ~sick /\ PdWorks
        /\ available' = [domain |-> save.domain, tls |-> TRUE] /\ LinkMade
        /\ PdGoes("url") /\ UNCHANGED unclean
     \/ Restore(IF sick THEN 0 ELSE 1, [domain |-> save.domain, tls |-> TRUE], TRUE)
  /\ PdUrls /\ PdHost

\* The files go first; an error leaves them gone.
Remove ==
  /\ save.pc = "remove"
  /\ \/ /\ ~sick /\ PdWorks /\ available' = NoConfig /\ enabled' = FALSE
        /\ PdGoes("url") /\ UNCHANGED unclean
     \/ /\ sick /\ PdWorks /\ available' = NoConfig /\ enabled' = FALSE /\ PdEnds(FALSE)
     \/ /\ PdFault /\ PdEnds(FALSE)
        /\ available' \in {available, NoConfig} /\ enabled' \in {enabled, FALSE}
  /\ PdUrls /\ PdHost

\* The process first, its file after; only the files of nginx are brought back.
UpdateBaseURL ==
  /\ save.pc = "url" /\ urlLive' = save.domain
  /\ \/ urlFile' = save.domain /\ PdGoes("store") /\ PdFiles /\ PdWorks /\ UNCHANGED unclean
     \/ /\ UNCHANGED urlFile
        /\ IF save.domain = NoDomain THEN PdFault /\ PdFiles /\ PdEnds(FALSE)
           ELSE Restore(1, available, FALSE)
  /\ UNCHANGED stored /\ PdHost

StoreDomain ==
  /\ save.pc = "store"
  /\ \/ /\ stored' = save.domain /\ PdWorks
        /\ save' = NoSave
        /\ unclean' = (~save.configured /\ (unclean \/ stored # save.domain))
     \/ PdFault /\ UNCHANGED stored /\ PdEnds(~save.configured)
  /\ UNCHANGED <<urlLive, urlFile>> /\ PdFiles /\ PdHost

-----------------------------------------------------------------------------
\* The panel dies and starts again from its environment file.
RestartPanel ==
  /\ save.pc # "idle" /\ PdFault
  /\ PdEnds(FALSE) /\ urlLive' = urlFile
  /\ UNCHANGED <<stored, urlFile>> /\ PdFiles /\ PdHost

PlatformTakes(d) ==
  /\ d \notin owned /\ owned' = owned \cup {d}
  /\ UNCHANGED <<issued, sick, save, unclean>> /\ PdFiles /\ PdUrls /\ PdWorks

OthersBreak ==
  /\ sick' = ~sick /\ IF sick THEN PdWorks ELSE PdFault
  /\ UNCHANGED <<issued, owned, save, unclean>> /\ PdFiles /\ PdUrls

PdInit ==
  /\ available = NoConfig /\ enabled = FALSE /\ issued = {}
  /\ stored = NoDomain /\ urlLive = NoDomain /\ urlFile = NoDomain
  /\ owned = {} /\ sick = FALSE /\ save = NoSave /\ pdFailures = 0 /\ unclean = FALSE
PdNext ==
  \/ \E d \in Asked : UpdateGeneral(d) \/ UpdateSetting(d) \/ (d # NoDomain /\ PlatformTakes(d))
  \/ WritePlain \/ IssuePanelCertificate \/ WriteTls \/ Remove \/ UpdateBaseURL \/ StoreDomain
  \/ RestartPanel \/ OthersBreak
PdSpec == PdInit /\ [][PdNext]_pdVars

-----------------------------------------------------------------------------
PdTypeOK ==
  /\ available \in PanelConfig \cup {NoConfig} /\ enabled \in BOOLEAN
  /\ issued \subseteq PdDomains /\ owned \subseteq PdDomains /\ sick \in BOOLEAN
  /\ stored \in Asked /\ urlLive \in Asked /\ urlFile \in Asked
  /\ save \in Saves /\ pdFailures \in 0..MaxPdFailures /\ unclean \in BOOLEAN

\* Between requests the setting, the base URL of the process and of its file, the file and the
\* link of nginx and the certificate are of one domain, whatever failed before: unless, since
\* the last configuration that came to its end, a request ended in a step the code does not
\* undo or could not, or wrote the setting without the rest of it.
PanelServed ==
  save.pc = "idle" /\ ~unclean =>
    /\ urlLive = stored /\ urlFile = stored
    /\ IF stored = NoDomain THEN available = NoConfig /\ ~enabled
       ELSE available = [domain |-> stored, tls |-> TRUE] /\ enabled /\ stored \in issued
=============================================================================

---------------------------- MODULE Certificates ----------------------------
(***************************************************************************)
(* The certificates of the platforms (src/internal/services/ssl_service.go, *)
(* its handlers, and what the nginx configuration of a platform refers to). *)
(*                                                                          *)
(* A certificate is a row and a pair of files, a key and a certificate: the *)
(* pair of certbot ("live") or the pair the panel keeps for the domain      *)
(* ("own").  Every import and every self-signed certificate inserts a row;  *)
(* all of them write the one own pair of the domain.  nginx loads nothing   *)
(* at all unless every pair its configuration names is there and matches.   *)
(***************************************************************************)
EXTENDS Integers, FiniteSets

CONSTANTS
  CertDomains,      \* the domains, numbered in the order they were added
  DomainSite,       \* the platform of each domain
  IssueModes,       \* what hosts are looked at: "certbot", "none" (not installed), "dryrun"
  MaxCerts,         \* bound on the rows made
  MaxPairs,         \* bound on the pairs issued or handed in
  MaxCertFailures   \* bound on failing commands, writes and table errors

CertSites == {DomainSite[d] : d \in CertDomains}
Places == {"own", "live"}
CertRow == [id : 1..MaxCerts, domain : CertDomains, place : Places \cup {"none"}]

ASSUME CertificatesAssumption ==
  /\ CertDomains \subseteq Nat /\ IsFiniteSet(CertDomains)
  /\ IssueModes \subseteq {"certbot", "none", "dryrun"}
  /\ MaxCerts \in Nat /\ MaxPairs \in Nat /\ MaxCertFailures \in Nat

VARIABLES
  issuing,     \* how the host issues certificates
  certs,       \* table ssl_certificates
  keyFile, certFile,  \* by domain, the own pair: the number of the pair each file is of, 0 if absent
  livePair,    \* by domain, the pair certbot keeps, 0 if none
  names,       \* by domain, the pair the enabled configuration names, or "plain"
  certJob,     \* the handler that runs
  pairs, certMade, certFailures,
  torn,        \* ghost: domains whose pair a failure, a bad import or a deletion of a twin spoilt
  behind       \* ghost: platforms whose last request did not get to its refresh, or got there
               \* and wrote its configuration without the certificates, which it could not list

certVars == <<issuing, certs, keyFile, certFile, livePair, names, certJob, pairs, certMade,
              certFailures, torn, behind>>

NoCertJob == [pc |-> "idle", todo |-> {}, row |-> 0, site |-> 0, pair |-> 0]
CertJobStates ==
  [pc : {"idle", "issue", "certbot", "upsert", "hook", "key", "cert", "openssl", "insert", "files",
         "row", "refresh"},
   todo : SUBSET CertDomains, row : 0..MaxCerts, site : CertSites \cup {0}, pair : 0..MaxPairs]

-----------------------------------------------------------------------------
(* What a configuration names.                                              *)

CertRowsOf(d) == {c \in certs : c.domain = d}
Newest(s) == CHOOSE c \in s : \A o \in s : o.id <= c.id
\* The repository lists the newest row first and the first active one of a domain is taken.
Named(rows, d) ==
  LET active == {c \in rows : c.domain = d /\ c.place # "none"}
  IN  IF active = {} THEN "plain" ELSE Newest(active).place

Loadable(place, d) ==
  CASE place = "plain" -> TRUE
    [] place = "own"   -> keyFile[d] # 0 /\ keyFile[d] = certFile[d]
    [] place = "live"  -> livePair[d] # 0
Rendered(s, rows) ==
  [d \in CertDomains |-> IF DomainSite[d] = s THEN Named(rows, d) ELSE names[d]]
NginxAccepts(conf) == \A d \in CertDomains : Loadable(conf[d], d)
Twins(c) == {o \in certs \ {c} : o.domain = c.domain /\ o.place = c.place}

CertFault == certFailures < MaxCertFailures /\ certFailures' = certFailures + 1
CertWorks == UNCHANGED certFailures
CertGoTo(pc) == certJob' = [certJob EXCEPT !.pc = pc]
CertEnd == certJob' = NoCertJob
\* The domain at work: the first of those left.
Current == CHOOSE d \in certJob.todo : \A e \in certJob.todo : d <= e
FilesKept == UNCHANGED <<keyFile, certFile, livePair>>
GhostsKept == UNCHANGED <<torn, behind>>
GiveUp == CertFault /\ CertEnd /\ behind' = behind \cup {certJob.site}
AddCert(d, place) ==
  /\ certMade < MaxCerts
  /\ certs' = certs \cup {[id |-> certMade + 1, domain |-> d, place |-> place]}
  /\ certMade' = certMade + 1
NextDomain ==
  LET left == certJob.todo \ {Current} IN
  certJob' = [certJob EXCEPT !.todo = left, !.pc = IF left = {} THEN "refresh" ELSE "issue"]

-----------------------------------------------------------------------------
(* Let's Encrypt: the platform page asks for all its domains, one after the *)
(* other, the page of an application for one, whosever it is.               *)

BeginIssue(s, ds) ==
  /\ certJob.pc = "idle"
  /\ certJob' = [NoCertJob EXCEPT !.pc = "issue", !.todo = ds, !.site = s]
  /\ UNCHANGED <<certs, names, pairs, certMade>> /\ FilesKept /\ GhostsKept /\ CertWorks
ManageSSLLetsEncrypt(s) == BeginIssue(s, {d \in CertDomains : DomainSite[d] = s})
AppSSLLetsEncrypt(s, d) == BeginIssue(s, {d})

\* The challenge is tried first, in the directory of the platform.
PreflightHTTPChallenge ==
  /\ certJob.pc = "issue" /\ issuing = "certbot"
  /\ \/ DomainSite[Current] = certJob.site /\ CertGoTo("certbot") /\ CertWorks /\ UNCHANGED behind
     \/ GiveUp
     \/ DomainSite[Current] # certJob.site /\ CertEnd /\ CertWorks /\ UNCHANGED behind
  /\ UNCHANGED <<certs, names, pairs, certMade, torn>> /\ FilesKept

\* certbot keeps a pair that is not due.  An error ends the request: the domains done stay
\* done, and the configuration is not written.
CreateForWebsite ==
  /\ certJob.pc = "certbot"
  /\ \/ /\ \/ pairs < MaxPairs /\ pairs' = pairs + 1
           \/ livePair[Current] # 0 /\ UNCHANGED pairs
        /\ livePair' = [livePair EXCEPT ![Current] = IF pairs' = pairs THEN @ ELSE pairs']
        /\ CertGoTo("upsert") /\ CertWorks /\ UNCHANGED behind
     \/ GiveUp /\ UNCHANGED <<livePair, pairs>>
  /\ UNCHANGED <<certs, keyFile, certFile, names, certMade, torn>>

\* The newest row of the domain, whatever it is of, becomes the row of the pair.  Errors of
\* the table are ignored: a list that cannot be read is empty, and a second row is made.
UpsertIssuedCert ==
  LET d == Current IN
  /\ certJob.pc = "upsert"
  /\ \/ CertRowsOf(d) # {} /\ CertWorks /\ UNCHANGED certMade
        /\ certs' = {IF c = Newest(CertRowsOf(d)) THEN [c EXCEPT !.place = "live"] ELSE c
                     : c \in certs}
     \/ CertRowsOf(d) = {} /\ CertWorks /\ AddCert(d, "live")
     \/ CertRowsOf(d) # {} /\ CertFault /\ AddCert(d, "live")
     \/ CertFault /\ UNCHANGED <<certs, certMade>>
  /\ NextDomain
  /\ UNCHANGED <<names, pairs>> /\ FilesKept /\ GhostsKept

\* Without certbot: a pending row, and the hook of the settings.
CreatePending ==
  /\ certJob.pc = "issue" /\ issuing = "none"
  /\ \/ AddCert(Current, "none") /\ CertGoTo("hook") /\ CertWorks /\ UNCHANGED behind
     \/ GiveUp /\ UNCHANGED <<certs, certMade>>
  /\ UNCHANGED <<names, pairs, torn>> /\ FilesKept

RunHook ==
  /\ certJob.pc = "hook"
  /\ \/ NextDomain /\ CertWorks /\ UNCHANGED behind
     \/ GiveUp
  /\ UNCHANGED <<certs, names, pairs, certMade, torn>> /\ FilesKept

\* In a dry run a self-signed pair takes the place of the issued one.
IssueDry ==
  /\ certJob.pc = "issue" /\ issuing = "dryrun" /\ pairs < MaxPairs
  /\ pairs' = pairs + 1
  /\ certJob' = [certJob EXCEPT !.pc = "openssl", !.pair = pairs']
  /\ UNCHANGED <<certs, names, certMade>> /\ FilesKept /\ GhostsKept /\ CertWorks

-----------------------------------------------------------------------------
(* A pair handed in, for any domain, or made by openssl, for the first      *)
(* domain of a platform or, on the page of an application, for any; then    *)
(* the row, then the refresh of the platform of the page.                   *)

BeginPair(d, s, pc) ==
  /\ certJob.pc = "idle" /\ pairs < MaxPairs
  /\ pairs' = pairs + 1
  /\ certJob' = [NoCertJob EXCEPT !.pc = pc, !.todo = {d}, !.site = s, !.pair = pairs']
  /\ UNCHANGED <<certs, names, certMade>> /\ FilesKept /\ GhostsKept /\ CertWorks
ManageSSLImport(d, s) == BeginPair(d, s, "key")
ManageSSLSelfSigned(s) ==
  LET own == {d \in CertDomains : DomainSite[d] = s} IN
  BeginPair(CHOOSE d \in own : \A e \in own : d <= e, s, "openssl")
AppSSLSelfSigned(d, s) == BeginPair(d, s, "openssl")

\* A write that fails may leave the file as it was or empty.
WriteKey ==
  LET d == Current IN
  /\ certJob.pc = "key"
  /\ \/ /\ keyFile' = [keyFile EXCEPT ![d] = certJob.pair]
        /\ CertGoTo("cert") /\ CertWorks /\ GhostsKept
     \/ /\ keyFile' \in {keyFile, [keyFile EXCEPT ![d] = 0]}
        /\ torn' = torn \cup {d} /\ GiveUp
  /\ UNCHANGED <<certs, certFile, livePair, names, pairs, certMade>>

\* Nothing compares an imported certificate with its key.
WriteCert ==
  LET d == Current IN
  /\ certJob.pc = "cert"
  /\ \/ /\ certFile' = [certFile EXCEPT ![d] = certJob.pair]
        /\ CertGoTo("insert") /\ CertWorks /\ GhostsKept
     \/ /\ certFile' = [certFile EXCEPT ![d] = 0] \* a certificate of another key
        /\ torn' = torn \cup {d} /\ CertGoTo("insert") /\ CertFault /\ UNCHANGED behind
     \/ /\ certFile' \in {certFile, [certFile EXCEPT ![d] = 0]}
        /\ torn' = torn \cup {d} /\ GiveUp
  /\ UNCHANGED <<certs, keyFile, livePair, names, pairs, certMade>>

\* openssl writes over the pair as well, the key first.
CreateSelfSigned ==
  LET d == Current IN
  /\ certJob.pc = "openssl"
  /\ \/ /\ keyFile' = [keyFile EXCEPT ![d] = certJob.pair]
        /\ certFile' = [certFile EXCEPT ![d] = certJob.pair]
        /\ CertGoTo("insert") /\ CertWorks /\ GhostsKept
     \/ /\ keyFile' \in {keyFile, [keyFile EXCEPT ![d] = certJob.pair]}
        /\ UNCHANGED certFile
        /\ torn' = torn \cup {d} /\ GiveUp
  /\ UNCHANGED <<certs, livePair, names, pairs, certMade>>

InsertCert ==
  /\ certJob.pc = "insert"
  /\ \/ /\ AddCert(Current, "own") /\ NextDomain /\ CertWorks
        /\ behind' = behind \cup ({DomainSite[Current]} \ {certJob.site})
     \/ GiveUp /\ UNCHANGED <<certs, certMade>>
  /\ UNCHANGED <<names, pairs, torn>> /\ FilesKept

-----------------------------------------------------------------------------
(* Renewal and deletion, of a certificate of one of the platform's domains. *)

OfPlatform(s) == {c \in certs : DomainSite[c.domain] = s}

\* Neither the table's dates nor nginx learn of the new pair.
Renew(s, c) ==
  /\ certJob.pc = "idle" /\ c \in OfPlatform(s)
  /\ c.place = "live" /\ issuing = "certbot" /\ livePair[c.domain] # 0
  /\ pairs < MaxPairs /\ pairs' = pairs + 1
  /\ livePair' = [livePair EXCEPT ![c.domain] = pairs']
  /\ UNCHANGED <<certs, keyFile, certFile, names, certJob, certMade>> /\ GhostsKept /\ CertWorks

BeginDelete(s, c) ==
  /\ certJob.pc = "idle" /\ c \in OfPlatform(s)
  /\ certJob' = [NoCertJob EXCEPT !.pc = "files", !.todo = {c.domain}, !.row = c.id, !.site = s]
  /\ UNCHANGED <<certs, names, pairs, certMade>> /\ FilesKept /\ GhostsKept /\ CertWorks

\* The files go first, with every error ignored.
DeleteFiles ==
  LET c == CHOOSE c \in certs : c.id = certJob.row
      d == c.domain IN
  /\ certJob.pc = "files"
  /\ \/ /\ c.place = "own" /\ CertWorks /\ UNCHANGED livePair
        /\ keyFile' = [keyFile EXCEPT ![d] = 0] /\ certFile' = [certFile EXCEPT ![d] = 0]
     \/ /\ c.place = "live" /\ issuing = "certbot" /\ CertWorks /\ UNCHANGED <<keyFile, certFile>>
        /\ livePair' = [livePair EXCEPT ![d] = 0]
     \/ c.place = "none" /\ CertWorks /\ FilesKept
     \/ c.place # "none" /\ CertFault /\ FilesKept
  /\ torn' = IF c.place # "none" /\ Twins(c) # {} THEN torn \cup {d} ELSE torn
  /\ CertGoTo("row")
  /\ UNCHANGED <<certs, names, pairs, certMade, behind>>

\* A mutant: the configuration is left as it is.
DeleteUnserved ==
  LET c == CHOOSE c \in certs : c.id = certJob.row IN
  /\ certJob.pc = "row"
  /\ certs' = certs \ {c} /\ CertEnd /\ CertWorks /\ GhostsKept
  /\ UNCHANGED <<names, pairs, certMade>> /\ FilesKept

DeleteRow ==
  LET c == CHOOSE c \in certs : c.id = certJob.row IN
  /\ certJob.pc = "row"
  /\ \/ certs' = certs \ {c} /\ CertGoTo("refresh") /\ CertWorks /\ GhostsKept
     \/ GiveUp /\ UNCHANGED certs /\ torn' = torn \cup {c.domain}
  /\ UNCHANGED <<names, pairs, certMade>> /\ FilesKept

-----------------------------------------------------------------------------
(* The configuration of a platform is written, tested with all the others   *)
(* and taken back when the test fails; the handlers above ignore the error. *)
(* When the certificates cannot be listed it is written without them, and   *)
(* the platform is served without TLS until it is written again.            *)

WriteConfig(s) ==
  \E rows \in {certs, {}} :
    LET conf == Rendered(s, rows) IN
    /\ IF rows = certs THEN CertWorks ELSE CertFault
    /\ \/ /\ NginxAccepts(conf) /\ names' = conf /\ UNCHANGED torn
          /\ behind' = IF rows = certs THEN behind \ {s} ELSE behind \cup {s}
       \/ /\ ~NginxAccepts(conf) /\ UNCHANGED names /\ torn' = torn \cup certJob.todo
          /\ behind' = IF rows = certs /\ torn = {} THEN behind ELSE behind \cup {s}

RefreshConfig ==
  /\ certJob.pc = "refresh"
  /\ \/ WriteConfig(certJob.site) /\ CertEnd
     \/ GiveUp /\ UNCHANGED names /\ torn' = torn \cup certJob.todo
  /\ UNCHANGED <<certs, pairs, certMade>> /\ FilesKept

\* Any other change of a platform, by another request.
ChangePlatform(s) ==
  /\ WriteConfig(s)
  /\ UNCHANGED <<certs, pairs, certMade, certJob>> /\ FilesKept

-----------------------------------------------------------------------------
CertInit ==
  /\ issuing \in IssueModes
  /\ certs = {} /\ certJob = NoCertJob
  /\ keyFile = [d \in CertDomains |-> 0] /\ certFile = keyFile /\ livePair = keyFile
  /\ names = [d \in CertDomains |-> "plain"]
  /\ pairs = 0 /\ certMade = 0 /\ certFailures = 0
  /\ torn = {} /\ behind = {}

CertSteps ==
  \/ \E s \in CertSites :
       \/ ChangePlatform(s) \/ ManageSSLLetsEncrypt(s) \/ ManageSSLSelfSigned(s)
       \/ \E d \in CertDomains :
            AppSSLLetsEncrypt(s, d) \/ ManageSSLImport(d, s) \/ AppSSLSelfSigned(d, s)
       \/ \E c \in certs : Renew(s, c) \/ BeginDelete(s, c)
  \/ PreflightHTTPChallenge \/ CreateForWebsite \/ UpsertIssuedCert \/ CreatePending \/ RunHook
  \/ IssueDry \/ WriteKey \/ WriteCert \/ CreateSelfSigned \/ InsertCert
  \/ DeleteFiles \/ DeleteRow \/ RefreshConfig
CertNext == CertSteps /\ UNCHANGED issuing

CertSpec == CertInit /\ [][CertNext]_certVars

-----------------------------------------------------------------------------
CertTypeOK ==
  /\ issuing \in IssueModes
  /\ certs \subseteq CertRow
  /\ keyFile \in [CertDomains -> 0..MaxPairs] /\ certFile \in [CertDomains -> 0..MaxPairs]
  /\ livePair \in [CertDomains -> 0..MaxPairs]
  /\ names \in [CertDomains -> Places \cup {"plain"}]
  /\ certJob \in CertJobStates
  /\ pairs \in 0..MaxPairs /\ certMade \in 0..MaxCerts /\ certFailures \in 0..MaxCertFailures
  /\ torn \subseteq CertDomains /\ behind \subseteq CertSites

\* Once no request is at work on a domain, nginx can load the pair its configuration names,
\* unless a step failed, a certificate came with another key, or one of two certificates of
\* the domain was deleted; and while no pair is spoilt every platform whose requests got to
\* their refresh, with the certificates listed, names the pair of its newest active row.
CertsServed ==
  /\ \A d \in CertDomains \ (torn \cup certJob.todo) : Loadable(names[d], d)
  /\ certJob = NoCertJob /\ torn = {} =>
       \A d \in CertDomains : DomainSite[d] \in behind \/ names[d] = Named(certs, d)
=============================================================================

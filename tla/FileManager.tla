----------------------------- MODULE FileManager ----------------------------
(***************************************************************************)
(* The file manager of a platform (internal/handlers/elfinder_handler.go),  *)
(* on a tree of two levels: the root of the platform, and the directories   *)
(* in it.  Each command checks paths and names on the tree first and then   *)
(* changes it, as the user of the platform or, when there is none, as the   *)
(* panel; a paste does so for one source after the other.  A command of the *)
(* host that fails may have done part of its work, or all of it: a time-out *)
(* or the change of owner that follows is an error, too.                    *)
(***************************************************************************)
EXTENDS Integers, Sequences, FiniteSets

CONSTANTS
  Names,          \* the names in the root
  DirNames,       \* those that directories may have
  LeafNames,      \* the names in a directory
  Numbered,       \* by name, the names nextAvailablePath tries after it: "name(1)", ...
  Unpacked,       \* by name of an archive, the directories uniqueExtractDir tries
  Clients,        \* the requests that may run
  HomeDirs,       \* the directories a platform is made with
  HomeFiles,      \* the files in them: its logs, empty
  FmOverlapping,  \* may two of them run at a time?
  MaxData,        \* bound on the contents written
  MaxFmSteps,     \* bound on the commands
  MaxFmFailures   \* bound on failing commands of the host

ASSUME FmAssumption ==
  /\ DirNames \subseteq Names /\ LeafNames \subseteq Names /\ Names \subseteq Nat \ {0}
  /\ HomeDirs \subseteq DirNames /\ HomeFiles \subseteq HomeDirs \X LeafNames
  /\ FmOverlapping \in BOOLEAN
  /\ \A n \in DOMAIN Unpacked : \A i \in DOMAIN Unpacked[n] : Unpacked[n][i] \in DirNames
  /\ MaxData \in Nat /\ MaxFmSteps \in Nat /\ MaxFmFailures \in Nat

\* 0: the root; otherwise the directory of that name in it.
Paths == ({0} \X Names) \cup (DirNames \X LeafNames)
Data == 0..MaxData                     \* 0: an empty file, or one cut short
\* An entry of an archive: of a file beside it, elsewhere above ("../x"), or below ("d/x").
Entry == [name : Names, data : Data, from : {"beside", "above", "below"}]
Absent == [kind |-> "none", data |-> 0, holds |-> {}]
Directory == [kind |-> "dir", data |-> 0, holds |-> {}]
File(c) == [kind |-> "file", data |-> c, holds |-> {}]

VARIABLES
  at,         \* what is at each path
  asUser,     \* do commands run as the user of the platform (canRunAsSiteUser)?
  client,     \* by client, the paste it runs
  written, fmSteps, fmFailures,
  last        \* ghost: the command of the last step, with what it said

fmVars == <<at, asUser, client, written, fmSteps, fmFailures, last>>

NoPaste == [pc |-> "idle", cut |-> FALSE, left |-> <<>>, into |-> 0, to |-> 0]
Is(p, kind) == at[p].kind = kind
There(p) == at[p] # Absent
Place(d) == d # 0 => Is(<<0, d>>, "dir")
Child(d, x) == x[1] = d
\* What is in p.
Within(p) == {x \in Paths : Is(p, "dir") /\ Child(p[2], x)}
FmWorks == UNCHANGED fmFailures
FmFault == fmFailures < MaxFmFailures /\ fmFailures' = fmFailures + 1
Did(op, ok) == last' = [op |-> op, ok |-> ok]
\* A command of one step, which no other runs beside unless they overlap.
Alone(c) == /\ client[c].pc = "idle" /\ fmSteps < MaxFmSteps /\ fmSteps' = fmSteps + 1
            /\ FmOverlapping \/ \A d \in Clients : client[d].pc = "idle"
            /\ UNCHANGED <<asUser, client>>
Fails(op) == FmFault /\ UNCHANGED <<at, written>> /\ Did(op, FALSE)

\* The tree when what is at p, with what is in it, goes to q or is copied there; of a copy
\* that breaks off the files `whole` are there, and `cutoff` without its data.
PlacedPart(p, q, gone, whole, cutoff) ==
  [x \in Paths |->
     CASE x = q -> IF Is(p, "dir") \/ p \in whole THEN at[p] ELSE File(0)
       [] x # q /\ Is(p, "dir") /\ Child(q[2], x) ->
            IF <<p[2], x[2]>> \in whole THEN at[<<p[2], x[2]>>]
            ELSE IF <<p[2], x[2]>> \in cutoff THEN File(0) ELSE at[x]
       [] x # q /\ x = p /\ gone -> Absent
       [] x # q /\ Is(p, "dir") /\ gone /\ Child(p[2], x) -> Absent
       [] OTHER -> at[x]]
Placed(p, q, gone) == PlacedPart(p, q, gone, {p} \cup Within(p), {})

\* mv into a directory, or onto a file, which is replaced; os.Rename does only the latter.
\* A directory is not moved onto anything, nor into another (the bound of two levels).
MoveTarget(p, q) ==
  IF Is(p, "dir") THEN {t \in {q} : ~There(t) /\ t \in {0} \X DirNames}
  ELSE IF ~Is(q, "dir") THEN {q}
  ELSE {t \in {<<q[2], p[2]>>} : asUser /\ t \in Paths}

-----------------------------------------------------------------------------
CmdMkdir(c, n) ==
  /\ Alone(c) /\ UNCHANGED written
  /\ \/ /\ ~There(<<0, n>>) /\ at' = [at EXCEPT ![<<0, n>>] = Directory]
        /\ \/ FmWorks /\ Did("mkdir", TRUE)
           \/ FmFault /\ Did("mkdir", FALSE)
     \/ There(<<0, n>>) /\ UNCHANGED at /\ FmWorks /\ Did("mkdir", Is(<<0, n>>, "dir"))
     \/ Fails("mkdir")

\* writeFileForSite: what was there is replaced, by mkfile with nothing; put wants it there.
\* A failing write leaves what was there, or has cut it short, or comes after the writing.
Write(c, p, op) ==
  /\ Alone(c) /\ Place(p[1]) /\ ~Is(p, "dir") /\ (op = "put" => There(p))
  /\ \/ /\ op = "mkfile" /\ UNCHANGED written /\ at' = [at EXCEPT ![p] = File(0)]
        /\ FmWorks /\ Did(op, TRUE)
     \/ /\ op \in {"put", "upload"} /\ written < MaxData /\ written' = written + 1
        /\ at' = [at EXCEPT ![p] = File(written')]
        /\ \/ FmWorks /\ Did(op, TRUE)
           \/ FmFault /\ Did(op, FALSE)
     \/ /\ FmFault /\ UNCHANGED written /\ at' = [at EXCEPT ![p] = File(0)] /\ Did(op, FALSE)
     \/ Fails(op)

CmdRename(c, p, n) ==
  /\ Alone(c) /\ There(p) /\ n # p[2] /\ <<p[1], n>> \in Paths /\ UNCHANGED written
  /\ \/ /\ \E q \in MoveTarget(p, <<p[1], n>>) : at' = Placed(p, q, TRUE)
        /\ \/ FmWorks /\ Did("rename", TRUE)
           \/ FmFault /\ Did("rename", FALSE)
     \/ /\ MoveTarget(p, <<p[1], n>>) = {} /\ UNCHANGED at
        /\ FmWorks /\ Did("rename", FALSE)
     \/ Fails("rename")

Without(gone) == [x \in Paths |-> IF x \in gone THEN Absent ELSE at[x]]
\* An error of rm is dropped, and some of what is in a directory may be gone.
CmdRm(c, p) ==
  /\ Alone(c) /\ There(p) /\ UNCHANGED written /\ Did("rm", TRUE)
  /\ \/ at' = Without({p} \cup Within(p)) /\ FmWorks
     \/ FmFault /\ \E some \in SUBSET Within(p) : at' = Without(some)

\* Where a file is, seen from an archive in d.
Seen(p, d) == IF p[1] = d THEN "beside" ELSE IF d = 0 THEN "below" ELSE "above"
\* A zip of files, beside the first of them: its file is made anew before they are read.
CmdArchive(c, sources, n) ==
  /\ Alone(c) /\ sources # <<>>
  /\ LET dest == <<sources[1][1], n>>
         read == {[name |-> p[2], data |-> at[p].data, from |-> Seen(p, dest[1])] :
                    p \in {sources[i] : i \in DOMAIN sources} \ {dest}} IN
     /\ dest \in Paths /\ \A i \in DOMAIN sources : Is(sources[i], "file")
     /\ \/ /\ ~Is(dest, "dir") /\ written < MaxData /\ written' = written + 1 /\ FmWorks
           /\ at' = [at EXCEPT ![dest] = [kind |-> "zip", data |-> written', holds |-> read]]
           /\ Did("archive", TRUE)
        \/ Is(dest, "dir") /\ UNCHANGED <<at, written>> /\ FmWorks /\ Did("archive", FALSE)
        \/ /\ FmFault /\ UNCHANGED written /\ at' \in {at, [at EXCEPT ![dest] = File(0)]}
           /\ ~Is(dest, "dir") /\ Did("archive", FALSE)

\* safeArchiveJoin: an entry that would leave the directory ends the extraction.
Joins(entry) == entry.from # "above"

\* The first of a row of names that is free where it is asked for.
FirstFree(d, row) ==
  {row[i] : i \in {j \in DOMAIN row : /\ <<d, row[j]>> \in Paths /\ ~There(<<d, row[j]>>)
                                      /\ \A k \in 1..(j - 1) : There(<<d, row[k]>>)}}

\* Does an extraction of the archive come to its end?
Extractable(n) == Is(<<0, n>>, "zip") /\ \A e \in at[<<0, n>>].holds : Joins(e)

\* Archives of the root; the directory is made before the archive is looked at, and what was
\* extracted before an error stays, the last file cut short.  The bound of two levels: no
\* entry is of a file below.
CmdExtract(c, n) ==
  /\ Alone(c) /\ n \in DOMAIN Unpacked /\ (Is(<<0, n>>, "zip") \/ Is(<<0, n>>, "file"))
  /\ \A e \in at[<<0, n>>].holds : e.name \in LeafNames /\ e.from # "below"
  /\ UNCHANGED written
  /\ \E d \in FirstFree(0, Unpacked[n]) :
       LET within == {e \in at[<<0, n>>].holds : Joins(e)} IN
       \/ \E out \in SUBSET within : \E cutoff \in {{}} \cup {{e} : e \in within \ out} :
            /\ at' = [x \in Paths |->
                        IF x = <<0, d>> THEN Directory
                        ELSE IF Child(d, x) /\ \E e \in out : e.name = x[2]
                        THEN File((CHOOSE e \in out : e.name = x[2]).data)
                        ELSE IF Child(d, x) /\ \E e \in cutoff : e.name = x[2] THEN File(0)
                        ELSE at[x]]
            /\ \/ Extractable(n) /\ out = within /\ FmWorks /\ Did("extract", TRUE)
               \/ ~Extractable(n) /\ cutoff = {} /\ FmWorks /\ Did("extract", FALSE)
               \/ FmFault /\ Did("extract", FALSE)
       \/ FmFault /\ UNCHANGED at /\ Did("extract", FALSE)

-----------------------------------------------------------------------------
Pastes(c, new) == client' = [client EXCEPT ![c] = new]
PasteKept == UNCHANGED <<asUser, written>>

\* The bound of two levels: a directory is pasted in the root only.
CmdPaste(c, cut, sources, d) ==
  /\ client[c].pc = "idle" /\ fmSteps < MaxFmSteps /\ fmSteps' = fmSteps + 1
  /\ FmOverlapping \/ \A e \in Clients : client[e].pc = "idle"
  /\ Place(d) /\ \A i \in DOMAIN sources :
       There(sources[i]) /\ (Is(sources[i], "dir") => d = 0) /\ <<d, sources[i][2]>> \in Paths
  /\ Pastes(c, [pc |-> "name", cut |-> cut, left |-> sources, into |-> d, to |-> 0])
  /\ UNCHANGED at /\ PasteKept /\ FmWorks /\ Did("paste", TRUE)

\* A mutant: the name of the source is taken.
SameNameTaken(c) == {client[c].left[1][2]}

\* nextAvailablePath: the name of the source, or the first of "name(1)", ... that is free.
AvailableNames(c) ==
  LET n == client[c].left[1][2] IN FirstFree(client[c].into, <<n>> \o Numbered[n])

\* After the last source the request ends.
NextSource(c) == IF Len(client[c].left) = 1 THEN NoPaste
           ELSE [client[c] EXCEPT !.pc = "name", !.left = Tail(@)]

\* A source that has gone is passed over.
ChooseName(c) ==
  /\ client[c].pc = "name"
  /\ LET there == There(client[c].left[1]) IN
     \/ ~there /\ Pastes(c, NextSource(c)) /\ Did("paste", TRUE)
     \/ /\ there /\ Did("paste", TRUE)
        /\ \E n \in AvailableNames(c) : Pastes(c, [client[c] EXCEPT !.pc = "put", !.to = n])
     \/ there /\ AvailableNames(c) = {} /\ Pastes(c, NoPaste) /\ Did("paste", FALSE)
  /\ UNCHANGED <<at, fmSteps>> /\ PasteKept /\ FmWorks

\* mv or cp for one source; an error ends the request, and what is done stays, of a copy that
\* breaks off what it has copied.
PastePath(c) ==
  /\ client[c].pc = "put"
  /\ LET p == client[c].left[1]
         targets == MoveTarget(p, <<client[c].into, client[c].to>>)
     IN
     \/ /\ There(p) /\ Place(client[c].into)
        /\ \E q \in targets : at' = Placed(p, q, client[c].cut)
        /\ \/ Pastes(c, NextSource(c)) /\ FmWorks /\ Did("paste", TRUE)
           \/ FmFault /\ Pastes(c, NoPaste) /\ Did("paste", FALSE)
     \/ /\ There(p) /\ Place(client[c].into) /\ ~client[c].cut
        /\ \E q \in targets, whole \in SUBSET Within(p) :
             \E cutoff \in {{}} \cup {{x} : x \in {y \in Within(p) \ whole : There(y)}} :
               at' = PlacedPart(p, q, FALSE, whole, cutoff)
        /\ FmFault /\ Pastes(c, NoPaste) /\ Did("paste", FALSE)
     \/ /\ ~There(p) \/ ~Place(client[c].into) \/ targets = {}
        /\ UNCHANGED at /\ Pastes(c, NoPaste) /\ FmWorks /\ Did("paste", FALSE)
     \/ FmFault /\ UNCHANGED at /\ Pastes(c, NoPaste) /\ Did("paste", FALSE)
  /\ UNCHANGED fmSteps /\ PasteKept

FmInit ==
  /\ at = [p \in Paths |-> IF p[1] = 0 /\ p[2] \in HomeDirs THEN Directory
                          ELSE IF p \in HomeFiles THEN File(0) ELSE Absent]
  /\ asUser \in BOOLEAN
  /\ client = [c \in Clients |-> NoPaste]
  /\ written = 0 /\ fmSteps = 0 /\ fmFailures = 0 /\ last = [op |-> "none", ok |-> TRUE]
Present == {p \in Paths : There(p)}
Sources == {<<p>> : p \in Present} \cup {s \in Present \X Present : s[1] # s[2]}
FmNext ==
  \E c \in Clients :
    \/ \E n \in DirNames : CmdMkdir(c, n)
    \/ \E n \in Names : CmdExtract(c, n)
    \/ \E p \in Paths, op \in {"mkfile", "put", "upload"} : Write(c, p, op)
    \/ \E p \in Present, n \in Names : CmdRename(c, p, n)
    \/ \E p \in Present : CmdRm(c, p)
    \/ \E s \in Sources, n \in Names : CmdArchive(c, s, n)
    \/ \E s \in Sources, d \in {0} \cup DirNames, cut \in BOOLEAN : CmdPaste(c, cut, s, d)
    \/ ChooseName(c) \/ PastePath(c)
FmSpec == FmInit /\ [][FmNext]_fmVars

-----------------------------------------------------------------------------
FmTypeOK ==
  /\ at \in [Paths -> [kind : {"none", "dir", "file", "zip"}, data : Data, holds : SUBSET Entry]]
  /\ asUser \in BOOLEAN
  /\ \A c \in Clients :
       /\ client[c].pc \in {"idle", "name", "put"} /\ client[c].cut \in BOOLEAN
       /\ Len(client[c].left) <= 2
       /\ client[c].into \in {0} \cup Names /\ client[c].to \in {0} \cup Names
  /\ written \in Data /\ fmSteps \in 0..MaxFmSteps /\ fmFailures \in 0..MaxFmFailures
  /\ last.ok \in BOOLEAN

\* A paste, an extraction and a new directory replace nothing, whether they succeed, stop
\* half-way or say they failed when they did not: what was at a path is there afterwards, or
\* is, whole, at a path where nothing was, and what is cut short is where nothing was; and an
\* extraction that says it succeeded made a directory with every file its archive was made of
\* (nextAvailablePath, cmdPaste, uniqueExtractDir, cmdExtract).
PathsKept ==
  [][/\ last'.op \in {"paste", "extract", "mkdir"} =>
          \A p \in Paths : There(p) =>
            at'[p] = at[p] \/ \E q \in Paths : ~There(q) /\ at'[q] = at[p]
     /\ last' = [op |-> "extract", ok |-> TRUE] /\ at' # at =>
          \E n, d \in Names :
            /\ Is(<<0, n>>, "zip") /\ ~There(<<0, d>>) /\ at'[<<0, d>>] = Directory
            /\ {x[2] : x \in {x \in Paths : Child(d, x) /\ at'[x] # Absent}}
                 = {e.name : e \in at[<<0, n>>].holds}]_fmVars
=============================================================================

---------------------------- MODULE ScpTransfer -----------------------------
(***************************************************************************)
(* The SCP protocol of the restricted shell of site users (serveSCP in      *)
(* src/internal/restrictedtransfer/transfer.go): sendSCP at the end that    *)
(* has the files, receiveSCP at the end that wants them, as when a user     *)
(* copies between two hosts of the panel.  Lines and data flow one way,     *)
(* acknowledgements the other, and each end stops reading only when it      *)
(* returns.                                                                 *)
(***************************************************************************)
EXTENDS Integers, Sequences

CONSTANTS
  Nodes,          \* the files and directories that may be sent
  Directories,
  Children,       \* by directory, its entries in order
  ScpRoots,       \* what a user asks for
  MaxDepth,       \* how deep the directories are
  MaxScpFailures  \* bound on failing calls of the file systems and cuts of the connection

\* The names on the way to an entry, from a directory above it or from itself.
IsRoute(p) ==
  \A i \in 1..Len(p)-1 : /\ p[i] \in Directories
                        /\ \E j \in 1..Len(Children[p[i]]) : Children[p[i]][j] = p[i+1]
Routes == UNION {{p \in [1..k -> Nodes] : IsRoute(p)} : k \in 1..MaxDepth}
Name(p) == p[Len(p)]
IsDirectory(p) == Name(p) \in Directories
\* q is p, or below it.
Under(p, q) == Len(p) <= Len(q) /\ \A i \in 1..Len(p) : q[i] = p[i]

ASSUME ScpAssumption ==
  /\ Directories \subseteq Nodes /\ ScpRoots \subseteq Nodes
  /\ Children \in [Directories -> Seq(Nodes)]
  /\ MaxDepth \in Nat \ {0} /\ \A p \in [1..MaxDepth+1 -> Nodes] : ~IsRoute(p)
  /\ MaxScpFailures \in Nat

VARIABLES
  asked,     \* the request: its root and the options both ends are given
  sender, receiver,
  lines,     \* from the sender
  acks,      \* from the receiver
  cut,       \* has the connection broken?
  landed,    \* what is at the receiver, by path
  timed,     \* the paths that were given the times of the source
  scpFailures

scpVars == <<asked, sender, receiver, lines, acks, cut, landed, timed, scpFailures>>

\* A step of the sender's walk: an entry to send, or the end of a directory.
Enter(p) == [route |-> p, ends |-> FALSE]
Leave(p) == [route |-> p, ends |-> TRUE]
\* A call of receiveSCPEntries.
Frame(path, intoDir) == [path |-> path, intoDir |-> intoDir, received |-> FALSE, times |-> FALSE]
Line(kind, n) == [kind |-> kind, node |-> n]

Ended(end) == end.pc \in {"done", "failed"}
ScpFault == scpFailures < MaxScpFailures /\ scpFailures' = scpFailures + 1
ScpWorks == UNCHANGED scpFailures

-----------------------------------------------------------------------------
(* The sender.                                                              *)

SenderGoes(pc, after, walk) == sender' = [pc |-> pc, after |-> after, walk |-> walk]
SenderFails == sender' = [sender EXCEPT !.pc = "failed"] /\ UNCHANGED <<lines, acks>>
Says(line) == lines' = Append(lines, line) /\ UNCHANGED acks
ReceiverSide == UNCHANGED <<receiver, landed, timed>>

\* What a 0 byte, an error or the end of the input does to the end that waits for it.
ReadAck ==
  /\ sender.pc = "ack"
  /\ \/ /\ acks # <<>> /\ Head(acks)
        /\ acks' = Tail(acks) /\ UNCHANGED lines
        /\ SenderGoes(IF sender.after = "entry" /\ sender.walk = <<>> THEN "done" ELSE sender.after,
                      "", sender.walk)
     \/ acks # <<>> /\ ~Head(acks) /\ SenderFails
     \/ acks = <<>> /\ (Ended(receiver) \/ cut) /\ SenderFails
  /\ ScpWorks /\ ReceiverSide /\ UNCHANGED <<asked, cut>>

\* The file asked for cannot be looked at: the receiver is told.
SendScpRefused ==
  /\ sender.pc = "entry" /\ sender.walk = <<Enter(<<asked.root>>)>>
  /\ ScpFault /\ Says(Line("error", asked.root))
  /\ sender' = [sender EXCEPT !.pc = "failed"]
  /\ ReceiverSide /\ UNCHANGED <<asked, cut>>

SendTimes ==
  /\ sender.pc = "entry" /\ asked.preserve /\ ~Head(sender.walk).ends
  /\ Says(Line("T", Name(Head(sender.walk).route)))
  /\ SenderGoes("ack", "header", sender.walk)
  /\ ScpWorks /\ ReceiverSide /\ UNCHANGED <<asked, cut>>

HeaderDue ==
  /\ sender.pc = (IF asked.preserve THEN "header" ELSE "entry")
  /\ ~Head(sender.walk).ends

EntriesOf(p) == [i \in 1..Len(Children[Name(p)]) |-> Enter(Append(p, Children[Name(p)][i]))]
\* A directory is announced, its entries follow, then its end.
SendDirectory ==
  LET p == Head(sender.walk).route IN
  /\ HeaderDue /\ IsDirectory(p)
  /\ \/ /\ asked.recursive /\ ScpWorks
        /\ Says(Line("D", Name(p)))
        /\ SenderGoes("ack", "entry", EntriesOf(p) \o <<Leave(p)>> \o Tail(sender.walk))
     \/ ~asked.recursive /\ ScpWorks /\ SenderFails
  /\ ReceiverSide /\ UNCHANGED <<asked, cut>>

SendFile ==
  LET p == Head(sender.walk).route IN
  /\ HeaderDue /\ ~IsDirectory(p)
  /\ Says(Line("C", Name(p))) /\ SenderGoes("ack", "data", sender.walk)
  /\ ScpWorks /\ ReceiverSide /\ UNCHANGED <<asked, cut>>

\* As many bytes as announced, and a 0.
SendData ==
  /\ sender.pc = "data"
  /\ Says(Line("data", Name(Head(sender.walk).route)))
  /\ SenderGoes("ack", "entry", Tail(sender.walk))
  /\ ScpWorks /\ ReceiverSide /\ UNCHANGED <<asked, cut>>

SendEnd ==
  /\ sender.pc = "entry" /\ Head(sender.walk).ends
  /\ Says(Line("E", Name(Head(sender.walk).route)))
  /\ SenderGoes("ack", "entry", Tail(sender.walk))
  /\ ScpWorks /\ ReceiverSide /\ UNCHANGED <<asked, cut>>

\* A directory, an entry or a file that cannot be read, or a file that became shorter: the
\* sender returns, and says nothing.
SendFails ==
  /\ sender.pc \in {"entry", "header", "data"}
  /\ ScpFault /\ SenderFails
  /\ ReceiverSide /\ UNCHANGED <<asked, cut>>

-----------------------------------------------------------------------------
(* The receiver.                                                            *)

Top == Head(receiver.calls)
ReceiverGoes(pc, calls) == receiver' = [pc |-> pc, calls |-> calls]
ReceiverFails == receiver' = [receiver EXCEPT !.pc = "failed"]
Takes == lines' = Tail(lines)
Acks(ok) == acks' = Append(acks, ok)
SenderSide == UNCHANGED <<asked, sender, cut>>
FsKept == UNCHANGED <<landed, timed>>
\* The first entry for a target that is no directory becomes the target.
Destination(n) == IF Top.intoDir \/ Top.received THEN Append(Top.path, n) ELSE Top.path
\* A call goes on after an entry of a directory, and returns after its only entry otherwise.
EntryDone(calls) ==
  LET top == [Head(calls) EXCEPT !.received = TRUE, !.times = FALSE] IN
  ReceiverGoes(IF top.intoDir THEN "line" ELSE "done", <<top>> \o Tail(calls))
SetTimes(path) ==
  timed' = IF Top.times THEN timed \cup {path} ELSE timed

ReceiveScp ==
  /\ receiver.pc = "hello"
  /\ IF asked.mustBeDir /\ ~asked.intoDir
     THEN Acks(FALSE) /\ ReceiverFails
     ELSE Acks(TRUE) /\ ReceiverGoes("line", <<Frame(<<>>, asked.intoDir)>>)
  /\ UNCHANGED lines /\ FsKept /\ ScpWorks /\ SenderSide

NextLine(kind) == receiver.pc = "line" /\ lines # <<>> /\ Head(lines).kind = kind

\* A mutant: the times are taken without an answer.
TimesUnanswered ==
  /\ NextLine("T") /\ Takes /\ UNCHANGED acks
  /\ ReceiverGoes("line", <<[Top EXCEPT !.times = TRUE]>> \o Tail(receiver.calls))
  /\ FsKept /\ ScpWorks /\ SenderSide

ReadTimes ==
  /\ NextLine("T") /\ Takes /\ Acks(TRUE)
  /\ ReceiverGoes("line", <<[Top EXCEPT !.times = TRUE]>> \o Tail(receiver.calls))
  /\ FsKept /\ ScpWorks /\ SenderSide

ReadDirectory ==
  LET path == Destination(Head(lines).node) IN
  /\ NextLine("D") /\ Takes
  /\ \/ /\ asked.recursive /\ ScpWorks
        /\ landed' = [p \in DOMAIN landed \cup {path} |-> IF p = path THEN "dir" ELSE landed[p]]
        /\ Acks(TRUE) /\ ReceiverGoes("line", <<Frame(path, TRUE)>> \o receiver.calls)
     \/ /\ ~asked.recursive /\ ScpWorks
        /\ Acks(FALSE) /\ ReceiverFails /\ UNCHANGED landed
     \/ ScpFault /\ Acks(FALSE) /\ ReceiverFails /\ UNCHANGED landed
  /\ UNCHANGED timed /\ SenderSide

\* The file is emptied before its data is asked for.
ReadFile ==
  LET path == Destination(Head(lines).node) IN
  /\ NextLine("C") /\ Takes
  /\ \/ /\ landed' = [p \in DOMAIN landed \cup {path} |-> IF p = path THEN "empty" ELSE landed[p]]
        /\ Acks(TRUE) /\ ReceiverGoes("data", receiver.calls) /\ ScpWorks
     \/ ScpFault /\ Acks(FALSE) /\ ReceiverFails /\ UNCHANGED landed
  /\ UNCHANGED timed /\ SenderSide

ReadData ==
  LET path == Destination(Head(lines).node) IN
  /\ receiver.pc = "data" /\ lines # <<>> /\ Takes
  /\ \/ /\ landed' = [landed EXCEPT ![path] = "whole"]
        /\ SetTimes(path) /\ Acks(TRUE) /\ EntryDone(receiver.calls) /\ ScpWorks
     \/ ScpFault /\ ReceiverFails /\ FsKept /\ UNCHANGED acks
  /\ SenderSide

\* A mutant: the call of the directory goes on.
EndUnread ==
  /\ NextLine("E") /\ Takes /\ Acks(TRUE)
  /\ ReceiverGoes("line", receiver.calls)
  /\ FsKept /\ ScpWorks /\ SenderSide

\* The end of a directory: the call that opened it sets its times.
ReadEnd ==
  /\ NextLine("E") /\ Takes /\ Acks(TRUE)
  /\ IF Len(receiver.calls) = 1
     THEN ReceiverGoes("done", receiver.calls) /\ FsKept
     ELSE /\ EntryDone(Tail(receiver.calls))
          /\ timed' = IF receiver.calls[2].times THEN timed \cup {Top.path} ELSE timed
          /\ UNCHANGED landed
  /\ ScpWorks /\ SenderSide

ReadError ==
  /\ NextLine("error") /\ Takes /\ ReceiverFails
  /\ FsKept /\ UNCHANGED acks /\ ScpWorks /\ SenderSide

\* After an entry the end of the input is the end of the transfer, in a directory as well.
EndOfInput ==
  /\ receiver.pc \in {"line", "data"} /\ lines = <<>> /\ (Ended(sender) \/ cut)
  /\ IF receiver.pc = "line" /\ Top.received
     THEN ReceiverGoes("done", receiver.calls)
     ELSE ReceiverFails
  /\ FsKept /\ UNCHANGED <<lines, acks>> /\ ScpWorks /\ SenderSide

\* What is on its way is lost.
Cut ==
  /\ ~cut /\ ~(Ended(sender) /\ Ended(receiver)) /\ ScpFault
  /\ cut' = TRUE /\ lines' = <<>> /\ acks' = <<>>
  /\ UNCHANGED <<asked, sender, receiver>> /\ FsKept

-----------------------------------------------------------------------------
Requests ==
  [root : ScpRoots, recursive : BOOLEAN, preserve : BOOLEAN, mustBeDir : BOOLEAN, intoDir : BOOLEAN]

ScpInit ==
  /\ asked \in Requests
  /\ sender = [pc |-> "ack", after |-> "entry", walk |-> <<Enter(<<asked.root>>)>>]
  /\ receiver = [pc |-> "hello", calls |-> <<>>]
  /\ lines = <<>> /\ acks = <<>> /\ cut = FALSE
  /\ landed = <<>> /\ timed = {} /\ scpFailures = 0

ScpSend ==
  \/ ReadAck \/ SendScpRefused \/ SendTimes \/ SendDirectory \/ SendFile \/ SendData \/ SendEnd
  \/ SendFails
ScpReceive ==
  \/ ReceiveScp \/ ReadTimes \/ ReadDirectory \/ ReadFile \/ ReadData \/ ReadEnd \/ ReadError
  \/ EndOfInput
ScpNext == ScpSend \/ ScpReceive \/ Cut

\* Each end is a process that runs whenever it can.
ScpFairness == WF_scpVars(ScpSend) /\ WF_scpVars(ScpReceive)
ScpSpec == ScpInit /\ [][ScpNext]_scpVars /\ ScpFairness

-----------------------------------------------------------------------------
ScpTypeOK ==
  /\ asked \in Requests
  /\ sender.pc \in {"ack", "entry", "header", "data", "done", "failed"}
  /\ receiver.pc \in {"hello", "line", "data", "done", "failed"}
  /\ \A i \in 1..Len(lines) : lines[i].node \in Nodes
  /\ cut \in BOOLEAN /\ scpFailures \in 0..MaxScpFailures
  /\ \A p \in DOMAIN landed : landed[p] \in {"dir", "empty", "whole"}
  /\ timed \subseteq DOMAIN landed

Wanted == {p \in Routes : p[1] = asked.root}
Landing(p) == IF asked.intoDir THEN p ELSE Tail(p)
AheadIn(walk) ==
  {q \in Wanted : \E i \in 1..Len(walk) : ~walk[i].ends /\ Under(walk[i].route, q)}

\* Every file the sender has got past is whole where it belongs, with the times of its source
\* when they are preserved, and nothing else is at the receiver; a sender that succeeds has
\* got past everything, and so has a receiver that succeeds without a failure.
ScpFaithful ==
  /\ \A l \in DOMAIN landed : \E p \in Wanted : l = Landing(p)
  /\ sender.pc \in {"entry", "header", "data", "done"} =>
       \A p \in Wanted \ AheadIn(sender.walk) : ~IsDirectory(p) =>
         /\ Landing(p) \in DOMAIN landed /\ landed[Landing(p)] = "whole"
         /\ asked.preserve <=> Landing(p) \in timed
  /\ sender.pc = "done" \/ (receiver.pc = "done" /\ scpFailures = 0) =>
       \A p \in Wanted : Landing(p) \in DOMAIN landed /\ landed[Landing(p)] # "empty"

\* Neither end waits for the other for ever.
ScpEnds == <>(Ended(sender) /\ Ended(receiver))
=============================================================================

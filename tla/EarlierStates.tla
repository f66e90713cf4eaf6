---------------------------- MODULE EarlierStates ----------------------------
(***************************************************************************)
(* What backups promise an operator (readme.md:259): a platform, and *)
(* states it was in earlier.  A state that is kept never changes, an        *)
(* undisturbed one is the platform as it was when the backup began, and a   *)
(* restore keeps the state it replaces before it brings back another,       *)
(* one file or database at a time.  Files that are derived from the others  *)
(* are then made again.                                                     *)
(***************************************************************************)
CONSTANTS Files, Derived, Stores, Values, Torn, Rows, Contents, First, None

VARIABLES now,      \* the platform: a version of each file and database, or none
          meant,    \* what each backup is to hold, unless users change it meanwhile
          earlier,  \* the states that are kept
          chosen    \* the one that is being brought back

vars == <<now, meant, earlier, chosen>>

Init == /\ now = First /\ chosen = None
        /\ meant = [i \in Rows |-> None] /\ earlier = [i \in Rows |-> None]

\* Users change a file or a database, and what a backup under way was to hold with it.
Use ==
  /\ \E v \in Values :
       \/ \E k \in Files : now' = [now EXCEPT !.home[k] = v]
       \/ \E k \in Stores : now.data[k] # None /\ now' = [now EXCEPT !.data[k] = v]
  /\ \/ UNCHANGED meant
     \/ \E i \in Rows : earlier[i] = None /\ meant' = [meant EXCEPT ![i] = None]
  /\ UNCHANGED <<earlier, chosen>>

Begin ==
  /\ chosen = None
  /\ \E i \in Rows : /\ earlier[i] = None /\ meant[i] = None
                     /\ meant' = [meant EXCEPT ![i] = now]
  /\ UNCHANGED <<now, earlier, chosen>>

Kept(i) ==
  /\ earlier[i] = None
  /\ \E c \in Contents : /\ meant[i] # None => c = meant[i]
                         /\ earlier' = [earlier EXCEPT ![i] = c]
Keep ==
  /\ chosen = None /\ \E i \in Rows : Kept(i)
  /\ UNCHANGED <<now, meant, chosen>>

\* The state that is about to be replaced is kept, too.
Restore ==
  /\ chosen = None
  /\ \E i, j \in Rows : earlier[i] # None /\ Kept(j) /\ chosen' = i
  /\ UNCHANGED <<now, meant>>

\* What was made since stays, and a database that is gone does not come back.
BringBack ==
  /\ chosen # None
  /\ LET old == earlier[chosen]
     IN  \/ \E k \in Files : /\ old.home[k] # None
                             /\ now' = [now EXCEPT !.home[k] = old.home[k]]
         \/ \E k \in Stores : /\ old.data[k] # None /\ now.data[k] # None
                              /\ now' = [now EXCEPT !.data[k] = old.data[k]]
  /\ UNCHANGED <<meant, earlier, chosen>>

Remake ==
  /\ chosen # None
  /\ \E k \in Derived, v \in Values : now' = [now EXCEPT !.home[k] = v]
  /\ UNCHANGED <<meant, earlier, chosen>>

\* A restore ends, or breaks off in a file or a database of the state it brings back, or in
\* a file that is made again.
Stop ==
  /\ chosen # None /\ chosen' = None
  /\ LET old == earlier[chosen]
     IN  \/ UNCHANGED now
         \/ \E k \in Files : /\ k \in Derived \/ old.home[k] # None
                             /\ now' = [now EXCEPT !.home[k] = Torn]
         \/ \E k \in Stores : /\ old.data[k] # None /\ now.data[k] # None
                              /\ now' = [now EXCEPT !.data[k] = Torn]
  /\ UNCHANGED <<meant, earlier>>

Next == Use \/ Begin \/ Keep \/ Restore \/ BringBack \/ Remake \/ Stop
Spec == Init /\ [][Next]_vars
=============================================================================

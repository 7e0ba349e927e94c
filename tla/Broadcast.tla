----------------------------- MODULE Broadcast ------------------------------
(***************************************************************************)
(* What a host promises to its clients, whatever it writes to them: who    *)
(* comes is given the level; from then on its copy changes only at the end *)
(* of a frame, when every copy becomes the level, at once.  Nothing is     *)
(* said of events, buffers or entities.                                    *)
(***************************************************************************)
CONSTANT Clients

VARIABLES
    level,   \* what there is to see of the level
    copies   \* the copy of each client that is present

vars == <<level, copies>>

Init == DOMAIN copies = {}

\* The level changes, clients may leave, and nobody is told.
Change == \E stay \in SUBSET DOMAIN copies : copies' = [c \in stay |-> copies[c]]

\* A client is given the level as it was before it came, or with itself in it.
Come(c) ==
    /\ c \notin DOMAIN copies
    /\ \E given \in {level, level'} :
          copies' = [d \in DOMAIN copies \cup {c} |-> IF d = c THEN given ELSE copies[d]]

Publish ==
    /\ copies' = [c \in DOMAIN copies |-> level]
    /\ UNCHANGED level

Next == Change \/ (\E c \in Clients : Come(c)) \/ Publish

Spec == Init /\ [][Next]_vars
=============================================================================

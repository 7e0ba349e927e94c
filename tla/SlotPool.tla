------------------------------ MODULE SlotPool ------------------------------
(***************************************************************************)
(* What the slots of Level.ent promise to the logins of the host: a free   *)
(* slot is taken by one login, which returns it, occupies it with its      *)
(* player or abandons it, once; an occupied slot becomes free again when   *)
(* its player is removed.  Nothing is said of threads, locks or sockets.   *)
(***************************************************************************)
CONSTANTS Conns, Slots, Free, Taken, NoSlot

VARIABLES
    slot,    \* what each slot holds: Free, Taken or the player that occupies it
    holder,  \* the slot each login took
    stage    \* "none", "pending" (the login holds its slot) or "over"

vars == <<slot, holder, stage>>

Init ==
    /\ slot = [s \in Slots |-> Free]
    /\ holder = [c \in Conns |-> NoSlot]
    /\ stage = [c \in Conns |-> "none"]

Finish(c, what) ==
    /\ stage[c] = "pending" /\ stage' = [stage EXCEPT ![c] = "over"]
    /\ slot[holder[c]] = Taken /\ slot' = [slot EXCEPT ![holder[c]] = what]
    /\ UNCHANGED holder

Take(c) ==
    /\ stage[c] = "none" /\ stage' = [stage EXCEPT ![c] = "pending"]
    /\ \E s \in Slots :
          /\ slot[s] = Free /\ slot' = [slot EXCEPT ![s] = Taken]
          /\ holder' = [holder EXCEPT ![c] = s]

Return(c) == Finish(c, Free)
Occupy(c) == Finish(c, c)
Abandon(c) == Finish(c, Taken)

\* The login ends without ever having had a slot.
TurnedAway(c) ==
    /\ stage[c] = "none" /\ stage' = [stage EXCEPT ![c] = "over"]
    /\ UNCHANGED <<slot, holder>>

Vacate(s) ==
    /\ slot[s] \in Conns /\ slot' = [slot EXCEPT ![s] = Free]
    /\ UNCHANGED <<holder, stage>>

Next ==
    \/ \E c \in Conns : Take(c) \/ Return(c) \/ Occupy(c) \/ Abandon(c) \/ TurnedAway(c)
    \/ \E s \in Slots : Vacate(s)

Spec == Init /\ [][Next]_vars
=============================================================================

---------------------------- MODULE MCFrameStream ----------------------------
(* Small boards for FrameStream.                                           *)
EXTENDS FrameStream, TLC

MCInv == <<Null>>
MCSpawnAt == Pos(1, 0)

Board(walls, kinds, places, lefts) ==
    [index |-> [p \in Cells |-> IF \E s \in DOMAIN places : places[s] = p
                                 THEN CHOOSE s \in DOMAIN places : places[s] = p ELSE NoSlot],
     pos |-> [s \in Slots |-> IF s \in DOMAIN places THEN places[s] ELSE Pos(0, 0)],
     kind |-> [s \in Slots |-> IF s \in DOMAIN kinds THEN kinds[s] ELSE "none"],
     health |-> [s \in Slots |-> IF s \in DOMAIN kinds /\ kinds[s] = "dog" THEN MaxHealth ELSE 0],
     inv |-> [s \in Slots |-> IF s \in DOMAIN kinds /\ kinds[s] = "dog" THEN MCInv ELSE <<>>],
     left |-> [s \in Slots |-> IF s \in DOMAIN lefts THEN lefts[s] ELSE 0],
     tiles |-> [t \in 0..(Width * Height - 1) |-> IF t \in walls THEN Wall ELSE 0],
     buf |-> <<>>, fault |-> FALSE]

\* A dog and two items in a corridor along two edges of the board: one item
\* fills a stack only in part, the next does not fit whole.
Corridor == Board({4, 5, 6, 7, 8}, <<"dog", "item", "item">>,
                  <<Pos(2, 0), Pos(0, 0), Pos(0, 1)>>, <<0, 1, 2>>)

\* An empty level, walled to four tiles, in which two players may meet, push and
\* edit tiles, the walls included.
Meadow == Board({2, 5, 6, 7, 8}, <<>>, <<>>, <<>>)

MCScenes ==
    [level : {Corridor}, players : {{c} : c \in Clients}, edits : {0}]
        \cup {[level |-> Meadow, players |-> Clients, edits |-> 1]}

Symmetry == Permutations(Clients)
=============================================================================

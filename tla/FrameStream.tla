---------------------------- MODULE FrameStream -----------------------------
(***************************************************************************)
(* The level of the Java host and the copies its clients keep: joins and   *)
(* animation frames change the level under Server.Locker and describe each *)
(* change in Server.buf; the end of a frame sends the buffer to every      *)
(* listed player; Client.java applies it to the level it was given when it *)
(* joined.  What the threads do around the lock is HostSessions' subject.  *)
(***************************************************************************)
EXTENDS Movement

CONSTANTS
    Clients,      \* players that may join
    Scenes,       \* generated levels, with the players that come and their edits
    SpawnAt,      \* Level.spawnX, spawnY
    PlayerInv,    \* the empty inventory of a player (15 slots in the code)
    Weak,         \* below this health a dog moves by two tiles, 5 in the code
    MaxEdits      \* bound: tile edits in a behaviour

VARIABLES
    level,    \* the level of the host (Movement), with the events of this frame
    queue,    \* the slots the current frame still has to animate, in order
    inFrame,  \* the timer holds Locker
    eid,      \* ConnectedPlayer.EID of each client
    stage,    \* "out", "cleared" (saw the spawn free), "in", "gone"
    kicked,   \* Entity.data < 0
    view,     \* the level of each client, as Client.java maintains it
    edits     \* counts against MaxEdits

vars == <<level, queue, inFrame, eid, stage, kicked, view, edits>>

\* The client ran into an exception, exit(13), or has not joined, or has left.
Lost == [lost |-> TRUE]

\* The serialized entity: only an item has a quantity, and only an item sends no
\* health (the mutant serializes every entity like one).
SeenBare(L, s) ==
    [kind |-> L.kind[s], inv |-> L.inv[s], health |-> 0,
     left |-> IF L.kind[s] = "item" THEN L.left[s] ELSE 0]
Seen(L, s) ==
    LET item == L.kind[s] = "item"
    IN  [kind |-> L.kind[s], inv |-> L.inv[s], health |-> IF item THEN 0 ELSE L.health[s],
         left |-> IF item THEN L.left[s] ELSE 0]
Nobody == [kind |-> "none", inv |-> <<>>]

\* Level.serialize: the entities of the index and the tiles.
Snapshot(L) ==
    [lost |-> FALSE, tiles |-> L.tiles,
     ents |-> [p \in Cells |-> IF Occupied(L, p) THEN Seen(L, L.index[p]) ELSE Nobody]]

\* Where the index has an entity, the slot and the coordinates agree.
Agrees(L) ==
    \A p \in Cells : Occupied(L, p) => L.kind[L.index[p]] # "none" /\ L.pos[L.index[p]] = p

ASSUME SpawnOK == SpawnAt \in Cells /\ PlayerInv \in Inventory /\ MaxEdits \in Nat
ASSUME ScenesOK ==
    \A s \in Scenes :
        /\ s.level \in Levels /\ Agrees(s.level) /\ s.level.buf = <<>> /\ ~s.level.fault
        /\ s.players \subseteq Clients /\ s.edits \in 0..MaxEdits

Init ==
    /\ \E s \in Scenes :
          /\ level = s.level /\ edits = MaxEdits - s.edits
          /\ stage = [c \in Clients |-> IF c \in s.players THEN "out" ELSE "gone"]
    /\ queue = <<>> /\ inFrame = FALSE /\ eid = [c \in Clients |-> NoSlot]
    /\ kicked = [s \in Slots |-> FALSE]
    /\ view = [c \in Clients |-> Lost]

Idle == ~inFrame /\ ~level.fault

-----------------------------------------------------------------------------
(* ConnectedPlayer.serve: the spawn check without Locker, then the join      *)

CheckSpawn(c) ==
    /\ ~level.fault /\ stage[c] = "out"
    /\ stage' = [stage EXCEPT ![c] = IF Occupied(level, SpawnAt) THEN "gone"
                                                                 ELSE "cleared"]
    /\ UNCHANGED <<level, queue, inFrame, eid, kicked, view, edits>>

\* The slot was reserved when the connection was accepted; which one it is
\* makes no difference here.
Join(c) ==
    /\ Idle /\ stage[c] = "cleared"
    /\ \E s \in Slots :
          /\ level.kind[s] = "none" /\ \A t \in Slots : level.kind[t] = "none" => s <= t
          /\ LET placed == [level EXCEPT !.kind[s] = "player", !.pos[s] = SpawnAt,
                               !.inv[s] = PlayerInv, !.health[s] = MaxHealth,
                               !.index[SpawnAt] = s]
                 joined == Emit(placed, [op |-> "new", at |-> SpawnAt, ent |-> Seen(placed, s)])
             IN  level' = joined /\ view' = [view EXCEPT ![c] = Snapshot(joined)]
          /\ eid' = [eid EXCEPT ![c] = s]
          /\ kicked' = [kicked EXCEPT ![s] = FALSE]
    /\ stage' = [stage EXCEPT ![c] = "in"]
    /\ UNCHANGED <<queue, inFrame, edits>>

\* kick(): the entity is marked, the player leaves the list; its socket is closed,
\* and no copy of the level is kept for it.
Kick(c) ==
    /\ ~level.fault /\ stage[c] = "in"
    /\ kicked' = [kicked EXCEPT ![eid[c]] = TRUE]
    /\ stage' = [stage EXCEPT ![c] = "gone"] /\ view' = [view EXCEPT ![c] = Lost]
    /\ UNCHANGED <<level, queue, inFrame, eid, edits>>

-----------------------------------------------------------------------------
(* The animation frame                                                     *)

\* The keys of the index are ordered by x, then y.
Before(p, q) == p.x < q.x \/ (p.x = q.x /\ p.y < q.y)

Ordered(f) == \A i, j \in DOMAIN f : i < j => Before(f[i], f[j])

FrameStart ==
    /\ Idle /\ inFrame' = TRUE
    /\ LET keys == {p \in Cells : Occupied(level, p)}
       IN  \E f \in [1..Cardinality(keys) -> keys] :
              Ordered(f) /\ queue' = [i \in DOMAIN f |-> level.index[f[i]]]
    /\ UNCHANGED <<level, eid, stage, kicked, view, edits>>

\* The turn of slot s in the frame.
Turn(s, kind) ==
    /\ inFrame /\ ~level.fault /\ queue # <<>> /\ Head(queue) = s /\ level.kind[s] = kind
    /\ queue' = Tail(queue)
    /\ UNCHANGED <<inFrame, eid, stage, kicked, view>>

AnimateItem(s) ==
    /\ Turn(s, "item") /\ UNCHANGED edits
    /\ LET L == [level EXCEPT !.health[s] = 0]
       IN  level' = IF level.left[s] = 0 THEN Remove(L, s) ELSE L

\* A dog dies, or attempts a random step and may be healed by one.
AnimateDog(s) ==
    /\ Turn(s, "dog") /\ UNCHANGED edits
    /\ LET step == IF level.health[s] < Weak THEN 2 ELSE 1
       IN  IF level.health[s] < 1 THEN level' = Remove(level, s)
           ELSE \E dx, dy \in {-step, 0, step}, heals \in BOOLEAN :
                   LET L == MoveBy(level, s, dx, dy)
                   IN  level' = IF heals /\ L.health[s] < MaxHealth
                                THEN [L EXCEPT !.health[s] = @ + 1] ELSE L

\* The mutant does not.
SetTileSilently(L, t, v) ==
    IF t > LastTile THEN Fault(L) ELSE [L EXCEPT !.tiles[t] = v]

\* Setting one tile tells the clients; a tile outside the array is an exception.
SetTile(L, t, v) ==
    IF t > LastTile THEN Fault(L)
    ELSE Emit([L EXCEPT !.tiles[t] = v], [op |-> "tile", tile |-> t, val |-> v])

\* The tile under the player and its neighbours, in the order of the code.
ClearTile(L, t, there) == IF there THEN SetTile(L, t, 0) ELSE L

Dig(L, s) ==
    LET p == TileAt(L.pos[s])
        x == L.pos[s].x
        A == ClearTile(L, p - 1, x > 0)
        B == ClearTile(A, p + 1, x < Width - 1)
        C == ClearTile(B, p, TRUE)
        D == ClearTile(C, p - Width, p - Width >= 0)
    IN  ClearTile(D, p + Width, p + Width <= LastTile)

\* The next of the tiles a player can make (the mutant goes past the last).
NextUp(v, by) == v + by
NextTile(v, by) == (v + by) % Tiles

Cycle(L, s, by) ==
    LET p == TileAt(L.pos[s])
    IN  IF p > LastTile THEN Fault(L)
        ELSE SetTile(L, p, NextTile(L.tiles[p], by))

\* A kicked player is removed; another attempts the requested step, then, its
\* cooldown permitting, the requested changes of tiles.
AnimatePlayer(s) ==
    /\ Turn(s, "player")
    /\ IF kicked[s] THEN level' = Remove(level, s) /\ UNCHANGED edits
       ELSE \E dx, dy \in {-1, 0, 1}, digs, forward, back \in BOOLEAN :
               LET L0 == MoveBy(level, s, dx, dy)
                   L1 == IF digs THEN Dig(L0, s) ELSE L0
                   L2 == IF forward THEN Cycle(L1, s, 1) ELSE L1
                   L3 == IF back THEN Cycle(L2, s, Tiles - 1) ELSE L2
               IN  /\ (digs \/ forward \/ back) => edits < MaxEdits
                   /\ edits' = IF digs \/ forward \/ back THEN edits + 1 ELSE edits
                   /\ level' = IF L0.fault THEN L0 ELSE L3

-----------------------------------------------------------------------------
(* Client.java: the delta stream                                           *)

\* One event applied to a client's level; looking up an entity that is not
\* there is a NullPointerException, which ends the client.
Apply(v, e) ==
    IF v.lost THEN v
    ELSE CASE e.op = "tile" -> [v EXCEPT !.tiles[e.tile] = e.val]
           [] e.op = "new"  -> [v EXCEPT !.ents[e.at] = e.ent]
           [] e.op = "gone" -> [v EXCEPT !.ents[e.at] = Nobody]
           [] e.op = "move" -> IF v.ents[e.at].kind = "none" THEN Lost
                               ELSE [v EXCEPT !.ents = [@ EXCEPT ![e.at] = Nobody,
                                                                ![e.to] = v.ents[e.at]]]
           [] e.op = "item" -> IF v.ents[e.at].kind = "none" THEN Lost
                               ELSE [v EXCEPT !.ents[e.at].inv[e.slot] = e.qty]

ApplyAll(v, events) ==
    LET after[i \in 0..Len(events)] == IF i = 0 THEN v ELSE Apply(after[i - 1], events[i])
    IN  after[Len(events)]

\* The buffer is sent to every listed player, and rewound.
FrameEnd ==
    /\ inFrame /\ ~level.fault /\ queue = <<>>
    /\ view' = [c \in Clients |-> IF stage[c] = "in" THEN ApplyAll(view[c], level.buf)
                                                     ELSE view[c]]
    /\ level' = [level EXCEPT !.buf = <<>>] /\ inFrame' = FALSE
    /\ UNCHANGED <<queue, eid, stage, kicked, edits>>

\* The exception handler of the timer task: System.exit(6).
Exited == level.fault /\ UNCHANGED vars

Next ==
    \/ \E c \in Clients : CheckSpawn(c) \/ Join(c) \/ Kick(c)
    \/ \E s \in Slots : AnimateItem(s) \/ AnimateDog(s) \/ AnimatePlayer(s)
    \/ FrameStart \/ FrameEnd \/ Exited

Spec == Init /\ [][Next]_vars

-----------------------------------------------------------------------------
Views == [lost : {TRUE}] \cup [lost : {FALSE}, tiles : [0..LastTile -> 0..(Tiles - 1)],
                              ents : [Cells -> Seens \cup {Nobody}]]

TypeOK ==
    /\ level \in Levels /\ view \in [Clients -> Views]
    /\ queue \in Seq(Slots) /\ inFrame \in BOOLEAN
    /\ eid \in [Clients -> Slots \cup {NoSlot}]
    /\ stage \in [Clients -> {"out", "cleared", "in", "gone"}]
    /\ kicked \in [Slots -> BOOLEAN] /\ edits \in 0..MaxEdits

-----------------------------------------------------------------------------
\* The index, the slots and the coordinates agree however far a push recurses,
\* and an entity that waits for its turn in the frame is still in its slot: the
\* timer never animates a null.
IndexAgreement ==
    /\ Agrees(level)
    /\ \A i \in DOMAIN queue : level.kind[queue[i]] # "none"

\* What the events tell of a level: its tiles, and who is where, of what kind and
\* with what inventory.  Health and the quantity of an item on the ground are sent
\* when a client joins and never again.
Told(v) ==
    IF v.lost THEN Lost
    ELSE [lost |-> FALSE, tiles |-> v.tiles,
          ents |-> [p \in Cells |-> [kind |-> v.ents[p].kind, inv |-> v.ents[p].inv]]]

\* In what the events tell, the copy each listed client keeps becomes the host's
\* level again when it applies the events still in the buffer, whatever order
\* pushes, removals, joins and tile edits were made in; and no event refers to an
\* entity the client does not have.
Mirror ==
    \A c \in Clients : stage[c] = "in" /\ ~level.fault =>
        Told(ApplyAll(view[c], level.buf)) = Told(Snapshot(level))

\* What no event tells only lags one way: pushing hurts and giving uses up, so a
\* copy never shows less health of a player, or fewer items on the ground, than
\* the host's level has (a dog's health may be wrong either way, it heals).
NeverUnderstated ==
    \A c \in Clients : stage[c] = "in" /\ ~level.fault =>
        LET v == ApplyAll(view[c], level.buf)
        IN  \A p \in {q \in Cells : Occupied(level, q)} :
               LET s == level.index[p]
               IN  /\ level.kind[s] = "item" => v.ents[p].left >= level.left[s]
                   /\ level.kind[s] = "player" => v.ents[p].health >= level.health[s]

\* To its clients the host is a Broadcast of what events tell: whatever pushes,
\* removals and edits a frame consists of, the copies change at its end only, and
\* all of them become the level.
Host == INSTANCE Broadcast WITH
    level <- Told(Snapshot(level)),
    copies <- [c \in {d \in Clients : stage[d] = "in"} |-> Told(view[c])]

BroadcastSpec == Host!Spec

Sum(f, n) == LET total[i \in 0..n] == IF i = 0 THEN 0 ELSE total[i - 1] + f[i] IN total[n]

Quantity(q) == IF q = Null THEN 0 ELSE q
Stacked(inv) == Sum([i \in DOMAIN inv |-> Quantity(inv[i])], Len(inv))
Items(L) == Sum([s \in Slots |-> L.left[s] + Stacked(L.inv[s])], N)

\* Moving, pushing and giving neither make nor lose items: their number changes
\* only when a player or a dog enters or leaves the level.
ItemsConserved == [][level'.kind = level.kind => Items(level') = Items(level)]_vars
=============================================================================

------------------------------ MODULE Movement ------------------------------
(***************************************************************************)
(* The operations on a level that run with Server.Locker held: Entity.moveBy*)
(* with its recursive pushing, Entity.give, and the removal of an entity.  *)
(* A level is a record; each operation returns the level it leaves, with   *)
(* the events it put into Server.buf appended to "buf".                    *)
(*                                                                         *)
(*   index   Level.entities: the slot indexed at each place, or none       *)
(*   pos     Entity.x, Entity.y of the entity in each slot                 *)
(*   kind    what Level.ent[slot] is                                       *)
(*   health  Entity.health       tiles   Level.terrain.tiles               *)
(*   inv     Entity.inventory: quantities of the one kind of item          *)
(*   left    EntityItem.item.quantity                                      *)
(*   fault   an exception left the operation                               *)
(***************************************************************************)
EXTENDS Integers, Sequences, FiniteSets

CONSTANTS
    Width, Height,  \* Level.terrain.width and height
    N,              \* slots of Level.ent, 1024 in the code
    MaxDepth,       \* the bound 15 on the recursion of moveBy
    MaxStack,       \* the bound 127 on the quantity of an inventory slot
    MinHealth,      \* the health below which pushing stops hurting, -30000
    MaxHealth,      \* the health a dog heals up to, 10 in the code
    Tiles,          \* Text.amountAccessible
    Null            \* an empty inventory slot

Quantities == 0..MaxStack

ASSUME BoardOK == Width \in Nat \ {0} /\ Height \in Nat \ {0}
ASSUME BoundsOK ==
    /\ N \in Nat /\ MaxDepth \in Nat /\ MaxStack \in Nat /\ Tiles \in Nat \ {0}
    /\ MinHealth \in Int /\ MinHealth <= 0 /\ MaxHealth \in Nat
    /\ Null \notin Quantities

Wall == 1
Pos(x, y) == [x |-> x, y |-> y]
TileAt(p) == Width * p.y + p.x
LastTile == Width * Height - 1

\* The places whose tile is in the array: a step is tested for no more, and may
\* lead out of the columns.
Cells == {p \in [x : 0..LastTile, y : 0..(Height - 1)] : TileAt(p) <= LastTile}

Slots == 1..N
NoSlot == 0
Kinds == {"none", "dog", "player", "item"}
Inventory == Seq(Quantities \cup {Null})

\* What is serialized of an entity.
Seens == [kind : Kinds, inv : Inventory, health : MinHealth..MaxHealth, left : Quantities]

Events ==
    [op : {"gone"}, at : Cells] \cup [op : {"move"}, at : Cells, to : Cells]
      \cup [op : {"item"}, at : Cells, slot : Nat, qty : Quantities]
      \cup [op : {"tile"}, tile : 0..LastTile, val : 0..(Tiles - 1)]
      \cup [op : {"new"}, at : Cells, ent : Seens]

Levels ==
    [index : [Cells -> Slots \cup {NoSlot}], pos : [Slots -> Cells], kind : [Slots -> Kinds],
     health : [Slots -> MinHealth..MaxHealth], inv : [Slots -> Inventory],
     left : [Slots -> Quantities], tiles : [0..LastTile -> 0..(Tiles - 1)],
     buf : Seq(Events), fault : BOOLEAN]

Emit(L, event) == [L EXCEPT !.buf = Append(@, event)]
Fault(L) == [L EXCEPT !.fault = TRUE]

Occupied(L, p) == L.index[p] # NoSlot

\* Level.entities.remove (the mutant forgets the old key).
KeepKey(f, p) == f
Unindex(f, p) == [f EXCEPT ![p] = NoSlot]

\* The mutant tells nobody.
RemoveSilently(L, s) ==
    [L EXCEPT !.index = Unindex(@, L.pos[s]), !.kind[s] = "none"]

\* Entity.checkDeath, EntityPlayer.checkDeath and EntityItem.animate.
Remove(L, s) ==
    Emit([L EXCEPT !.index = Unindex(@, L.pos[s]), !.kind[s] = "none"],
         [op |-> "gone", at |-> L.pos[s]])

\* The index entry at the entity's position moves with it.
Relocate(L, s, p) ==
    LET k == L.index[L.pos[s]]
    IN  Emit([L EXCEPT !.index = [Unindex(@, L.pos[s]) EXCEPT ![p] = k], !.pos[s] = p],
             [op |-> "move", at |-> L.pos[s], to |-> p])

-----------------------------------------------------------------------------
(* give: the mover s takes from the item entity n standing in its way       *)

PutStack(L, s, i, q) ==
    Emit([L EXCEPT !.inv[s][i] = q],
         [op |-> "item", at |-> L.pos[s], slot |-> i, qty |-> q])

\* What still fits in a stack.
Room(q) == IF q = Null THEN 0 ELSE MaxStack - q

\* given.quantity = 0 (the mutant keeps what was given away).
StillThere(L, n) == L
UsedUp(L, n) == [L EXCEPT !.left[n] = 0]

Least(a, b) == IF a < b THEN a ELSE b

\* One stack is filled up.
FillStack(L, s, n, i) ==
    LET moved == Least(L.left[n], Room(L.inv[s][i]))
    IN  IF moved = 0 THEN L
        ELSE [PutStack(L, s, i, L.inv[s][i] + moved) EXCEPT !.left[n] = @ - moved]

\* First the stacks it already has are filled up, in order ...
FillStacks(L, s, n) ==
    LET fill[i \in 0..Len(L.inv[s])] == IF i = 0 THEN L ELSE FillStack(fill[i - 1], s, n, i)
    IN  fill[Len(L.inv[s])]

\* ... then what is left goes to the first empty slot.  give returns early only
\* when filling a stack has just used the item up.
Give(L, s, n) ==
    LET F     == FillStacks(L, s, n)
        empty == {i \in DOMAIN F.inv[s] : F.inv[s][i] = Null}
    IN  IF empty = {} \/ (F.left[n] = 0 /\ L.left[n] # 0) THEN F
        ELSE LET i == CHOOSE j \in empty : \A k \in empty : j <= k
             IN  UsedUp(PutStack(F, s, i, F.left[n]), n)

-----------------------------------------------------------------------------
(* moveBy                                                                   *)

\* The column test is on x, not on Dx, and the row is clamped to the width.
ClampX(x, dx) ==
    IF dx < 0 /\ x < -dx THEN 0
    ELSE IF x > 0 /\ x + dx >= Width THEN Width - 1 ELSE x + dx

ClampY(y, dy) ==
    IF dy < 0 /\ y < -dy THEN 0
    ELSE IF dy > 0 /\ y + dy >= Height THEN Width - 1 ELSE y + dy

Denied(L) == [ok |-> FALSE, L |-> L]
Moved(L, s, p) == [ok |-> TRUE, L |-> Relocate(L, s, p)]

Hurt(L, s, d) == IF d > 0 /\ L.health[s] > MinHealth THEN [L EXCEPT !.health[s] = @ - 1] ELSE L

\* A call of moveBy: its receiver and arguments, with the level.
Calls == [L : Levels, s : Slots, dx : Int, dy : Int]
Call(L, s, dx, dy) == [L |-> L, s |-> s, dx |-> dx, dy |-> dy]

\* One more vector is tried, unless the last one succeeded.
OrElse(r, n, dx, dy, deeper) ==
    IF r.ok \/ r.L.fault THEN r ELSE deeper[Call(r.L, n, dx, dy)]

\* The entity in the way is moved by the first of four vectors that succeeds.
Push(L, n, dx, dy, deeper) ==
    LET a == deeper[Call(L, n, dx, dy)]
        b == OrElse(a, n, -dy, dx, deeper)
        c == OrElse(b, n, dy, -dx, deeper)
    IN  OrElse(c, n, -(2 * dx), -(2 * dy), deeper)

\* The way is taken: who stands in it, and is pushed.
Shove(L, s, dest, dx, dy, deeper) ==
    LET n   == L.index[dest]
        met == IF L.kind[n] = "item" THEN Give(L, s, n) ELSE L
        r   == Push(met, n, dx, dy, deeper)
    IN  IF r.ok /\ ~Occupied(r.L, dest) THEN Moved(r.L, s, dest) ELSE Denied(r.L)

\* moveBy at depth d; deeper is what it does one level further down.
Attempt(L0, s, dx, dy, d, deeper) ==
    LET L    == Hurt(L0, s, d)
        dest == Pos(ClampX(L.pos[s].x, dx), ClampY(L.pos[s].y, dy))
    IN  IF (dx = 0 /\ dy = 0) \/ dest = L.pos[s] THEN Denied(L)
        ELSE IF TileAt(dest) > LastTile THEN Denied(Fault(L))
        ELSE IF L.tiles[TileAt(dest)] = Wall THEN Denied(L)
        ELSE IF ~Occupied(L, dest) THEN Moved(L, s, dest)
        ELSE Shove(L, s, dest, dx, dy, deeper)

\* What moveBy does to each call with so many levels left below the bound.
move[left \in 0..(MaxDepth + 1)] ==
    IF left = 0 THEN [a \in Calls |-> Denied(a.L)]
    ELSE [a \in Calls |-> Attempt(a.L, a.s, a.dx, a.dy, MaxDepth + 1 - left, move[left - 1])]

MoveBy(L, s, dx, dy) == move[MaxDepth + 1][Call(L, s, dx, dy)].L
=============================================================================

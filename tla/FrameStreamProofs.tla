------------------------- MODULE FrameStreamProofs -------------------------
(***************************************************************************)
(* Proofs about FrameStream, for boards, levels and clients of any number  *)
(* and any depth of pushing: the index agrees with the slots, the copies   *)
(* of the clients follow, and items are conserved.                         *)
(*                                                                         *)
(* A level B evolves from A when B is sound, the entities indexed in A     *)
(* still are, a client that follows A follows B, and nothing was taken out *)
(* of the level or put into it.  This is transitive, and everything moveBy *)
(* and the edits of tiles are built from does it; so moveBy does, by       *)
(* induction on the levels left below its bound.                           *)
(***************************************************************************)
EXTENDS FrameStream, FiniteSetTheorems, TLAPS

-----------------------------------------------------------------------------
(* The client: events applied one after the other                           *)

OnEvent(e, v) == Apply(v, e)
Stream == INSTANCE Recursion WITH Step <- OnEvent

\* What a client makes of some events is what the recursion over them leads to.
LEMMA AppliedResult ==
    ASSUME NEW v, NEW events
    PROVE  ApplyAll(v, events) = Stream!Result(v, events, Len(events))
BY DEF ApplyAll, Stream!Result, OnEvent

\* No events leave a copy as it is.
LEMMA AppliedNone == ASSUME NEW v PROVE ApplyAll(v, <<>>) = v
<1>1. Len(<<>>) = 0
  OBVIOUS
<1> QED
  BY <1>1, AppliedResult, Stream!ResultNone

\* One more event is applied to what the others lead to.
LEMMA AppliedMore ==
    ASSUME NEW v, NEW E, NEW events \in Seq(E), NEW e \in E
    PROVE  ApplyAll(v, Append(events, e)) = Apply(ApplyAll(v, events), e)
<1> DEFINE n == Len(events)
           more == Append(events, e)
<1>1. n \in Nat /\ Len(more) = n + 1 /\ more[n + 1] = e
      /\ \A i \in 1..n : more[i] = events[i]
  OBVIOUS
<1>2. ApplyAll(v, events) = Stream!Result(v, events, n)
  BY AppliedResult
<1> HIDE DEF n, more
<1>3. ApplyAll(v, more) = Stream!Result(v, more, n + 1)
  BY <1>1, AppliedResult
<1>4. Stream!Result(v, more, n + 1) = OnEvent(more[n + 1], Stream!Result(v, events, n))
  BY <1>1, Stream!ResultMore
<1>5. ApplyAll(v, more) = Apply(ApplyAll(v, events), e)
  BY <1>1, <1>2, <1>3, <1>4 DEF OnEvent
<1> QED
  BY <1>5 DEF more

\* Events that change nothing lead nowhere.
LEMMA AppliedSame ==
    ASSUME NEW v, NEW events, Len(events) \in Nat,
           \A i \in 1..Len(events) : Apply(v, events[i]) = v
    PROVE  ApplyAll(v, events) = v
<1>1. \A i \in 1..Len(events) : \A x \in {v} : OnEvent(events[i], x) \in {v}
  BY DEF OnEvent
<1>2. Stream!Result(v, events, Len(events)) \in {v}
  BY <1>1, Stream!ResultWithin
<1> QED
  BY <1>2, AppliedResult

-----------------------------------------------------------------------------
(* What of a copy the events tell                                           *)

\* The part of a snapshot that events tell, from the level.
Shown(L, s) == [kind |-> L.kind[s], inv |-> L.inv[s]]
Streamed(L) ==
    [lost |-> FALSE, tiles |-> L.tiles,
     ents |-> [p \in Cells |-> IF Occupied(L, p) THEN Shown(L, L.index[p]) ELSE Nobody]]

\* The same part of an event.
ToldEvent(e) ==
    IF e.op = "new" THEN [op |-> "new", at |-> e.at, ent |-> [kind |-> e.ent.kind, inv |-> e.ent.inv]]
    ELSE e

\* That is what a snapshot tells.
LEMMA ToldSnapshot == ASSUME NEW L PROVE Told(Snapshot(L)) = Streamed(L)
<1> DEFINE v == Snapshot(L)
<1>1. v.lost = FALSE /\ v.tiles = L.tiles
      /\ \A p \in Cells : v.ents[p] = IF Occupied(L, p) THEN Seen(L, L.index[p]) ELSE Nobody
  BY DEF Snapshot
<1> HIDE DEF v
<1>2. \A p \in Cells : [kind |-> v.ents[p].kind, inv |-> v.ents[p].inv]
                        = IF Occupied(L, p) THEN Shown(L, L.index[p]) ELSE Nobody
  <2> TAKE p \in Cells
  <2>1. Seen(L, L.index[p]).kind = L.kind[L.index[p]] /\ Seen(L, L.index[p]).inv = L.inv[L.index[p]]
    BY DEF Seen
  <2>2. CASE Occupied(L, p)
    BY <1>1, <2>1, <2>2 DEF Shown
  <2>3. CASE ~Occupied(L, p)
    BY <1>1, <2>3 DEF Nobody
  <2> QED
    BY <2>2, <2>3
<1>3. Told(v) = Streamed(L)
  BY <1>1, <1>2 DEF Told, Streamed
<1> QED
  BY <1>3 DEF v

\* An inventory one of whose slots is set is one still.
LEMMA InventorySet ==
    ASSUME NEW inv \in Inventory, NEW i, NEW q \in Quantities
    PROVE  [inv EXCEPT ![i] = q] \in Inventory
<1> DEFINE S == Quantities \cup {Null}
<1>1. inv \in Seq(S) /\ q \in S
  BY DEF Inventory
<1> HIDE DEF S
<1>2. inv \in [1..Len(inv) -> S] /\ Len(inv) \in Nat
  BY <1>1
<1>3. [inv EXCEPT ![i] = q] \in [1..Len(inv) -> S]
  BY <1>1, <1>2
<1>4. [inv EXCEPT ![i] = q] \in Seq(S)
  BY <1>2, <1>3
<1> QED
  BY <1>4 DEF Inventory, S

\* What each event does to a client that has not failed.
LEMMA ApplyMove ==
    ASSUME NEW tiles, NEW ents, NEW o, NEW p, ents[o].kind # "none"
    PROVE  Apply([lost |-> FALSE, tiles |-> tiles, ents |-> ents], [op |-> "move", at |-> o, to |-> p])
             = [lost |-> FALSE, tiles |-> tiles,
                ents |-> [ents EXCEPT ![o] = Nobody, ![p] = ents[o]]]
BY DEF Apply

\* A changed stack.
LEMMA ApplyItem ==
    ASSUME NEW tiles, NEW ents, NEW o, NEW i, NEW q, ents[o].kind # "none"
    PROVE  Apply([lost |-> FALSE, tiles |-> tiles, ents |-> ents],
                 [op |-> "item", at |-> o, slot |-> i, qty |-> q])
             = [lost |-> FALSE, tiles |-> tiles, ents |-> [ents EXCEPT ![o].inv[i] = q]]
BY DEF Apply

\* An entity that is gone.
LEMMA ApplyGone ==
    ASSUME NEW tiles, NEW ents, NEW o
    PROVE  Apply([lost |-> FALSE, tiles |-> tiles, ents |-> ents], [op |-> "gone", at |-> o])
             = [lost |-> FALSE, tiles |-> tiles, ents |-> [ents EXCEPT ![o] = Nobody]]
BY DEF Apply

\* An arrival.
LEMMA ApplyNew ==
    ASSUME NEW tiles, NEW ents, NEW o, NEW e
    PROVE  Apply([lost |-> FALSE, tiles |-> tiles, ents |-> ents], [op |-> "new", at |-> o, ent |-> e])
             = [lost |-> FALSE, tiles |-> tiles, ents |-> [ents EXCEPT ![o] = e]]
BY DEF Apply

\* An edited tile.
LEMMA ApplyTile ==
    ASSUME NEW tiles, NEW ents, NEW t, NEW x
    PROVE  Apply([lost |-> FALSE, tiles |-> tiles, ents |-> ents], [op |-> "tile", tile |-> t, val |-> x])
             = [lost |-> FALSE, tiles |-> [tiles EXCEPT ![t] = x], ents |-> ents]
BY DEF Apply

\* An entity the client does not have.
LEMMA ApplyLost ==
    ASSUME NEW tiles, NEW ents, NEW e, e.op \in {"move", "item"}, ents[e.at].kind = "none"
    PROVE  Apply([lost |-> FALSE, tiles |-> tiles, ents |-> ents], e) = Lost
BY DEF Apply

\* An event makes a copy of a copy.
LEMMA ApplyView ==
    ASSUME NEW v \in Views, NEW e \in Events
    PROVE  Apply(v, e) \in Views
<1>1. CASE v.lost
  BY <1>1 DEF Apply
<1>2. CASE ~v.lost
  <2>1. /\ v = [lost |-> FALSE, tiles |-> v.tiles, ents |-> v.ents] /\ v.lost = FALSE
        /\ v.tiles \in [0..LastTile -> 0..(Tiles - 1)] /\ v.ents \in [Cells -> Seens \cup {Nobody}]
    BY <1>2 DEF Views
  <2>2. Lost \in Views
    BY DEF Lost, Views
  <2>3. \A tiles \in [0..LastTile -> 0..(Tiles - 1)], ents \in [Cells -> Seens \cup {Nobody}] :
           [lost |-> FALSE, tiles |-> tiles, ents |-> ents] \in Views
    BY DEF Views
  <2>4. CASE e \in [op : {"tile"}, tile : 0..LastTile, val : 0..(Tiles - 1)]
    <3>1. Apply(v, e) = [lost |-> FALSE, tiles |-> [v.tiles EXCEPT ![e.tile] = e.val], ents |-> v.ents]
      BY <2>1, <2>4 DEF Apply
    <3>2. [v.tiles EXCEPT ![e.tile] = e.val] \in [0..LastTile -> 0..(Tiles - 1)]
      BY <2>1, <2>4
    <3> QED
      BY <2>1, <2>3, <3>1, <3>2
  <2>5. CASE e \in [op : {"new"}, at : Cells, ent : Seens]
    <3>1. Apply(v, e) = [lost |-> FALSE, tiles |-> v.tiles, ents |-> [v.ents EXCEPT ![e.at] = e.ent]]
      BY <2>1, <2>5 DEF Apply
    <3>2. [v.ents EXCEPT ![e.at] = e.ent] \in [Cells -> Seens \cup {Nobody}]
      BY <2>1, <2>5
    <3> QED
      BY <2>1, <2>3, <3>1, <3>2
  <2>6. CASE e \in [op : {"gone"}, at : Cells]
    <3>1. Apply(v, e) = [lost |-> FALSE, tiles |-> v.tiles, ents |-> [v.ents EXCEPT ![e.at] = Nobody]]
      BY <2>1, <2>6 DEF Apply
    <3>2. [v.ents EXCEPT ![e.at] = Nobody] \in [Cells -> Seens \cup {Nobody}]
      BY <2>1, <2>6
    <3> QED
      BY <2>1, <2>3, <3>1, <3>2
  <2>7. CASE e \in [op : {"move"}, at : Cells, to : Cells]
    <3> DEFINE ents == [v.ents EXCEPT ![e.at] = Nobody, ![e.to] = v.ents[e.at]]
    <3>1. Apply(v, e) = Lost \/ Apply(v, e) = [lost |-> FALSE, tiles |-> v.tiles, ents |-> ents]
      BY <2>1, <2>7 DEF Apply
    <3>2. ents \in [Cells -> Seens \cup {Nobody}]
      BY <2>1, <2>7
    <3> HIDE DEF ents
    <3> QED
      BY <2>1, <2>2, <2>3, <3>1, <3>2
  <2>8. CASE e \in [op : {"item"}, at : Cells, slot : Nat, qty : Quantities]
    <3>1. PICK o \in Cells, i \in Nat, q \in Quantities :
            e = [op |-> "item", at |-> o, slot |-> i, qty |-> q]
      BY <2>8
    <3>2. PICK tiles \in [0..LastTile -> 0..(Tiles - 1)], ents \in [Cells -> Seens \cup {Nobody}] :
            v = [lost |-> FALSE, tiles |-> tiles, ents |-> ents]
      BY <2>1
    <3> DEFINE r == ents[o]
    <3>3. CASE r.kind = "none"
      <4>1. Apply(v, e) = Lost
        BY <3>1, <3>2, <3>3, ApplyLost
      <4> QED
        BY <2>2, <4>1
    <3>4. CASE r.kind # "none"
      <4>1. Apply(v, e) = [lost |-> FALSE, tiles |-> tiles, ents |-> [ents EXCEPT ![o].inv[i] = q]]
        BY <3>1, <3>2, <3>4, ApplyItem
      <4>2. r \in Seens
        BY <3>4 DEF Nobody
      <4> DEFINE stacks == [r.inv EXCEPT ![i] = q]
      <4>3. stacks \in Inventory
        BY <4>2, InventorySet DEF Seens
      <4>4. [r EXCEPT !.inv[i] = q] = [r EXCEPT !.inv = stacks]
        BY <4>2 DEF Seens
      <4> HIDE DEF stacks
      <4>5. [r EXCEPT !.inv[i] = q] \in Seens
        BY <4>2, <4>3, <4>4 DEF Seens
      <4>6. [ents EXCEPT ![o].inv[i] = q] \in [Cells -> Seens \cup {Nobody}]
        BY <4>5
      <4> QED
        BY <2>3, <4>1, <4>6
    <3> QED
      BY <3>3, <3>4
  <2> QED
    BY <2>4, <2>5, <2>6, <2>7, <2>8 DEF Events
<1> QED
  BY <1>1, <1>2 DEF Views

\* So do any number of them.
LEMMA ApplyAllView ==
    ASSUME NEW v \in Views, NEW events \in Seq(Events)
    PROVE  ApplyAll(v, events) \in Views
<1>1. \A i \in 1..Len(events) : \A x \in Views : OnEvent(events[i], x) \in Views
  BY ApplyView DEF OnEvent
<1>2. Stream!Result(v, events, Len(events)) \in Views
  BY <1>1, Stream!ResultWithin
<1> QED
  BY <1>2, AppliedResult

\* What the events tell of a copy follows from what they told of it before.
LEMMA ToldApply ==
    ASSUME NEW v \in Views, NEW e \in Events
    PROVE  Told(Apply(v, e)) = Apply(Told(v), ToldEvent(e))
<1> DEFINE Part(r) == [kind |-> r.kind, inv |-> r.inv]
           part(f) == [p \in Cells |-> Part(f[p])]
<1>1. CASE v.lost
  BY <1>1 DEF Apply, Told, Lost
<1>2. CASE ~v.lost
  <2> DEFINE ents == v.ents
             tiles == v.tiles
             w == Told(v)
  <2>1. /\ v = [lost |-> FALSE, tiles |-> tiles, ents |-> ents] /\ v.lost = FALSE
        /\ ents \in [Cells -> Seens \cup {Nobody}]
    BY <1>2 DEF Views
  <2>2. w = [lost |-> FALSE, tiles |-> tiles, ents |-> part(ents)]
    BY <2>1 DEF Told
  <2>3. \A t, f : Told([lost |-> FALSE, tiles |-> t, ents |-> f])
                   = [lost |-> FALSE, tiles |-> t, ents |-> part(f)]
    BY DEF Told
  <2>4. Part(Nobody) = Nobody
    BY DEF Nobody
  <2>5. Told(Lost) = Lost
    BY DEF Told, Lost
  <2>6. \A p \in Cells : part(ents)[p].kind = ents[p].kind /\ part(ents)[p] = Part(ents[p])
    OBVIOUS
  <2> HIDE DEF ents, tiles
  <2>7. \A p \in Cells : \A r : part([ents EXCEPT ![p] = r]) = [part(ents) EXCEPT ![p] = Part(r)]
    BY <2>1
  <2> HIDE DEF part
  <2> SUFFICES Told(Apply(v, e)) = Apply(w, ToldEvent(e))
    OBVIOUS
  <2> HIDE DEF w
  <2>8. CASE e \in [op : {"tile"}, tile : 0..LastTile, val : 0..(Tiles - 1)]
    <3>1. PICK t, x : e = [op |-> "tile", tile |-> t, val |-> x]
      BY <2>8
    <3>2. ToldEvent(e) = e
      BY <3>1 DEF ToldEvent
    <3>3. Apply(v, e) = [lost |-> FALSE, tiles |-> [tiles EXCEPT ![t] = x], ents |-> ents]
      BY <2>1, <3>1, ApplyTile
    <3>4. Apply(w, e) = [lost |-> FALSE, tiles |-> [tiles EXCEPT ![t] = x], ents |-> part(ents)]
      BY <2>2, <3>1, ApplyTile
    <3> QED
      BY <2>3, <3>2, <3>3, <3>4
  <2>9. CASE e \in [op : {"new"}, at : Cells, ent : Seens]
    <3>1. PICK o \in Cells, r \in Seens : e = [op |-> "new", at |-> o, ent |-> r]
      BY <2>9
    <3>2. ToldEvent(e) = [op |-> "new", at |-> o, ent |-> Part(r)]
      BY <3>1 DEF ToldEvent
    <3> HIDE DEF Part
    <3>3. Apply(v, e) = [lost |-> FALSE, tiles |-> tiles, ents |-> [ents EXCEPT ![o] = r]]
      BY <2>1, <3>1, ApplyNew
    <3>4. Apply(w, ToldEvent(e))
            = [lost |-> FALSE, tiles |-> tiles, ents |-> [part(ents) EXCEPT ![o] = Part(r)]]
      BY <2>2, <3>2, ApplyNew
    <3> QED
      BY <2>3, <2>7, <3>3, <3>4
  <2>10. CASE e \in [op : {"gone"}, at : Cells]
    <3>1. PICK o \in Cells : e = [op |-> "gone", at |-> o]
      BY <2>10
    <3>2. ToldEvent(e) = e
      BY <3>1 DEF ToldEvent
    <3>3. Apply(v, e) = [lost |-> FALSE, tiles |-> tiles, ents |-> [ents EXCEPT ![o] = Nobody]]
      BY <2>1, <3>1, ApplyGone
    <3>4. Apply(w, e) = [lost |-> FALSE, tiles |-> tiles, ents |-> [part(ents) EXCEPT ![o] = Nobody]]
      BY <2>2, <3>1, ApplyGone
    <3> QED
      BY <2>3, <2>4, <2>7, <3>2, <3>3, <3>4
  <2>11. CASE e \in [op : {"move"}, at : Cells, to : Cells]
    <3>1. PICK o \in Cells, p \in Cells : e = [op |-> "move", at |-> o, to |-> p]
      BY <2>11
    <3>2. ToldEvent(e) = e
      BY <3>1 DEF ToldEvent
    <3>3. CASE ents[o].kind = "none"
      <4>1. Apply(v, e) = Lost
        BY <2>1, <3>1, <3>3, ApplyLost
      <4>2. part(ents)[o].kind = "none"
        BY <2>6, <3>3
      <4>3. Apply(w, e) = Lost
        BY <2>2, <3>1, <4>2, ApplyLost
      <4> QED
        BY <2>5, <3>2, <4>1, <4>3
    <3>4. CASE ents[o].kind # "none"
      <4> DEFINE f == [ents EXCEPT ![o] = Nobody, ![p] = ents[o]]
                 g == [part(ents) EXCEPT ![o] = Nobody, ![p] = part(ents)[o]]
      <4>1. Apply(v, e) = [lost |-> FALSE, tiles |-> tiles, ents |-> f]
        BY <2>1, <3>1, <3>4, ApplyMove
      <4>2. part(ents)[o].kind # "none"
        BY <2>6, <3>4
      <4>3. Apply(w, e) = [lost |-> FALSE, tiles |-> tiles, ents |-> g]
        BY <2>2, <3>1, <4>2, ApplyMove
      <4>4. part(f) = g
        <5>1. \A q \in Cells : f[q] = IF q = p THEN ents[o] ELSE IF q = o THEN Nobody ELSE ents[q]
          BY <2>1
        <5>2. part(ents) = [q \in Cells |-> Part(ents[q])]
          BY DEF part
        <5> HIDE DEF Part
        <5>3. g = [q \in Cells |-> IF q = p THEN Part(ents[o]) ELSE IF q = o THEN Nobody ELSE Part(ents[q])]
          BY <5>2
        <5> HIDE DEF f, g
        <5>4. \A q \in Cells : Part(f[q]) = IF q = p THEN Part(ents[o])
                                            ELSE IF q = o THEN Nobody ELSE Part(ents[q])
          BY <2>4, <5>1
        <5> QED
          BY <5>3, <5>4 DEF part
      <4> HIDE DEF f, g
      <4> QED
        BY <2>3, <3>2, <4>1, <4>3, <4>4
    <3> QED
      BY <3>3, <3>4
  <2>12. CASE e \in [op : {"item"}, at : Cells, slot : Nat, qty : Quantities]
    <3>1. PICK o \in Cells, i \in Nat, q \in Quantities :
            e = [op |-> "item", at |-> o, slot |-> i, qty |-> q]
      BY <2>12
    <3>2. ToldEvent(e) = e
      BY <3>1 DEF ToldEvent
    <3> DEFINE r == ents[o]
    <3>3. CASE r.kind = "none"
      <4>1. Apply(v, e) = Lost
        BY <2>1, <3>1, <3>3, ApplyLost
      <4>2. part(ents)[o].kind = "none"
        BY <2>6, <3>3
      <4>3. Apply(w, e) = Lost
        BY <2>2, <3>1, <4>2, ApplyLost
      <4> QED
        BY <2>5, <3>2, <4>1, <4>3
    <3>4. CASE r.kind # "none"
      <4>1. Apply(v, e) = [lost |-> FALSE, tiles |-> tiles, ents |-> [ents EXCEPT ![o].inv[i] = q]]
        BY <2>1, <3>1, <3>4, ApplyItem
      <4>2. part(ents)[o].kind # "none"
        BY <2>6, <3>4
      <4>3. Apply(w, e) = [lost |-> FALSE, tiles |-> tiles, ents |-> [part(ents) EXCEPT ![o].inv[i] = q]]
        BY <2>2, <3>1, <4>2, ApplyItem
      <4>4. part([ents EXCEPT ![o].inv[i] = q]) = [part(ents) EXCEPT ![o].inv[i] = q]
        <5>1. r \in Seens /\ o \in Cells
          BY <2>1, <3>4 DEF Nobody
        <5>2. Part([r EXCEPT !.inv[i] = q]) = [Part(r) EXCEPT !.inv[i] = q]
          BY <5>1 DEF Seens
        <5>3. part(ents)[o] = Part(r)
          BY <2>6
        <5> HIDE DEF r, Part
        <5>4. part([ents EXCEPT ![o] = [r EXCEPT !.inv[i] = q]])
                = [part(ents) EXCEPT ![o] = [part(ents)[o] EXCEPT !.inv[i] = q]]
          BY <2>7, <5>1, <5>2, <5>3
        <5> QED
          BY <5>4 DEF r
      <4> QED
        BY <2>3, <3>2, <4>1, <4>3, <4>4
    <3> QED
      BY <3>3, <3>4
  <2> QED
    BY <2>8, <2>9, <2>10, <2>11, <2>12 DEF Events
<1> QED
  BY <1>1, <1>2 DEF Views

-----------------------------------------------------------------------------
(* Sums                                                                     *)

AddOn(x, v) == v + x
Totals == INSTANCE Recursion WITH Step <- AddOn

\* A sum is what the recursion over the summands leads to.
LEMMA SumResult ==
    ASSUME NEW f, NEW n
    PROVE  Sum(f, n) = Totals!Result(0, f, n)
BY DEF Sum, Totals!Result, AddOn

\* Integers add up to an integer.
LEMMA SumType ==
    ASSUME NEW n \in Nat, NEW f \in [1..n -> Int]
    PROVE  Sum(f, n) \in Int
<1> DEFINE S == Int
<1>1. 0 \in S /\ \A i \in 1..n : \A x \in S : AddOn(f[i], x) \in S
  BY DEF AddOn
<1>2. Totals!Result(0, f, n) \in S
  <2> HIDE DEF S
  <2> QED
    BY <1>1, Totals!ResultWithin
<1> QED
  BY <1>2, SumResult

\* One summand more or less changes the sum by as much.
LEMMA SumChange ==
    ASSUME NEW n \in Nat, NEW f \in [1..n -> Int], NEW j \in 1..n, NEW z \in Int
    PROVE  Sum([f EXCEPT ![j] = z], n) = Sum(f, n) + z - f[j]
<1> DEFINE h == [f EXCEPT ![j] = z]
           d == z - f[j]
<1>1. h \in [1..n -> Int] /\ \A i \in 1..n : h[i] = IF i = j THEN z ELSE f[i]
  OBVIOUS
<1>2. d \in Int /\ f[j] \in Int /\ z = f[j] + d
  OBVIOUS
<1> HIDE DEF h, d
<1>3. PICK a : Totals!Run(0, f, n, a) /\ Totals!Result(0, f, n) = a[n]
  BY Totals!ResultOfRun
<1>4. PICK b : Totals!Run(0, h, n, b) /\ Totals!Result(0, h, n) = b[n]
  BY Totals!ResultOfRun
<1> DEFINE T == {i \in 0..n : a[i] \in Int /\ b[i] = a[i] + (IF i < j THEN 0 ELSE d)}
<1>5. 0 \in T
  BY <1>2, <1>3, <1>4 DEF Totals!Run
<1>6. ASSUME NEW i \in 0..(n - 1), i \in T PROVE i + 1 \in T
  <2>1. i + 1 \in 1..n /\ (i + 1) - 1 = i /\ i + 1 \in 0..n
    OBVIOUS
  <2>2. a[i + 1] = AddOn(f[i + 1], a[i]) /\ b[i + 1] = AddOn(h[i + 1], b[i])
    BY <1>3, <1>4, <2>1 DEF Totals!Run
  <2>3. a[i + 1] = a[i] + f[i + 1] /\ b[i + 1] = b[i] + h[i + 1] /\ f[i + 1] \in Int
    BY <2>1, <2>2 DEF AddOn
  <2>4. h[i + 1] = f[i + 1] + (IF i + 1 = j THEN d ELSE 0)
    <3>1. CASE i + 1 = j
      BY <1>1, <1>2, <2>1, <3>1
    <3>2. CASE i + 1 # j
      BY <1>1, <2>1, <2>3, <3>2
    <3> QED
      BY <3>1, <3>2
  <2> QED
    BY <1>2, <1>6, <2>1, <2>3, <2>4
<1>7. 0..n \subseteq T
  <2> HIDE DEF T
  <2> QED BY <1>5, <1>6, Totals!Induction
<1>8. a[n] \in Int /\ b[n] = a[n] + d
  BY <1>7
<1>9. Sum(h, n) = Sum(f, n) + d /\ Sum(f, n) \in Int
  BY <1>3, <1>4, <1>8, SumResult
<1>10. Sum(h, n) = Sum(f, n) + z - f[j]
  BY <1>2, <1>9
<1> QED
  BY <1>10 DEF h

\* What one summand gives another does not change the sum.
LEMMA SumKept ==
    ASSUME NEW n \in Nat, NEW f \in [1..n -> Int], NEW h \in [1..n -> Int],
           NEW a \in 1..n, NEW b \in 1..n, a # b, h[a] + h[b] = f[a] + f[b],
           \A i \in (1..n) \ {a, b} : h[i] = f[i]
    PROVE  Sum(h, n) = Sum(f, n)
<1> DEFINE g == [f EXCEPT ![a] = h[a]]
           k == [g EXCEPT ![b] = h[b]]
<1>1. h[a] \in Int /\ h[b] \in Int /\ f[a] \in Int /\ f[b] \in Int
  OBVIOUS
<1>2. g \in [1..n -> Int] /\ g[b] = f[b]
  OBVIOUS
<1>3. Sum(g, n) = Sum(f, n) + h[a] - f[a]
  BY <1>1, SumChange
<1>4. Sum(k, n) = Sum(g, n) + h[b] - g[b]
  <2> HIDE DEF g
  <2> QED
    BY <1>1, <1>2, SumChange
<1>5. k = h
  <2>1. k \in [1..n -> Int] /\ \A i \in 1..n : k[i] = h[i]
    BY <1>1, <1>2
  <2> HIDE DEF k
  <2> QED
    BY <2>1
<1>6. Sum(f, n) \in Int /\ Sum(g, n) \in Int
  <2> HIDE DEF g
  <2> QED
    BY <1>2, SumType
<1>7. Sum(h, n) = Sum(g, n) + h[b] - f[b]
  BY <1>2, <1>4, <1>5
<1> DEFINE u == h[a]
           v == h[b]
           w == f[a]
           z == f[b]
           x == Sum(f, n)
           y == Sum(g, n)
<1>8. u \in Int /\ v \in Int /\ w \in Int /\ z \in Int /\ x \in Int /\ y \in Int
  BY <1>1, <1>6
<1>9. u + v = w + z /\ y = x + u - w
  BY <1>3
<1> HIDE DEF u, v, w, z, x, y, g, k
<1>10. y + v - z = x
  BY <1>8, <1>9
<1> QED
  BY <1>7, <1>10 DEF x, y, v, z

\* What an inventory holds is a number.
LEMMA StackedType ==
    ASSUME NEW inv \in Inventory
    PROVE  Stacked(inv) \in Int
<1> DEFINE f == [i \in DOMAIN inv |-> Quantity(inv[i])]
<1>1. Len(inv) \in Nat /\ DOMAIN inv = 1..Len(inv)
  BY DEF Inventory
<1>2. \A i \in 1..Len(inv) : Quantity(inv[i]) \in Int
  BY BoundsOK DEF Inventory, Quantity, Quantities
<1>3. f \in [1..Len(inv) -> Int]
  BY <1>1, <1>2
<1> QED
  BY <1>1, <1>3, SumType DEF Stacked

\* One stack more or less changes what an inventory holds by as much.
LEMMA StackedChange ==
    ASSUME NEW inv \in Inventory, NEW i \in DOMAIN inv, NEW q \in Quantities \cup {Null}
    PROVE  /\ [inv EXCEPT ![i] = q] \in Inventory
           /\ Stacked([inv EXCEPT ![i] = q]) = Stacked(inv) + Quantity(q) - Quantity(inv[i])
<1> DEFINE n == Len(inv)
           new == [inv EXCEPT ![i] = q]
           f == [j \in DOMAIN inv |-> Quantity(inv[j])]
           h == [j \in DOMAIN new |-> Quantity(new[j])]
<1>1. n \in Nat /\ DOMAIN inv = 1..n /\ i \in 1..n
  BY DEF Inventory
<1>2. new \in Inventory /\ DOMAIN new = 1..n /\ Len(new) = n
  BY DEF Inventory
<1>3. \A r \in Quantities \cup {Null} : Quantity(r) \in Int
  BY BoundsOK DEF Quantity, Quantities
<1>4. \A j \in 1..n : inv[j] \in Quantities \cup {Null}
  BY DEF Inventory
<1>5. f \in [1..n -> Int] /\ f[i] = Quantity(inv[i])
  BY <1>1, <1>3, <1>4
<1>6. h = [f EXCEPT ![i] = Quantity(q)]
  BY <1>1, <1>2
<1>7. Sum(h, n) = Sum(f, n) + Quantity(q) - f[i]
  <2> HIDE DEF f, h, n
  <2> QED
    BY <1>1, <1>3, <1>5, <1>6, SumChange
<1>8. Stacked(new) = Sum(h, n) /\ Stacked(inv) = Sum(f, n)
  BY <1>2 DEF Stacked
<1> QED
  BY <1>2, <1>5, <1>7, <1>8

-----------------------------------------------------------------------------
(* Levels                                                                   *)

\* B is L with q in the i-th stack of s and r left in n, which is as much as
\* there was.
Gift(L, B, s, n, i, q, r) ==
    /\ q + r = Quantity(L.inv[s][i]) + L.left[n]
    /\ \A t \in Slots : B.left[t] = IF t = n THEN r ELSE L.left[t]
    /\ \A t \in Slots : B.inv[t] = IF t = s THEN [L.inv[s] EXCEPT ![i] = q] ELSE L.inv[t]

\* A quantity goes from the item entity n into a stack of s, or nowhere.
LEMMA ItemsChange ==
    ASSUME NEW L \in Levels, NEW s \in Slots, NEW n \in Slots, s # n,
           NEW i \in DOMAIN L.inv[s], NEW q \in Quantities, NEW r \in Quantities,
           NEW B, Gift(L, B, s, n, i, q, r)
    PROVE  Items(B) = Items(L)
<1> DEFINE f == [t \in Slots |-> L.left[t] + Stacked(L.inv[t])]
           h == [t \in Slots |-> B.left[t] + Stacked(B.inv[t])]
<1>1. N \in Nat /\ Slots = 1..N
  BY BoundsOK DEF Slots
<1>2. L.inv \in [Slots -> Inventory] /\ L.left \in [Slots -> Quantities]
  BY DEF Levels
<1>3. /\ [L.inv[s] EXCEPT ![i] = q] \in Inventory
      /\ Stacked([L.inv[s] EXCEPT ![i] = q]) = Stacked(L.inv[s]) + Quantity(q) - Quantity(L.inv[s][i])
  BY <1>2, StackedChange
<1>4. \A t \in Slots : B.inv[t] = IF t = s THEN [L.inv[s] EXCEPT ![i] = q] ELSE L.inv[t]
  BY DEF Gift
<1>5. \A t \in Slots : B.left[t] = IF t = n THEN r ELSE L.left[t]
  BY DEF Gift
<1>6. \A t \in Slots : B.inv[t] \in Inventory /\ B.left[t] \in Quantities
  BY <1>2, <1>3, <1>4, <1>5
<1>7. \A z \in Quantities : z \in Int
  BY BoundsOK DEF Quantities
<1>8. \A t \in Slots : /\ L.left[t] + Stacked(L.inv[t]) \in Int
                        /\ B.left[t] + Stacked(B.inv[t]) \in Int
  <2> TAKE t \in Slots
  <2>1. L.left[t] \in Int /\ B.left[t] \in Int
    BY <1>2, <1>6, <1>7
  <2>2. Stacked(L.inv[t]) \in Int /\ Stacked(B.inv[t]) \in Int
    BY <1>2, <1>6, StackedType
  <2> QED
    BY <2>1, <2>2
<1>9. f \in [Slots -> Int] /\ h \in [Slots -> Int]
  BY <1>8
<1>10. \A t \in Slots \ {s, n} : h[t] = f[t]
  BY <1>4, <1>5
<1>11. h[s] + h[n] = f[s] + f[n]
  <2>1. L.inv[s][i] \in Quantities \cup {Null}
    BY <1>2 DEF Inventory
  <2>2. Quantity(q) = q /\ Quantity(L.inv[s][i]) \in Int
    BY <1>7, <2>1, BoundsOK DEF Quantity
  <2>3. /\ L.left[s] \in Int /\ L.left[n] \in Int /\ q \in Int /\ r \in Int
        /\ Stacked(L.inv[s]) \in Int /\ Stacked(L.inv[n]) \in Int
    BY <1>2, <1>7, StackedType
  <2>4. /\ f[s] = L.left[s] + Stacked(L.inv[s]) /\ f[n] = L.left[n] + Stacked(L.inv[n])
        /\ h[s] = L.left[s] + Stacked(B.inv[s]) /\ h[n] = r + Stacked(L.inv[n])
    BY <1>4, <1>5
  <2>5. Stacked(B.inv[s]) = Stacked(L.inv[s]) + q - Quantity(L.inv[s][i])
    BY <1>3, <1>4, <2>2
  <2>6. q + r = Quantity(L.inv[s][i]) + L.left[n]
    BY DEF Gift
  <2> HIDE DEF f, h
  <2> QED
    BY <2>2, <2>3, <2>4, <2>5, <2>6
<1>12. Sum(h, N) = Sum(f, N)
  <2> HIDE DEF f, h
  <2>1. f \in [1..N -> Int] /\ h \in [1..N -> Int] /\ s \in 1..N /\ n \in 1..N
        /\ \A t \in (1..N) \ {s, n} : h[t] = f[t]
    BY <1>1, <1>9, <1>10
  <2> QED
    BY <1>1, <1>11, <2>1, SumKept
<1> QED
  BY <1>12 DEF Items

\* Items are in stacks and item entities only.
LEMMA ItemsSame ==
    ASSUME NEW A, NEW B, B.left = A.left, B.inv = A.inv
    PROVE  Items(B) = Items(A)
BY DEF Items

\* The events tell of the index, kinds, inventories and tiles only.
LEMMA StreamedSame ==
    ASSUME NEW A, NEW B, B.index = A.index, B.kind = A.kind, B.inv = A.inv, B.tiles = A.tiles
    PROVE  Streamed(B) = Streamed(A)
BY DEF Streamed, Shown, Occupied

-----------------------------------------------------------------------------
(* What the operations on a level keep                                      *)

Sound(L) == L \in Levels /\ Agrees(L)

\* Where the entity in the slot is, the index has it.
Indexed(L, s) == L.index[L.pos[s]] = s

\* A client that has what is told of A when it has applied A's buffer has what is
\* told of B with B's.
Follows(A, B) ==
    \A v \in Views : Told(ApplyAll(v, A.buf)) = Streamed(A) => Told(ApplyAll(v, B.buf)) = Streamed(B)

\* What moves, pushes, gifts and edits of tiles make of level A.
Evolves(A, B) ==
    /\ Sound(B) /\ B.kind = A.kind
    /\ \A t \in Slots : Indexed(A, t) => Indexed(B, t)
    /\ Follows(A, B)
    /\ Items(B) = Items(A)

\* A sound level as it is has evolved.
LEMMA EvolvesNot == ASSUME NEW A, Sound(A) PROVE Evolves(A, A)
BY DEF Evolves, Follows

\* What evolves from what evolved has evolved.
LEMMA EvolvesOn ==
    ASSUME NEW A, NEW B, NEW C, Evolves(A, B), Evolves(B, C)
    PROVE  Evolves(A, C)
BY DEF Evolves, Follows

\* A change whose event, applied to the level as it was, gives the level as it
\* is, is told.
LEMMA IsTold ==
    ASSUME NEW A \in Levels, NEW e \in Events, NEW B, B.buf = Append(A.buf, e),
           Apply(Streamed(A), ToldEvent(e)) = Streamed(B)
    PROVE  Follows(A, B)
<1>1. A.buf \in Seq(Events)
  BY DEF Levels
<1>2. ASSUME NEW v \in Views, Told(ApplyAll(v, A.buf)) = Streamed(A)
      PROVE  Told(ApplyAll(v, B.buf)) = Streamed(B)
  <2>1. ApplyAll(v, B.buf) = Apply(ApplyAll(v, A.buf), e)
    BY <1>1, AppliedMore
  <2>2. ApplyAll(v, A.buf) \in Views
    BY <1>1, ApplyAllView
  <2> QED
    BY <1>2, <2>1, <2>2, ToldApply
<1> QED
  BY <1>2 DEF Follows

\* Of every event but an arrival all is told.
LEMMA ToldOther == ASSUME NEW e, e.op # "new" PROVE ToldEvent(e) = e
BY DEF ToldEvent

\* A change that no client knows of needs no event.
LEMMA Untold ==
    ASSUME NEW A, NEW B, B.buf = A.buf, B.index = A.index, B.kind = A.kind, B.inv = A.inv,
           B.tiles = A.tiles
    PROVE  Follows(A, B)
<1>1. Streamed(B) = Streamed(A)
  BY StreamedSame
<1> QED
  BY <1>1 DEF Follows

\* Health and faults are nobody's business.
LEMMA HurtEvolves ==
    ASSUME NEW L, Sound(L), NEW s \in Slots, NEW h \in MinHealth..MaxHealth
    PROVE  Evolves(L, [L EXCEPT !.health[s] = h])
<1> DEFINE B == [L EXCEPT !.health[s] = h]
<1>1. L \in Levels /\ Agrees(L)
  BY DEF Sound
<1>2. B.buf = L.buf /\ B.index = L.index /\ B.kind = L.kind /\ B.inv = L.inv
      /\ B.tiles = L.tiles /\ B.left = L.left /\ B.pos = L.pos
  BY <1>1 DEF Levels
<1>3. B \in Levels
  BY <1>1 DEF Levels
<1> HIDE DEF B
<1>4. Sound(B)
  BY <1>1, <1>2, <1>3 DEF Sound, Agrees, Occupied
<1>5. Follows(L, B) /\ Items(B) = Items(L)
  BY <1>2, Untold, ItemsSame
<1>6. Evolves(L, B)
  BY <1>2, <1>4, <1>5 DEF Evolves, Indexed
<1> QED
  BY <1>6 DEF B

\* An exception leaves the level as it is.
LEMMA FaultEvolves == ASSUME NEW L, Sound(L) PROVE Evolves(L, Fault(L))
<1> DEFINE B == Fault(L)
<1>1. L \in Levels /\ Agrees(L)
  BY DEF Sound
<1>2. B.buf = L.buf /\ B.index = L.index /\ B.kind = L.kind /\ B.inv = L.inv
      /\ B.tiles = L.tiles /\ B.left = L.left /\ B.pos = L.pos
  BY <1>1 DEF Levels, Fault
<1>3. B \in Levels
  BY <1>1 DEF Levels, Fault
<1> HIDE DEF B
<1>4. Sound(B)
  BY <1>1, <1>2, <1>3 DEF Sound, Agrees, Occupied
<1>5. Follows(L, B) /\ Items(B) = Items(L)
  BY <1>2, Untold, ItemsSame
<1>6. Evolves(L, B)
  BY <1>2, <1>4, <1>5 DEF Evolves, Indexed
<1> QED
  BY <1>6 DEF B

\* In a sound level the index has an entity at one place only, its own.
LEMMA OnePlace ==
    ASSUME NEW L, Sound(L), NEW p \in Cells, Occupied(L, p)
    PROVE  /\ L.index[p] \in Slots /\ L.pos[L.index[p]] = p /\ Indexed(L, L.index[p])
           /\ L.kind[L.index[p]] # "none"
<1>1. L.index[p] \in Slots
  BY DEF Sound, Levels, Occupied
<1> QED
  BY <1>1 DEF Sound, Agrees, Indexed

\* No slot stands for an empty place.
LEMMA SlotsAreSome == NoSlot \notin Slots
BY DEF NoSlot, Slots

-----------------------------------------------------------------------------
(* The operations of Movement                                               *)

\* The snapshot of a level, place by place.
LEMMA StreamedIs ==
    ASSUME NEW L, NEW ents, ents = [p \in Cells |-> ents[p]],
           \A p \in Cells : ents[p] = IF Occupied(L, p) THEN Shown(L, L.index[p]) ELSE Nobody
    PROVE  Streamed(L) = [lost |-> FALSE, tiles |-> L.tiles, ents |-> ents]
<1>1. ents = [p \in Cells |-> IF Occupied(L, p) THEN Shown(L, L.index[p]) ELSE Nobody]
  OBVIOUS
<1> QED
  BY <1>1 DEF Streamed

\* The same, from the snapshot.
LEMMA StreamedAt ==
    ASSUME NEW L
    PROVE  /\ Streamed(L).lost = FALSE /\ Streamed(L).tiles = L.tiles
           /\ Streamed(L).ents = [p \in Cells |-> Streamed(L).ents[p]]
           /\ \A p \in Cells : Streamed(L).ents[p]
                 = IF Occupied(L, p) THEN Shown(L, L.index[p]) ELSE Nobody
           /\ Streamed(L) = [lost |-> FALSE, tiles |-> L.tiles, ents |-> Streamed(L).ents]
BY DEF Streamed

\* The same of what is sent to who joins, with all that is serialized.
LEMMA SentAt ==
    ASSUME NEW L
    PROVE  /\ Snapshot(L).ents = [p \in Cells |-> Snapshot(L).ents[p]]
           /\ Snapshot(L) = [lost |-> FALSE, tiles |-> L.tiles, ents |-> Snapshot(L).ents]
BY DEF Snapshot

\* What is sent to who joins is a copy.
LEMMA SnapshotView == ASSUME NEW L \in Levels PROVE Snapshot(L) \in Views
<1>1. /\ L.index \in [Cells -> Slots \cup {NoSlot}] /\ L.kind \in [Slots -> Kinds]
      /\ L.inv \in [Slots -> Inventory] /\ L.health \in [Slots -> MinHealth..MaxHealth]
      /\ L.left \in [Slots -> Quantities] /\ L.tiles \in [0..LastTile -> 0..(Tiles - 1)]
  BY DEF Levels
<1>2. 0 \in MinHealth..MaxHealth /\ 0 \in Quantities
  BY BoundsOK DEF Quantities
<1>3. \A s \in Slots : Seen(L, s) \in Seens
  BY <1>1, <1>2 DEF Seen, Seens
<1>4. \A p \in Cells : Occupied(L, p) => L.index[p] \in Slots
  BY <1>1 DEF Occupied
<1> QED
  BY <1>1, <1>3, <1>4 DEF Snapshot, Views

\* An entity goes to a free place, and its entry with it.
LEMMA RelocateEvolves ==
    ASSUME NEW L, Sound(L), NEW s \in Slots, Indexed(L, s), NEW p \in Cells, ~Occupied(L, p)
    PROVE  Evolves(L, Relocate(L, s, p))
<1> DEFINE B == Relocate(L, s, p)
           o == L.pos[s]
           ev == [op |-> "move", at |-> o, to |-> p]
<1>1. /\ L.index \in [Cells -> Slots \cup {NoSlot}] /\ L.pos \in [Slots -> Cells]
      /\ L.buf \in Seq(Events) /\ L \in Levels
  BY DEF Sound, Levels
<1>2. o \in Cells /\ L.index[o] = s /\ L.index[p] = NoSlot /\ s # NoSlot /\ o # p
  BY <1>1, SlotsAreSome DEF Indexed, Occupied
<1>3. /\ B.index = [L.index EXCEPT ![o] = NoSlot, ![p] = s]
      /\ B.pos = [L.pos EXCEPT ![s] = p] /\ B.buf = Append(L.buf, ev)
      /\ B.kind = L.kind /\ B.inv = L.inv /\ B.tiles = L.tiles /\ B.left = L.left
      /\ B.health = L.health /\ B.fault = L.fault
  BY <1>2, <1>1 DEF Relocate, Emit, Unindex, Levels
<1>4. ev \in Events /\ ToldEvent(ev) = ev
  BY <1>2, ToldOther DEF Events
<1>5. B \in Levels
  <2>1. B = [L EXCEPT !.index = B.index, !.pos = B.pos, !.buf = B.buf]
    BY <1>1 DEF Relocate, Emit, Levels
  <2>2. B.index \in [Cells -> Slots \cup {NoSlot}] /\ B.pos \in [Slots -> Cells]
        /\ B.buf \in Seq(Events)
    BY <1>1, <1>2, <1>3, <1>4
  <2> HIDE DEF B
  <2> QED
    BY <1>1, <2>1, <2>2 DEF Levels
<1> HIDE DEF B
<1>6. \A q \in Cells : B.index[q] = IF q = p THEN s ELSE IF q = o THEN NoSlot ELSE L.index[q]
  BY <1>1, <1>2, <1>3
<1>7. \A t \in Slots : B.pos[t] = IF t = s THEN p ELSE L.pos[t]
  BY <1>1, <1>3
<1>8. \A q \in Cells : Occupied(L, q) => L.index[q] \in Slots /\ L.pos[L.index[q]] = q
                                          /\ L.kind[L.index[q]] # "none"
  BY OnePlace
<1>9. Agrees(B)
  <2> SUFFICES ASSUME NEW q \in Cells, B.index[q] # NoSlot
               PROVE  B.kind[B.index[q]] # "none" /\ B.pos[B.index[q]] = q
    BY DEF Agrees, Occupied
  <2>1. CASE q = p
    BY <1>2, <1>3, <1>6, <1>7, <1>8, <2>1 DEF Occupied
  <2>2. CASE q # p
    <3>1. q # o /\ B.index[q] = L.index[q]
      BY <1>6, <2>2
    <3>2. L.index[q] # s
      BY <1>2, <1>8, <3>1 DEF Occupied
    <3> QED
      BY <1>3, <1>7, <1>8, <3>1, <3>2 DEF Occupied
  <2> QED
    BY <2>1, <2>2
<1>10. ASSUME NEW t \in Slots, Indexed(L, t) PROVE Indexed(B, t)
  <2>1. L.index[L.pos[t]] = t /\ L.pos[t] \in Cells /\ t # NoSlot
    BY <1>1, <1>10, SlotsAreSome DEF Indexed
  <2>2. t # s => L.pos[t] # o /\ L.pos[t] # p
    BY <1>2, <2>1
  <2> QED
    BY <1>6, <1>7, <2>1, <2>2 DEF Indexed
<1>11. Apply(Streamed(L), ev) = Streamed(B)
  <2> DEFINE v == Streamed(L)
             ents == [v.ents EXCEPT ![o] = Nobody, ![p] = v.ents[o]]
  <2>1. /\ v.lost = FALSE /\ v = [lost |-> FALSE, tiles |-> L.tiles, ents |-> v.ents]
        /\ v.ents = [q \in Cells |-> v.ents[q]]
        /\ \A q \in Cells : v.ents[q] = IF Occupied(L, q) THEN Shown(L, L.index[q]) ELSE Nobody
    BY StreamedAt
  <2> HIDE DEF v
  <2>2. v.ents[o] = Shown(L, s) /\ v.ents[o].kind # "none"
    BY <1>2, <1>8, <2>1 DEF Occupied, Shown, Nobody
  <2>3. Apply(v, ev) = [lost |-> FALSE, tiles |-> L.tiles, ents |-> ents]
    BY <2>1, <2>2, ApplyMove
  <2>4. ents = [q \in Cells |-> ents[q]]
        /\ \A q \in Cells : ents[q] = IF q = p THEN v.ents[o] ELSE IF q = o THEN Nobody ELSE v.ents[q]
    BY <1>2, <2>1
  <2> HIDE DEF ents
  <2>5. \A q \in Cells : ents[q] = IF Occupied(B, q) THEN Shown(B, B.index[q]) ELSE Nobody
    <3> TAKE q \in Cells
    <3>1. Shown(B, B.index[q]) = Shown(L, B.index[q])
      BY <1>3 DEF Shown
    <3>2. CASE q = p
      BY <1>2, <1>6, <2>2, <2>4, <3>1, <3>2 DEF Occupied
    <3>3. CASE q = o
      BY <1>2, <1>6, <2>4, <3>3 DEF Occupied
    <3>4. CASE q # p /\ q # o
      BY <1>6, <2>1, <2>4, <3>1, <3>4 DEF Occupied
    <3> QED
      BY <3>2, <3>3, <3>4
  <2>6. Streamed(B) = [lost |-> FALSE, tiles |-> L.tiles, ents |-> ents]
    <3>1. Streamed(B) = [lost |-> FALSE, tiles |-> B.tiles, ents |-> ents]
      BY <2>4, <2>5, StreamedIs
    <3> QED
      BY <1>3, <3>1
  <2> QED
    BY <2>3, <2>6 DEF v
<1> HIDE DEF ev
<1>12. Follows(L, B) /\ Items(B) = Items(L)
  BY <1>1, <1>3, <1>4, <1>11, IsTold, ItemsSame
<1>13. Evolves(L, B)
  BY <1>3, <1>5, <1>9, <1>10, <1>12 DEF Evolves, Sound
<1> QED
  BY <1>13 DEF B

\* The mover takes from the item entity in its way what it puts into a stack.
LEMMA GiftEvolves ==
    ASSUME NEW L, Sound(L), NEW s \in Slots, Indexed(L, s), NEW n \in Slots, s # n,
           NEW i \in DOMAIN L.inv[s], NEW q \in Quantities, NEW r \in Quantities,
           q + r = Quantity(L.inv[s][i]) + L.left[n]
    PROVE  LET B == [PutStack(L, s, i, q) EXCEPT !.left[n] = r]
           IN  /\ Evolves(L, B) /\ B.pos = L.pos /\ B.left[n] = r
               /\ B.inv[s] = [L.inv[s] EXCEPT ![i] = q]
<1> DEFINE B == [PutStack(L, s, i, q) EXCEPT !.left[n] = r]
           o == L.pos[s]
           ev == [op |-> "item", at |-> o, slot |-> i, qty |-> q]
<1>1. /\ L.index \in [Cells -> Slots \cup {NoSlot}] /\ L.pos \in [Slots -> Cells]
      /\ L.buf \in Seq(Events) /\ L \in Levels /\ L.inv \in [Slots -> Inventory]
      /\ L.left \in [Slots -> Quantities]
  BY DEF Sound, Levels
<1>2. o \in Cells /\ L.index[o] = s /\ s # NoSlot
  BY <1>1, SlotsAreSome DEF Indexed, Occupied
<1>3. /\ B.inv = [L.inv EXCEPT ![s][i] = q] /\ B.left = [L.left EXCEPT ![n] = r]
      /\ B.buf = Append(L.buf, ev)
      /\ B.kind = L.kind /\ B.index = L.index /\ B.tiles = L.tiles /\ B.pos = L.pos
      /\ B.health = L.health /\ B.fault = L.fault
  BY <1>1 DEF PutStack, Emit, Levels
<1>4. ev \in Events /\ ToldEvent(ev) = ev
  <2>1. i \in Nat
    BY <1>1 DEF Inventory
  <2> QED
    BY <1>2, <2>1, ToldOther DEF Events
<1>5. [L.inv[s] EXCEPT ![i] = q] \in Inventory
  BY <1>1, StackedChange
<1>6. \A t \in Slots : B.inv[t] = IF t = s THEN [L.inv[s] EXCEPT ![i] = q] ELSE L.inv[t]
  BY <1>1, <1>3
<1>7. B \in Levels
  <2>1. B = [L EXCEPT !.inv = B.inv, !.left = B.left, !.buf = B.buf]
    BY <1>1 DEF PutStack, Emit, Levels
  <2>2. B.inv \in [Slots -> Inventory]
    <3>1. B.inv = [t \in Slots |-> B.inv[t]]
      BY <1>1, <1>3
    <3>2. \A t \in Slots : B.inv[t] \in Inventory
      BY <1>1, <1>5, <1>6
    <3> QED
      BY <3>1, <3>2
  <2>3. B.left \in [Slots -> Quantities]
    <3> HIDE DEF B, ev
    <3> QED
      BY <1>1, <1>3
  <2>4. B.buf \in Seq(Events)
    <3> HIDE DEF B, ev
    <3> QED
      BY <1>1, <1>3, <1>4
  <2> HIDE DEF B, ev
  <2> QED
    BY <1>1, <2>1, <2>2, <2>3, <2>4 DEF Levels
<1> HIDE DEF B
<1>8. \A p \in Cells : Occupied(L, p) => L.index[p] \in Slots /\ L.pos[L.index[p]] = p
                                          /\ L.kind[L.index[p]] # "none"
  BY OnePlace
<1>9. Sound(B)
  BY <1>3, <1>7, <1>8 DEF Sound, Agrees, Occupied
<1>10. Apply(Streamed(L), ev) = Streamed(B)
  <2> DEFINE v == Streamed(L)
             ents == [v.ents EXCEPT ![o].inv[i] = q]
  <2>1. /\ v.lost = FALSE /\ v = [lost |-> FALSE, tiles |-> L.tiles, ents |-> v.ents]
        /\ v.ents = [p \in Cells |-> v.ents[p]]
        /\ \A p \in Cells : v.ents[p] = IF Occupied(L, p) THEN Shown(L, L.index[p]) ELSE Nobody
    BY StreamedAt
  <2> HIDE DEF v
  <2>2. v.ents[o] = Shown(L, s) /\ v.ents[o].kind # "none"
    BY <1>2, <1>8, <2>1 DEF Occupied, Shown, Nobody
  <2>3. Apply(v, ev) = [lost |-> FALSE, tiles |-> L.tiles, ents |-> ents]
    BY <2>1, <2>2, ApplyItem
  <2>4. ents = [p \in Cells |-> ents[p]]
        /\ \A p \in Cells : ents[p] = IF p = o THEN [v.ents[o] EXCEPT !.inv[i] = q] ELSE v.ents[p]
    BY <1>2, <2>1
  <2> HIDE DEF ents
  <2>5. \A p \in Cells : ents[p] = IF Occupied(B, p) THEN Shown(B, B.index[p]) ELSE Nobody
    <3> TAKE p \in Cells
    <3>1. CASE p = o
      <4>1. Shown(B, s) = [kind |-> L.kind[s], inv |-> [L.inv[s] EXCEPT ![i] = q]]
        BY <1>3, <1>6 DEF Shown
      <4>2. [Shown(L, s) EXCEPT !.inv[i] = q] = [kind |-> L.kind[s], inv |-> [L.inv[s] EXCEPT ![i] = q]]
        BY DEF Shown
      <4> QED
        BY <1>2, <1>3, <2>2, <2>4, <3>1, <4>1, <4>2 DEF Occupied
    <3>2. CASE p # o /\ Occupied(B, p)
      <4>1. L.index[p] # s /\ L.index[p] \in Slots
        BY <1>2, <1>3, <1>8, <3>2 DEF Occupied
      <4>2. Shown(B, L.index[p]) = Shown(L, L.index[p])
        BY <1>3, <1>6, <4>1 DEF Shown
      <4> QED
        BY <1>3, <2>1, <2>4, <3>2, <4>2 DEF Occupied
    <3>3. CASE p # o /\ ~Occupied(B, p)
      BY <1>3, <2>1, <2>4, <3>3 DEF Occupied
    <3> QED
      BY <3>1, <3>2, <3>3
  <2>6. Streamed(B) = [lost |-> FALSE, tiles |-> L.tiles, ents |-> ents]
    <3>1. Streamed(B) = [lost |-> FALSE, tiles |-> B.tiles, ents |-> ents]
      BY <2>4, <2>5, StreamedIs
    <3> QED
      BY <1>3, <3>1
  <2> QED
    BY <2>3, <2>6 DEF v
<1> HIDE DEF ev
<1>11. Follows(L, B)
  BY <1>1, <1>3, <1>4, <1>10, IsTold
<1>12. Items(B) = Items(L)
  <2>1. \A t \in Slots : B.left[t] = IF t = n THEN r ELSE L.left[t]
    BY <1>1, <1>3
  <2>2. Gift(L, B, s, n, i, q, r)
    BY <1>6, <2>1 DEF Gift
  <2> QED
    BY <1>1, <2>2, ItemsChange
<1>13. Evolves(L, B)
  BY <1>3, <1>9, <1>11, <1>12 DEF Evolves, Indexed
<1>14. B.left[n] = r /\ B.inv[s] = [L.inv[s] EXCEPT ![i] = q]
  BY <1>1, <1>3, <1>6
<1> QED
  BY <1>3, <1>13, <1>14 DEF B

\* The lesser of a quantity and a room is a quantity.
LEMMA LeastType ==
    ASSUME NEW a \in Quantities, NEW b \in Int, b >= 0
    PROVE  Least(a, b) \in Quantities /\ Least(a, b) =< a /\ Least(a, b) =< b
BY BoundsOK DEF Least, Quantities

\* Filling up one stack.
LEMMA FillStackEvolves ==
    ASSUME NEW L, Sound(L), NEW s \in Slots, Indexed(L, s), NEW n \in Slots, s # n,
           NEW i \in DOMAIN L.inv[s]
    PROVE  LET B == FillStack(L, s, n, i)
           IN  Evolves(L, B) /\ B.pos = L.pos /\ DOMAIN B.inv[s] = DOMAIN L.inv[s]
<1> DEFINE a == L.inv[s][i]
           moved == Least(L.left[n], Room(a))
<1>1. L.inv[s] \in Inventory /\ L.left[n] \in Quantities
  BY DEF Sound, Levels
<1>2. a \in Quantities \cup {Null}
  BY <1>1 DEF Inventory
<1>3. MaxStack \in Nat /\ \A z \in Int : z \in Quantities <=> 0 =< z /\ z =< MaxStack
  BY BoundsOK DEF Quantities
<1>4. CASE moved = 0
  BY <1>4, EvolvesNot DEF FillStack
<1>5. CASE moved # 0
  <2>1. Room(a) \in Int /\ Room(a) >= 0
    BY <1>2, <1>3 DEF Room, Quantities
  <2>2. moved \in Quantities /\ moved =< L.left[n] /\ moved =< Room(a)
    BY <1>1, <2>1, LeastType
  <2>3. a # Null
    <3>1. CASE a = Null
      <4>1. Room(a) = 0
        BY <3>1 DEF Room
      <4> HIDE DEF moved, a
      <4>2. moved \in Int /\ 0 =< moved
        BY <1>3, <2>2 DEF Quantities
      <4> QED
        BY <1>5, <2>2, <4>1, <4>2
    <3> QED
      BY <3>1
  <2>4. a \in Int /\ L.left[n] \in Int /\ moved \in Int /\ Room(a) = MaxStack - a
        /\ 0 =< a /\ 0 =< moved /\ 0 =< L.left[n] /\ L.left[n] =< MaxStack
    BY <1>1, <1>2, <1>3, <2>2, <2>3 DEF Room, Quantities
  <2> DEFINE z == L.left[n]
  <2>5. a + moved \in Quantities /\ z - moved \in Quantities
    <3> HIDE DEF a, z, moved
    <3>1. z \in Int /\ moved =< z /\ z =< MaxStack
      BY <2>2, <2>4 DEF z
    <3>2. a + moved \in Int /\ 0 =< a + moved /\ a + moved =< MaxStack
      BY <1>3, <2>2, <2>4
    <3>3. z - moved \in Int /\ 0 =< z - moved /\ z - moved =< MaxStack
      BY <1>3, <2>4, <3>1
    <3> QED
      BY <1>3, <3>2, <3>3
  <2>6. (a + moved) + (z - moved) = Quantity(a) + z
    <3>1. Quantity(a) = a
      BY <2>3 DEF Quantity
    <3>2. z \in Int
      BY <2>4
    <3> HIDE DEF a, z, moved
    <3> QED
      BY <2>4, <3>1, <3>2
  <2>7. FillStack(L, s, n, i) = [PutStack(L, s, i, a + moved) EXCEPT !.left[n] = z - moved]
    <3>1. PutStack(L, s, i, a + moved).left = L.left
      BY DEF PutStack, Emit, Sound, Levels
    <3> HIDE DEF moved
    <3>2. FillStack(L, s, n, i) = [PutStack(L, s, i, a + moved) EXCEPT !.left[n] = @ - moved]
      BY <1>5 DEF FillStack, moved
    <3> QED
      BY <3>1, <3>2
  <2> DEFINE q == a + moved
             r == z - moved
             B == [PutStack(L, s, i, q) EXCEPT !.left[n] = r]
  <2>8. q + r = Quantity(L.inv[s][i]) + L.left[n]
    BY <2>6
  <2> HIDE DEF moved, q, r
  <2>9. Evolves(L, B) /\ B.pos = L.pos /\ B.inv[s] = [L.inv[s] EXCEPT ![i] = q]
    BY <2>5, <2>8, GiftEvolves DEF q, r
  <2>10. FillStack(L, s, n, i) = B
    BY <2>7 DEF q, r
  <2> HIDE DEF B
  <2> QED
    BY <2>9, <2>10
<1> QED
  BY <1>4, <1>5

OnStack(x, L) == FillStack(L, x.s, x.n, x.i)
Stacks == INSTANCE Recursion WITH Step <- OnStack

\* g has the levels that filling up the stacks one by one leads through.
Fills(L, s, n, len, g) ==
    g = [j \in 0..len |-> IF j = 0 THEN L ELSE FillStack(g[j - 1], s, n, j)]

\* The recursive function is there.
LEMMA FillExists ==
    ASSUME NEW L, NEW s, NEW n, NEW len \in Nat
    PROVE  \E g : Fills(L, s, n, len, g)
<1> DEFINE inputs == [j \in 1..len |-> [s |-> s, n |-> n, i |-> j]]
<1>1. PICK g : Stacks!Run(L, inputs, len, g)
  BY Stacks!RunExists
<1>2. g = [j \in 0..len |-> IF j = 0 THEN L ELSE OnStack(inputs[j], g[j - 1])]
  <2> HIDE DEF inputs
  <2> QED
    BY <1>1, Stacks!RunEquation
<1>3. \A j \in 1..len : OnStack(inputs[j], g[j - 1]) = FillStack(g[j - 1], s, n, j)
  BY DEF OnStack
<1> HIDE DEF inputs
<1>4. \A j \in 0..len : (IF j = 0 THEN L ELSE OnStack(inputs[j], g[j - 1]))
                          = (IF j = 0 THEN L ELSE FillStack(g[j - 1], s, n, j))
  <2> TAKE j \in 0..len
  <2>1. j = 0 \/ j \in 1..len
    OBVIOUS
  <2> QED
    BY <1>3, <2>1
<1>5. g = [j \in 0..len |-> IF j = 0 THEN L ELSE FillStack(g[j - 1], s, n, j)]
  BY <1>2, <1>4
<1> QED
  BY <1>5 DEF Fills

\* Filling up all stacks.
LEMMA FillStacksEvolves ==
    ASSUME NEW L, Sound(L), NEW s \in Slots, Indexed(L, s), NEW n \in Slots, s # n
    PROVE  LET F == FillStacks(L, s, n)
           IN  Evolves(L, F) /\ F.pos = L.pos /\ DOMAIN F.inv[s] = DOMAIN L.inv[s]
<1> DEFINE len == Len(L.inv[s])
           fill == CHOOSE g : Fills(L, s, n, len, g)
<1>1. len \in Nat /\ DOMAIN L.inv[s] = 1..len
  BY DEF Sound, Levels, Inventory
<1>2. FillStacks(L, s, n) = fill[len]
  BY DEF FillStacks, Fills
<1> HIDE DEF len
<1>3. Fills(L, s, n, len, fill)
  BY <1>1, FillExists
<1> HIDE DEF fill
<1>4. fill[0] = L /\ \A j \in 0..(len - 1) : fill[j + 1] = FillStack(fill[j], s, n, j + 1)
  <2>1. \A j \in 0..len : fill[j] = IF j = 0 THEN L ELSE FillStack(fill[j - 1], s, n, j)
    BY <1>3 DEF Fills
  <2>2. fill[0] = L
    BY <1>1, <2>1
  <2>3. ASSUME NEW j \in 0..(len - 1) PROVE fill[j + 1] = FillStack(fill[j], s, n, j + 1)
    <3>1. j + 1 \in 0..len /\ j + 1 # 0 /\ (j + 1) - 1 = j
      BY <1>1
    <3> QED
      BY <2>1, <3>1
  <2> QED
    BY <2>2, <2>3
<1> DEFINE Good(F) == Evolves(L, F) /\ F.pos = L.pos /\ DOMAIN F.inv[s] = DOMAIN L.inv[s]
           T == {j \in 0..len : Good(fill[j])}
<1>5. 0 \in T
  BY <1>1, <1>4, EvolvesNot
<1>6. ASSUME NEW j \in 0..(len - 1), j \in T PROVE j + 1 \in T
  <2> DEFINE F == fill[j]
  <2>1. Good(F) /\ j + 1 \in 1..len /\ j + 1 \in 0..len
    BY <1>1, <1>6
  <2>2. fill[j + 1] = FillStack(F, s, n, j + 1)
    BY <1>4
  <2> HIDE DEF F
  <2>3. Sound(F) /\ Indexed(F, s) /\ j + 1 \in DOMAIN F.inv[s]
    BY <1>1, <2>1 DEF Evolves
  <2>4. Evolves(F, fill[j + 1]) /\ fill[j + 1].pos = F.pos
        /\ DOMAIN fill[j + 1].inv[s] = DOMAIN F.inv[s]
    BY <2>2, <2>3, FillStackEvolves
  <2>5. Good(fill[j + 1])
    BY <2>1, <2>4, EvolvesOn
  <2> HIDE DEF Good
  <2> QED
    BY <2>1, <2>5
<1>7. 0..len \subseteq T
  <2> HIDE DEF T
  <2> QED
    BY <1>1, <1>5, <1>6, Stacks!Induction
<1>8. Good(fill[len])
  <2> HIDE DEF Good
  <2>1. len \in 0..len
    BY <1>1
  <2> QED
    BY <1>7, <2>1
<1> QED
  BY <1>2, <1>8

\* give leaves the index as it is, and takes from the item what it gives.
LEMMA GiveEvolves ==
    ASSUME NEW L, Sound(L), NEW s \in Slots, Indexed(L, s), NEW n \in Slots, s # n
    PROVE  Evolves(L, Give(L, s, n))
<1> DEFINE F == FillStacks(L, s, n)
           empty == {i \in DOMAIN F.inv[s] : F.inv[s][i] = Null}
           least(i) == \A k \in empty : i <= k
           i == CHOOSE j \in empty : least(j)
<1>1. Evolves(L, F)
  BY FillStacksEvolves
<1>2. CASE empty = {} \/ (F.left[n] = 0 /\ L.left[n] # 0)
  BY <1>1, <1>2 DEF Give
<1>3. CASE ~ (empty = {} \/ (F.left[n] = 0 /\ L.left[n] # 0))
  <2> DEFINE q == F.left[n]
             B == [PutStack(F, s, i, q) EXCEPT !.left[n] = 0]
  <2>1. Give(L, s, n) = B
    BY <1>3 DEF Give, UsedUp
  <2> HIDE DEF F
  <2>2. Sound(F) /\ Indexed(F, s)
    BY <1>1 DEF Evolves
  <2>3. DOMAIN F.inv[s] \subseteq Nat
    BY <2>2 DEF Sound, Levels, Inventory
  <2>4. \E j \in empty : least(j)
    <3>1. empty \in SUBSET Nat /\ empty # {}
      BY <1>3, <2>3
    <3> HIDE DEF empty
    <3> QED
      BY <3>1, Stacks!Least
  <2>5. i \in empty
    <3> HIDE DEF least, empty
    <3> QED
      BY <2>4
  <2>6. i \in DOMAIN F.inv[s] /\ F.inv[s][i] = Null
    BY <2>5
  <2> HIDE DEF i
  <2>7. q \in Quantities /\ 0 \in Quantities /\ q + 0 = Quantity(F.inv[s][i]) + F.left[n]
    <3>1. q \in Quantities
      BY <2>2 DEF Sound, Levels
    <3>2. q \in Int /\ 0 \in Quantities
      BY <3>1, BoundsOK DEF Quantities
    <3>3. Quantity(F.inv[s][i]) = 0
      BY <2>6 DEF Quantity
    <3> QED
      BY <3>1, <3>2, <3>3
  <2>8. Evolves(F, B)
    BY <2>2, <2>6, <2>7, GiftEvolves
  <2> HIDE DEF B
  <2> QED
    BY <1>1, <2>1, <2>8, EvolvesOn
<1> QED
  BY <1>2, <1>3

-----------------------------------------------------------------------------
(* moveBy                                                                   *)

\* A clamped coordinate is a natural number, though not always on the board.
LEMMA ClampType ==
    ASSUME NEW x \in Nat, NEW dx \in Int
    PROVE  ClampX(x, dx) \in Nat /\ ClampY(x, dx) \in Nat
BY BoardOK DEF ClampX, ClampY

\* A place whose tile is in the array is one of the cells.
LEMMA CellOfTile ==
    ASSUME NEW x \in Nat, NEW y \in Nat, TileAt(Pos(x, y)) =< LastTile
    PROVE  Pos(x, y) \in Cells
<1>1. Width \in Nat /\ Width >= 1 /\ Height \in Nat /\ Height >= 1
  BY BoardOK
<1>2. Width * y + x =< Width * Height - 1
  BY DEF TileAt, Pos, LastTile
<1>3. Width * y >= 0 /\ Width * Height \in Int
  BY <1>1
<1>4. x =< Width * Height - 1
  BY <1>1, <1>2, <1>3
<1>5. y =< Height - 1
  <2>1. SUFFICES ASSUME y >= Height PROVE FALSE
    BY <1>1
  <2>2. Width * y >= Width * Height
    BY <1>1, <2>1
  <2> QED
    BY <1>1, <1>2, <1>3, <2>2
<1> QED
  BY <1>1, <1>3, <1>4, <1>5 DEF Cells, Pos, LastTile

\* What moveBy is, one level further down.
Deep(deeper) ==
    \A a \in Calls : Sound(a.L) /\ Indexed(a.L, a.s) => Evolves(a.L, deeper[a].L)

\* One call of moveBy further down.
LEMMA CallEvolves ==
    ASSUME NEW deeper, Deep(deeper), NEW L, Sound(L), NEW n \in Slots, Indexed(L, n),
           NEW dx \in Int, NEW dy \in Int
    PROVE  Evolves(L, deeper[Call(L, n, dx, dy)].L)
<1> DEFINE a == Call(L, n, dx, dy)
<1>1. a \in Calls /\ a.L = L /\ a.s = n
  BY DEF Call, Calls, Sound
<1> HIDE DEF a
<1>2. Evolves(a.L, deeper[a].L)
  BY <1>1 DEF Deep
<1> QED
  BY <1>1, <1>2 DEF a

\* One more vector, if the last one failed.
LEMMA OrElseEvolves ==
    ASSUME NEW deeper, Deep(deeper), NEW A, NEW n \in Slots, Indexed(A, n),
           NEW r, Evolves(A, r.L), NEW dx \in Int, NEW dy \in Int
    PROVE  Evolves(A, OrElse(r, n, dx, dy, deeper).L)
<1>1. Sound(r.L) /\ Indexed(r.L, n)
  BY DEF Evolves
<1>2. Evolves(r.L, deeper[Call(r.L, n, dx, dy)].L)
  BY <1>1, CallEvolves
<1>3. Evolves(A, deeper[Call(r.L, n, dx, dy)].L)
  BY <1>2, EvolvesOn
<1> QED
  BY <1>3 DEF OrElse

\* The four vectors of a push.
LEMMA PushEvolves ==
    ASSUME NEW deeper, Deep(deeper), NEW L, Sound(L), NEW n \in Slots, Indexed(L, n),
           NEW dx \in Int, NEW dy \in Int
    PROVE  Evolves(L, Push(L, n, dx, dy, deeper).L)
<1> DEFINE a == deeper[Call(L, n, dx, dy)]
           b == OrElse(a, n, -dy, dx, deeper)
           c == OrElse(b, n, dy, -dx, deeper)
           e == OrElse(c, n, -(2 * dx), -(2 * dy), deeper)
<1>1. -dx \in Int /\ -dy \in Int /\ -(2 * dx) \in Int /\ -(2 * dy) \in Int
  OBVIOUS
<1>2. Push(L, n, dx, dy, deeper) = e
  BY DEF Push
<1>3. Evolves(L, a.L)
  BY CallEvolves
<1> HIDE DEF a
<1>4. Evolves(L, b.L)
  BY <1>1, <1>3, OrElseEvolves
<1> HIDE DEF b
<1>5. Evolves(L, c.L)
  BY <1>1, <1>4, OrElseEvolves
<1> HIDE DEF c
<1>6. Evolves(L, e.L)
  BY <1>1, <1>5, OrElseEvolves
<1> QED
  BY <1>2, <1>6

\* Whoever stands in the way takes, is pushed and is followed, if it has gone.
LEMMA ShoveEvolves ==
    ASSUME NEW deeper, Deep(deeper), NEW L, Sound(L), NEW s \in Slots, Indexed(L, s),
           NEW dest \in Cells, Occupied(L, dest), dest # L.pos[s],
           NEW dx \in Int, NEW dy \in Int
    PROVE  Evolves(L, Shove(L, s, dest, dx, dy, deeper).L)
<1> DEFINE n == L.index[dest]
           met == IF L.kind[n] = "item" THEN Give(L, s, n) ELSE L
           r == Push(met, n, dx, dy, deeper)
<1>1. n \in Slots /\ Indexed(L, n) /\ n # s
  BY OnePlace
<1>2. Evolves(L, met)
  BY <1>1, GiveEvolves, EvolvesNot
<1>3. Shove(L, s, dest, dx, dy, deeper).L
        = IF r.ok /\ ~Occupied(r.L, dest) THEN Relocate(r.L, s, dest) ELSE r.L
  BY DEF Shove, Moved, Denied
<1> HIDE DEF n, met
<1>4. Sound(met) /\ Indexed(met, n) /\ Indexed(met, s)
  BY <1>1, <1>2 DEF Evolves
<1>5. Evolves(met, r.L)
  BY <1>1, <1>4, PushEvolves
<1> HIDE DEF r
<1>6. Evolves(L, r.L)
  BY <1>2, <1>5, EvolvesOn
<1>7. ASSUME ~Occupied(r.L, dest) PROVE Evolves(L, Relocate(r.L, s, dest))
  <2>1. Sound(r.L) /\ Indexed(r.L, s)
    BY <1>6 DEF Evolves
  <2> QED
    BY <1>6, <1>7, <2>1, RelocateEvolves, EvolvesOn
<1> QED
  BY <1>3, <1>6, <1>7

\* One level of moveBy, given what the next one does.
LEMMA AttemptEvolves ==
    ASSUME NEW deeper, Deep(deeper), NEW L0, Sound(L0), NEW s \in Slots, Indexed(L0, s),
           NEW dx \in Int, NEW dy \in Int, NEW d \in Int
    PROVE  Evolves(L0, Attempt(L0, s, dx, dy, d, deeper).L)
<1> DEFINE L == Hurt(L0, s, d)
           x == ClampX(L.pos[s].x, dx)
           y == ClampY(L.pos[s].y, dy)
           dest == Pos(x, y)
           r == Attempt(L0, s, dx, dy, d, deeper)
<1>1. Evolves(L0, L)
  <2>1. CASE d > 0 /\ L0.health[s] > MinHealth
    <3>1. L0.health[s] \in MinHealth..MaxHealth
      BY DEF Sound, Levels
    <3>2. L0.health[s] - 1 \in MinHealth..MaxHealth
      BY <2>1, <3>1, BoundsOK
    <3>3. L = [L0 EXCEPT !.health[s] = L0.health[s] - 1]
      BY <2>1 DEF Hurt
    <3> HIDE DEF L
    <3> QED
      BY <3>2, <3>3, HurtEvolves
  <2>2. CASE ~ (d > 0 /\ L0.health[s] > MinHealth)
    BY <2>2, EvolvesNot DEF Hurt
  <2> QED
    BY <2>1, <2>2
<1>2. \/ r.L = L
      \/ r.L = Fault(L)
      \/ TileAt(dest) =< LastTile /\ ~Occupied(L, dest) /\ r.L = Relocate(L, s, dest)
      \/ /\ TileAt(dest) =< LastTile /\ Occupied(L, dest) /\ dest # L.pos[s]
         /\ r = Shove(L, s, dest, dx, dy, deeper)
  <2>1. TileAt(dest) > LastTile \/ TileAt(dest) =< LastTile
    <3>1. L.pos[s] \in Cells
      BY <1>1 DEF Evolves, Sound, Levels
    <3>2. L.pos[s].x \in Nat /\ L.pos[s].y \in Nat
      BY <3>1, BoardOK DEF Cells, LastTile
    <3>3. x \in Nat /\ y \in Nat
      BY <3>2, ClampType
    <3> HIDE DEF L, x, y
    <3> QED
      BY <3>3, BoardOK DEF Pos, TileAt, LastTile
  <2> HIDE DEF L, x, y
  <2> QED
    BY <2>1 DEF Attempt, Denied, Moved, L, x, y
<1>3. Sound(L) /\ Indexed(L, s)
  BY <1>1 DEF Evolves
<1> HIDE DEF L
<1>4. TileAt(dest) =< LastTile => dest \in Cells
  <2>1. L.pos[s] \in Cells
    BY <1>3 DEF Sound, Levels
  <2>2. L.pos[s].x \in Nat /\ L.pos[s].y \in Nat
    BY <2>1, BoardOK DEF Cells, LastTile
  <2>3. x \in Nat /\ y \in Nat
    BY <2>2, ClampType
  <2> HIDE DEF x, y
  <2> QED
    BY <2>3, CellOfTile
<1> HIDE DEF dest, r
<1>5. Evolves(L, r.L)
  BY <1>2, <1>3, <1>4, EvolvesNot, FaultEvolves, RelocateEvolves, ShoveEvolves
<1> QED
  BY <1>1, <1>5, EvolvesOn DEF r

OnLevel(left, deeper) ==
    [a \in Calls |-> Attempt(a.L, a.s, a.dx, a.dy, MaxDepth + 1 - left, deeper)]
Depths == INSTANCE Recursion WITH Step <- OnLevel

\* One level of moveBy, call by call.
LEMMA OnLevelAt ==
    ASSUME NEW left, NEW deeper, NEW a \in Calls
    PROVE  OnLevel(left, deeper)[a]
             = Attempt(a.L, a.s, a.dx, a.dy, MaxDepth + 1 - left, deeper)
BY DEF OnLevel

\* g is what moveBy does with each number of levels left.
Moves(g) ==
    g = [left \in 0..(MaxDepth + 1) |->
           IF left = 0 THEN [a \in Calls |-> Denied(a.L)]
           ELSE [a \in Calls |-> Attempt(a.L, a.s, a.dx, a.dy, MaxDepth + 1 - left, g[left - 1])]]

\* The recursion of moveBy has a solution.
LEMMA MovesExists == \E g : Moves(g)
<1> DEFINE n == MaxDepth + 1
           inputs == [i \in 1..n |-> i]
           start == [a \in Calls |-> Denied(a.L)]
<1>1. n \in Nat
  BY BoundsOK
<1>2. \A i \in 1..n : inputs[i] = i
  OBVIOUS
<1> HIDE DEF inputs, start
<1>3. PICK g : Depths!Run(start, inputs, n, g)
  BY <1>1, Depths!RunExists
<1>4. g = [i \in 0..n |-> IF i = 0 THEN start ELSE OnLevel(inputs[i], g[i - 1])]
  BY <1>1, <1>3, Depths!RunEquation
<1>5. \A i \in 0..n : (IF i = 0 THEN start ELSE OnLevel(inputs[i], g[i - 1]))
                        = (IF i = 0 THEN start ELSE OnLevel(i, g[i - 1]))
  <2> TAKE i \in 0..n
  <2>1. i = 0 \/ i \in 1..n
    BY <1>1
  <2> QED
    BY <1>2, <2>1
<1>6. g = [i \in 0..n |-> IF i = 0 THEN start ELSE OnLevel(i, g[i - 1])]
  BY <1>4, <1>5
<1> QED
  BY <1>6 DEF Moves, OnLevel, start

\* Within any depth, moveBy keeps the level sound and tells the clients.
LEMMA DeepMove ==
    ASSUME NEW left \in 0..(MaxDepth + 1) PROVE Deep(move[left])
<1> DEFINE n == MaxDepth + 1
           T == {k \in 0..n : Deep(move[k])}
<1>1. n \in Nat /\ n \in Int
  BY BoundsOK
<1>2. Moves(move)
  <2>1. move = CHOOSE g : Moves(g)
    BY DEF move, Moves
  <2> QED
    BY <2>1, MovesExists
<1>3. \A k \in 0..n : move[k] = IF k = 0 THEN [a \in Calls |-> Denied(a.L)]
                                ELSE OnLevel(k, move[k - 1])
  BY <1>2 DEF Moves, OnLevel
<1>4. 0 \in T
  <2>1. move[0] = [a \in Calls |-> Denied(a.L)]
    BY <1>1, <1>3
  <2>2. ASSUME NEW a \in Calls, Sound(a.L) PROVE Evolves(a.L, move[0][a].L)
    <3>1. move[0][a].L = a.L
      BY <2>1 DEF Denied
    <3> QED
      BY <2>2, <3>1, EvolvesNot
  <2> QED
    BY <1>1, <2>2 DEF Deep
<1>5. ASSUME NEW k \in 0..(n - 1), k \in T PROVE k + 1 \in T
  <2>1. k + 1 \in 0..n /\ k + 1 # 0 /\ (k + 1) - 1 = k /\ MaxDepth + 1 - (k + 1) \in Int
    BY <1>1, BoundsOK
  <2>2. Deep(move[k])
    BY <1>5
  <2>3. move[k + 1] = OnLevel(k + 1, move[k])
    BY <1>3, <2>1
  <2>4. ASSUME NEW a \in Calls, Sound(a.L), Indexed(a.L, a.s)
        PROVE  Evolves(a.L, move[k + 1][a].L)
    <3>1. a.s \in Slots /\ a.dx \in Int /\ a.dy \in Int
      BY DEF Calls
    <3>2. move[k + 1][a] = Attempt(a.L, a.s, a.dx, a.dy, MaxDepth + 1 - (k + 1), move[k])
      BY <2>3, OnLevelAt
    <3> DEFINE d == MaxDepth + 1 - (k + 1)
               before == move[k]
               L == a.L
               s == a.s
               dx == a.dx
               dy == a.dy
    <3>3. d \in Int /\ Deep(before) /\ Sound(L) /\ Indexed(L, s) /\ s \in Slots
          /\ dx \in Int /\ dy \in Int /\ move[k + 1][a] = Attempt(L, s, dx, dy, d, before)
      BY <2>1, <2>2, <2>4, <3>1, <3>2
    <3> HIDE DEF d, before, L, s, dx, dy
    <3>4. Evolves(L, move[k + 1][a].L)
      BY <3>3, AttemptEvolves
    <3> QED
      BY <3>4 DEF L
  <2>5. Deep(move[k + 1])
    BY <2>4 DEF Deep
  <2> QED
    BY <2>1, <2>5
<1>6. 0..n \subseteq T
  <2> HIDE DEF T, n
  <2> QED
    BY <1>1, <1>4, <1>5, Depths!Induction
<1> QED
  BY <1>6

\* However far its pushing recurses, moveBy leaves a level that evolved.
THEOREM MoveByEvolves ==
    ASSUME NEW L, Sound(L), NEW s \in Slots, Indexed(L, s), NEW dx \in Int, NEW dy \in Int
    PROVE  Evolves(L, MoveBy(L, s, dx, dy))
<1>1. MaxDepth + 1 \in 0..(MaxDepth + 1)
  BY BoundsOK
<1>2. Deep(move[MaxDepth + 1])
  BY <1>1, DeepMove
<1> DEFINE deeper == move[MaxDepth + 1]
<1> HIDE DEF deeper
<1>3. Evolves(L, deeper[Call(L, s, dx, dy)].L)
  BY <1>2, CallEvolves DEF deeper
<1> QED
  BY <1>3 DEF MoveBy, deeper

-----------------------------------------------------------------------------
(* Edits of tiles                                                           *)

\* An edited tile is told, or is an exception.
LEMMA SetTileEvolves ==
    ASSUME NEW L, Sound(L), NEW t \in Nat, NEW x \in 0..(Tiles - 1)
    PROVE  Evolves(L, SetTile(L, t, x)) /\ SetTile(L, t, x).pos = L.pos
<1>1. LastTile \in Int
  BY BoardOK DEF LastTile
<1>2. CASE t > LastTile
  BY <1>2, FaultEvolves DEF SetTile, Fault, Sound, Levels
<1>3. CASE ~ (t > LastTile)
  <2> DEFINE ev == [op |-> "tile", tile |-> t, val |-> x]
             B == Emit([L EXCEPT !.tiles[t] = x], ev)
  <2>1. SetTile(L, t, x) = B
    BY <1>3 DEF SetTile
  <2>2. t \in 0..LastTile
    BY <1>1, <1>3
  <2>3. L \in Levels /\ L.tiles \in [0..LastTile -> 0..(Tiles - 1)] /\ L.buf \in Seq(Events)
    BY DEF Sound, Levels
  <2>4. ev \in Events /\ ToldEvent(ev) = ev
    BY <2>2, ToldOther DEF Events
  <2>5. /\ B.tiles = [L.tiles EXCEPT ![t] = x] /\ B.buf = Append(L.buf, ev)
        /\ B.kind = L.kind /\ B.index = L.index /\ B.inv = L.inv /\ B.pos = L.pos
        /\ B.left = L.left
    BY <2>3 DEF Emit, Levels
  <2>6. B \in Levels
    <3>1. B = [L EXCEPT !.tiles = B.tiles, !.buf = B.buf]
      BY <2>3 DEF Emit, Levels
    <3>2. B.tiles \in [0..LastTile -> 0..(Tiles - 1)] /\ B.buf \in Seq(Events)
      <4> HIDE DEF B, ev
      <4>1. B.tiles \in [0..LastTile -> 0..(Tiles - 1)]
        BY <2>2, <2>3, <2>5
      <4>2. B.buf \in Seq(Events)
        BY <2>3, <2>4, <2>5
      <4> QED
        BY <4>1, <4>2
    <3> HIDE DEF B, ev
    <3> QED
      BY <2>3, <3>1, <3>2 DEF Levels
  <2> HIDE DEF B
  <2>7. Sound(B)
    BY <2>5, <2>6 DEF Sound, Agrees, Occupied
  <2>8. Apply(Streamed(L), ev) = Streamed(B)
    <3> DEFINE ents == Streamed(L).ents
    <3>1. Streamed(L) = [lost |-> FALSE, tiles |-> L.tiles, ents |-> ents]
      BY StreamedAt
    <3>2. Streamed(B) = [lost |-> FALSE, tiles |-> B.tiles, ents |-> ents]
      BY <2>5 DEF Streamed, Shown, Occupied
    <3> HIDE DEF ents
    <3>3. Apply(Streamed(L), ev) = [lost |-> FALSE, tiles |-> [L.tiles EXCEPT ![t] = x], ents |-> ents]
      BY <3>1, ApplyTile
    <3> QED
      BY <2>5, <3>2, <3>3
  <2> HIDE DEF ev
  <2>9. Follows(L, B) /\ Items(B) = Items(L)
    BY <2>3, <2>4, <2>5, <2>8, IsTold, ItemsSame
  <2>10. Evolves(L, B)
    BY <2>5, <2>7, <2>9 DEF Evolves, Indexed
  <2> QED
    BY <2>1, <2>5, <2>10
<1> QED
  BY <1>2, <1>3

\* A cleared tile.
LEMMA ClearTileEvolves ==
    ASSUME NEW L, Sound(L), NEW t \in Int, NEW there \in BOOLEAN, there => t >= 0
    PROVE  Evolves(L, ClearTile(L, t, there))
<1>1. 0 \in 0..(Tiles - 1)
  BY BoundsOK
<1>2. there => t \in Nat
  OBVIOUS
<1> QED
  BY <1>1, <1>2, SetTileEvolves, EvolvesNot DEF ClearTile

\* Digging does not reach below the first tile.
LEMMA DigEvolves ==
    ASSUME NEW L, Sound(L), NEW s \in Slots
    PROVE  Evolves(L, Dig(L, s))
<1> DEFINE p == TileAt(L.pos[s])
           x == L.pos[s].x
           A == ClearTile(L, p - 1, x > 0)
           B == ClearTile(A, p + 1, x < Width - 1)
           C == ClearTile(B, p, TRUE)
           D == ClearTile(C, p - Width, p - Width >= 0)
           E == ClearTile(D, p + Width, p + Width <= LastTile)
<1>1. Width \in Nat /\ LastTile \in Int
  BY BoardOK DEF LastTile
<1>2. x \in Nat /\ p \in Nat /\ (x > 0 => p - 1 >= 0)
  <2>1. L.pos[s] \in Cells
    BY DEF Sound, Levels
  <2> DEFINE y == L.pos[s].y
  <2>2. x \in Nat /\ y \in Nat
    BY <2>1, BoardOK DEF Cells, LastTile
  <2>3. p = Width * y + x
    BY DEF TileAt
  <2> HIDE DEF x, y, p
  <2>4. Width * y \in Nat
    BY <1>1, <2>2
  <2> QED
    BY <2>2, <2>3, <2>4
<1>3. Dig(L, s) = E
  BY DEF Dig
<1> HIDE DEF x, p
<1>4. p - 1 \in Int /\ p + 1 \in Int /\ p + 1 >= 0 /\ p \in Int /\ p >= 0
      /\ p - Width \in Int /\ p + Width \in Int /\ p + Width >= 0
  BY <1>1, <1>2
<1>5. /\ (x > 0) \in BOOLEAN /\ (x < Width - 1) \in BOOLEAN /\ (p - Width >= 0) \in BOOLEAN
      /\ (p + Width <= LastTile) \in BOOLEAN
  OBVIOUS
<1>6. Evolves(L, A)
  BY <1>2, <1>4, <1>5, ClearTileEvolves
<1>7. Sound(A)
  BY <1>6 DEF Evolves
<1> HIDE DEF A
<1>8. Evolves(A, B)
  BY <1>4, <1>5, <1>7, ClearTileEvolves
<1>9. Sound(B)
  BY <1>8 DEF Evolves
<1> HIDE DEF B
<1>10. Evolves(B, C)
  BY <1>4, <1>9, ClearTileEvolves
<1>11. Sound(C)
  BY <1>10 DEF Evolves
<1> HIDE DEF C
<1>12. Evolves(C, D)
  BY <1>4, <1>5, <1>11, ClearTileEvolves
<1>13. Sound(D)
  BY <1>12 DEF Evolves
<1> HIDE DEF D
<1>14. Evolves(D, E)
  BY <1>4, <1>5, <1>13, ClearTileEvolves
<1> HIDE DEF E
<1> QED
  BY <1>3, <1>6, <1>8, <1>10, <1>12, <1>14, EvolvesOn

\* The next tile is one of those there are.
LEMMA NextTileType ==
    ASSUME NEW x \in Nat, NEW by \in Nat
    PROVE  NextTile(x, by) \in 0..(Tiles - 1)
<1>1. x + by \in Nat /\ Tiles \in Nat /\ Tiles > 0
  BY BoundsOK
<1> QED
  BY <1>1 DEF NextTile

\* A changed tile has a value there is.
LEMMA CycleEvolves ==
    ASSUME NEW L, Sound(L), NEW s \in Slots, NEW by \in Nat
    PROVE  Evolves(L, Cycle(L, s, by))
<1> DEFINE p == TileAt(L.pos[s])
           x == NextTile(L.tiles[p], by)
<1>1. L.pos[s] \in Cells /\ L.tiles \in [0..LastTile -> 0..(Tiles - 1)]
  BY DEF Sound, Levels
<1>2. p \in Nat /\ p \in 0..LastTile
  <2> DEFINE u == L.pos[s].x
             w == L.pos[s].y
  <2>1. u \in Nat /\ w \in Nat /\ p = Width * w + u /\ p =< LastTile
    BY <1>1, BoardOK DEF Cells, LastTile, TileAt
  <2> HIDE DEF u, w, p
  <2>2. Width * w \in Nat /\ LastTile \in Int
    BY <2>1, BoardOK DEF LastTile
  <2> QED
    BY <2>1, <2>2
<1>3. x \in 0..(Tiles - 1)
  <2>1. L.tiles[p] \in 0..(Tiles - 1)
    BY <1>1, <1>2
  <2>2. L.tiles[p] \in Nat
    BY <2>1, BoundsOK
  <2> QED
    BY <2>2, NextTileType
<1>4. Cycle(L, s, by) = Fault(L) \/ Cycle(L, s, by) = SetTile(L, p, x)
  BY DEF Cycle
<1> HIDE DEF p, x
<1> QED
  BY <1>2, <1>3, <1>4, FaultEvolves, SetTileEvolves

\* Whoever is removed leaves the index, and the clients are told.
LEMMA RemoveFollows ==
    ASSUME NEW L, Sound(L), NEW s \in Slots, Indexed(L, s)
    PROVE  LET B == Remove(L, s)
           IN  /\ Sound(B) /\ Follows(L, B) /\ B.kind[s] = "none" /\ L.kind[s] # "none"
               /\ \A t \in Slots \ {s} : Indexed(L, t) => Indexed(B, t)
<1> DEFINE B == Remove(L, s)
           o == L.pos[s]
           ev == [op |-> "gone", at |-> o]
<1>1. /\ L.index \in [Cells -> Slots \cup {NoSlot}] /\ L.pos \in [Slots -> Cells]
      /\ L.buf \in Seq(Events) /\ L \in Levels /\ L.kind \in [Slots -> Kinds]
  BY DEF Sound, Levels
<1>2. o \in Cells /\ L.index[o] = s /\ s # NoSlot
  BY <1>1, SlotsAreSome DEF Indexed
<1>3. /\ B.index = [L.index EXCEPT ![o] = NoSlot] /\ B.kind = [L.kind EXCEPT ![s] = "none"]
      /\ B.buf = Append(L.buf, ev)
      /\ B.pos = L.pos /\ B.inv = L.inv /\ B.tiles = L.tiles /\ B.left = L.left
  BY <1>1 DEF Remove, Emit, Unindex, Levels
<1>4. ev \in Events /\ ToldEvent(ev) = ev
  BY <1>2, ToldOther DEF Events
<1>5. B \in Levels
  <2>1. B = [L EXCEPT !.index = B.index, !.kind = B.kind, !.buf = B.buf]
    BY <1>1 DEF Remove, Emit, Levels
  <2>2. B.index \in [Cells -> Slots \cup {NoSlot}] /\ B.kind \in [Slots -> Kinds]
    BY <1>1, <1>3 DEF Kinds
  <2>3. B.buf \in Seq(Events)
    <3> HIDE DEF B, ev
    <3> QED
      BY <1>1, <1>3, <1>4
  <2> HIDE DEF B
  <2> QED
    BY <1>1, <2>1, <2>2, <2>3 DEF Levels
<1> HIDE DEF B
<1>6. \A q \in Cells : B.index[q] = IF q = o THEN NoSlot ELSE L.index[q]
  BY <1>1, <1>3
<1>7. \A t \in Slots : B.kind[t] = IF t = s THEN "none" ELSE L.kind[t]
  BY <1>1, <1>3
<1>8. \A q \in Cells : Occupied(L, q) => L.index[q] \in Slots /\ L.pos[L.index[q]] = q
                                          /\ L.kind[L.index[q]] # "none"
  BY OnePlace
<1>9. \A q \in Cells : Occupied(B, q) => q # o /\ B.index[q] = L.index[q] /\ Occupied(L, q)
                                          /\ L.index[q] # s
  BY <1>6, <1>8 DEF Occupied
<1>10. Agrees(B)
  BY <1>3, <1>7, <1>8, <1>9 DEF Agrees
<1>11. ASSUME NEW t \in Slots \ {s}, Indexed(L, t) PROVE Indexed(B, t)
  <2>1. L.index[L.pos[t]] = t /\ L.pos[t] \in Cells /\ t # s
    BY <1>1, <1>11 DEF Indexed
  <2>2. L.pos[t] # o
    BY <1>2, <2>1
  <2> QED
    BY <1>3, <1>6, <2>1, <2>2 DEF Indexed
<1>12. Apply(Streamed(L), ev) = Streamed(B)
  <2> DEFINE v == Streamed(L)
             ents == [v.ents EXCEPT ![o] = Nobody]
  <2>1. /\ v.lost = FALSE /\ v = [lost |-> FALSE, tiles |-> L.tiles, ents |-> v.ents]
        /\ v.ents = [q \in Cells |-> v.ents[q]]
        /\ \A q \in Cells : v.ents[q] = IF Occupied(L, q) THEN Shown(L, L.index[q]) ELSE Nobody
    BY StreamedAt
  <2> HIDE DEF v
  <2>2. Apply(v, ev) = [lost |-> FALSE, tiles |-> L.tiles, ents |-> ents]
    BY <2>1, ApplyGone
  <2>3. ents = [q \in Cells |-> ents[q]]
        /\ \A q \in Cells : ents[q] = IF q = o THEN Nobody ELSE v.ents[q]
    BY <1>2, <2>1
  <2> HIDE DEF ents
  <2>4. \A q \in Cells : ents[q] = IF Occupied(B, q) THEN Shown(B, B.index[q]) ELSE Nobody
    <3> TAKE q \in Cells
    <3>1. CASE q = o
      BY <1>6, <2>3, <3>1 DEF Occupied
    <3>2. CASE q # o /\ Occupied(B, q)
      <4>1. Shown(B, B.index[q]) = Shown(L, L.index[q])
        BY <1>3, <1>7, <1>8, <1>9, <3>2 DEF Shown
      <4> QED
        BY <1>9, <2>1, <2>3, <3>2, <4>1
    <3>3. CASE q # o /\ ~Occupied(B, q)
      BY <1>6, <2>1, <2>3, <3>3 DEF Occupied
    <3> QED
      BY <3>1, <3>2, <3>3
  <2>5. Streamed(B) = [lost |-> FALSE, tiles |-> L.tiles, ents |-> ents]
    <3>1. Streamed(B) = [lost |-> FALSE, tiles |-> B.tiles, ents |-> ents]
      BY <2>3, <2>4, StreamedIs
    <3> QED
      BY <1>3, <3>1
  <2> QED
    BY <2>2, <2>5 DEF v
<1> HIDE DEF ev
<1>13. Follows(L, B)
  BY <1>1, <1>3, <1>4, <1>12, IsTold
<1>14. B.kind[s] = "none" /\ L.kind[s] # "none"
  BY <1>2, <1>7, <1>8 DEF Occupied
<1> QED
  BY <1>5, <1>10, <1>11, <1>13, <1>14 DEF B, Sound

-----------------------------------------------------------------------------
(* The joining player                                                       *)

\* What is sent of a player that has just come, and the part of it events tell.
Came == [kind |-> "player", inv |-> PlayerInv, health |-> MaxHealth, left |-> 0]
Arrival == [op |-> "new", at |-> SpawnAt, ent |-> Came]
CameTold == [kind |-> "player", inv |-> PlayerInv]

\* The level with a new player in slot s.
Joined(L, s) ==
    LET placed == [L EXCEPT !.kind[s] = "player", !.pos[s] = SpawnAt, !.inv[s] = PlayerInv,
                            !.health[s] = MaxHealth, !.index[SpawnAt] = s]
    IN  Emit(placed, [op |-> "new", at |-> SpawnAt, ent |-> Seen(placed, s)])

\* A player that joins is indexed at the spawn, and the clients are told.
LEMMA JoinedFollows ==
    ASSUME NEW L, Sound(L), NEW s \in Slots, L.kind[s] = "none"
    PROVE  LET B == Joined(L, s)
           IN  /\ Sound(B) /\ Follows(L, B) /\ B.kind[s] = "player"
               /\ B.buf = Append(L.buf, Arrival) /\ Snapshot(B).ents[SpawnAt] = Came
<1> DEFINE placed == [L EXCEPT !.kind[s] = "player", !.pos[s] = SpawnAt, !.inv[s] = PlayerInv,
                               !.health[s] = MaxHealth, !.index[SpawnAt] = s]
           B == Joined(L, s)
<1>1. /\ L.index \in [Cells -> Slots \cup {NoSlot}] /\ L.pos \in [Slots -> Cells]
      /\ L.buf \in Seq(Events) /\ L \in Levels /\ L.kind \in [Slots -> Kinds]
      /\ L.inv \in [Slots -> Inventory] /\ L.health \in [Slots -> MinHealth..MaxHealth]
  BY DEF Sound, Levels
<1>2. SpawnAt \in Cells /\ PlayerInv \in Inventory /\ s # NoSlot
  BY SpawnOK, SlotsAreSome
<1>3. Seen(placed, s) = Came
  BY <1>1 DEF Seen, Came, Levels
<1>4. B = Emit(placed, Arrival)
  BY <1>3 DEF Joined, Arrival
<1>5. /\ B.index = [L.index EXCEPT ![SpawnAt] = s] /\ B.kind = [L.kind EXCEPT ![s] = "player"]
      /\ B.buf = Append(L.buf, Arrival) /\ B.pos = [L.pos EXCEPT ![s] = SpawnAt]
      /\ B.inv = [L.inv EXCEPT ![s] = PlayerInv] /\ B.health = [L.health EXCEPT ![s] = MaxHealth]
      /\ B.tiles = L.tiles /\ B.left = L.left
  BY <1>1, <1>4 DEF Emit, Levels
<1>6. Arrival \in Events /\ ToldEvent(Arrival) = [op |-> "new", at |-> SpawnAt, ent |-> CameTold]
  <2>1. MaxHealth \in MinHealth..MaxHealth /\ 0 \in Quantities
    BY BoundsOK DEF Quantities
  <2> QED
    BY <1>2, <2>1 DEF Events, Arrival, Came, Seens, Kinds, ToldEvent, CameTold
<1>7. B \in Levels
  <2>1. B = [L EXCEPT !.index = B.index, !.kind = B.kind, !.buf = B.buf, !.pos = B.pos,
                      !.inv = B.inv, !.health = B.health]
    BY <1>1, <1>4 DEF Emit, Levels
  <2>2. B.index \in [Cells -> Slots \cup {NoSlot}] /\ B.kind \in [Slots -> Kinds]
        /\ B.pos \in [Slots -> Cells] /\ B.inv \in [Slots -> Inventory]
    BY <1>1, <1>2, <1>5 DEF Kinds
  <2>3. B.health \in [Slots -> MinHealth..MaxHealth]
    BY <1>1, <1>5, BoundsOK
  <2>4. B.buf \in Seq(Events)
    BY <1>1, <1>5, <1>6
  <2> HIDE DEF B
  <2> QED
    BY <1>1, <2>1, <2>2, <2>3, <2>4 DEF Levels
<1> HIDE DEF B, placed
<1>8. \A q \in Cells : B.index[q] = IF q = SpawnAt THEN s ELSE L.index[q]
  BY <1>1, <1>5
<1>9. \A t \in Slots :  /\ B.kind[t] = IF t = s THEN "player" ELSE L.kind[t]
                        /\ B.pos[t] = IF t = s THEN SpawnAt ELSE L.pos[t]
                        /\ B.inv[t] = IF t = s THEN PlayerInv ELSE L.inv[t]
  BY <1>1, <1>5
<1>10. \A q \in Cells : Occupied(L, q) => L.index[q] \in Slots /\ L.pos[L.index[q]] = q
                                          /\ L.kind[L.index[q]] # "none" /\ L.index[q] # s
  BY OnePlace
<1>11. Agrees(B)
  <2> SUFFICES ASSUME NEW q \in Cells, Occupied(B, q)
               PROVE  B.kind[B.index[q]] # "none" /\ B.pos[B.index[q]] = q
    BY DEF Agrees
  <2>1. CASE q = SpawnAt
    BY <1>8, <1>9, <2>1
  <2>2. CASE q # SpawnAt
    BY <1>8, <1>9, <1>10, <2>2 DEF Occupied
  <2> QED
    BY <2>1, <2>2
<1> DEFINE v == Streamed(L)
           ents == [v.ents EXCEPT ![SpawnAt] = CameTold]
<1>12. Apply(v, ToldEvent(Arrival)) = Streamed(B)
  <2>1. /\ v.lost = FALSE /\ v = [lost |-> FALSE, tiles |-> L.tiles, ents |-> v.ents]
        /\ v.ents = [q \in Cells |-> v.ents[q]]
        /\ \A q \in Cells : v.ents[q] = IF Occupied(L, q) THEN Shown(L, L.index[q]) ELSE Nobody
    BY StreamedAt
  <2> HIDE DEF v
  <2>2. Apply(v, ToldEvent(Arrival)) = [lost |-> FALSE, tiles |-> L.tiles, ents |-> ents]
    <3> HIDE DEF CameTold
    <3> QED
      BY <1>6, <2>1, ApplyNew
  <2>3. ents = [q \in Cells |-> ents[q]]
        /\ \A q \in Cells : ents[q] = IF q = SpawnAt THEN CameTold ELSE v.ents[q]
    BY <1>2, <2>1
  <2> HIDE DEF ents
  <2>4. \A q \in Cells : ents[q] = IF Occupied(B, q) THEN Shown(B, B.index[q]) ELSE Nobody
    <3> TAKE q \in Cells
    <3>1. CASE q = SpawnAt
      <4>1. Shown(B, s) = CameTold
        BY <1>9 DEF Shown, CameTold
      <4> QED
        BY <1>2, <1>8, <2>3, <3>1, <4>1 DEF Occupied
    <3>2. CASE q # SpawnAt /\ Occupied(B, q)
      <4>1. B.index[q] = L.index[q] /\ Occupied(L, q)
        BY <1>8, <3>2 DEF Occupied
      <4>2. Shown(B, L.index[q]) = Shown(L, L.index[q])
        BY <1>9, <1>10, <4>1 DEF Shown
      <4> QED
        BY <2>1, <2>3, <3>2, <4>1, <4>2
    <3>3. CASE q # SpawnAt /\ ~Occupied(B, q)
      BY <1>8, <2>1, <2>3, <3>3 DEF Occupied
    <3> QED
      BY <3>1, <3>2, <3>3
  <2>5. Streamed(B) = [lost |-> FALSE, tiles |-> L.tiles, ents |-> ents]
    <3>1. Streamed(B) = [lost |-> FALSE, tiles |-> B.tiles, ents |-> ents]
      BY <2>3, <2>4, StreamedIs
    <3> QED
      BY <1>5, <3>1
  <2> QED
    BY <2>2, <2>5
<1> HIDE DEF v
<1>13. Follows(L, B)
  <2>1. Apply(Streamed(L), ToldEvent(Arrival)) = Streamed(B)
    BY <1>12 DEF v
  <2> QED
    BY <1>1, <1>5, <1>6, <2>1, IsTold
<1>14. B.kind[s] = "player"
  BY <1>9
<1>15. Snapshot(B).ents[SpawnAt] = Came
  <2>1. Seen(B, s) = Came
    BY <1>1, <1>5, <1>9 DEF Seen, Came
  <2> QED
    BY <1>2, <1>8, <2>1 DEF Snapshot, Occupied
<1> QED
  BY <1>5, <1>7, <1>11, <1>13, <1>14, <1>15 DEF B, Sound

-----------------------------------------------------------------------------
(* The inductive invariant                                                  *)

\* An entity that waits for its turn is where the index has it, and waits once.
Waiting ==
    /\ inFrame \/ queue = <<>>
    /\ \A i \in DOMAIN queue : Indexed(level, queue[i])
    /\ \A i, j \in DOMAIN queue : queue[i] = queue[j] => i = j

\* Between frames only arrivals are told, and the last one is still there: that
\* is why a client that joins may be sent the events of those before it.
Arrivals ==
    ~inFrame => \A i \in 1..Len(level.buf) :
                   level.buf[i] = Arrival /\ Snapshot(level).ents[SpawnAt] = Came

\* Mirror, also when an exception has left an operation.
Copies ==
    /\ view = [c \in Clients |-> view[c]]
    /\ \A c \in Clients : stage[c] = "in" => Told(ApplyAll(view[c], level.buf)) = Streamed(level)

SInv == TypeOK /\ Agrees(level) /\ Waiting /\ Arrivals /\ Copies

\* The generated levels are sound, and nobody has a copy yet.
LEMMA InitSInv == Init => SInv
<1> SUFFICES ASSUME Init PROVE SInv
  OBVIOUS
<1>1. PICK s \in Scenes :
          /\ level = s.level /\ edits = MaxEdits - s.edits
          /\ stage = [c \in Clients |-> IF c \in s.players THEN "out" ELSE "gone"]
  BY DEF Init
<1>2. /\ s.level \in Levels /\ Agrees(s.level) /\ s.level.buf = <<>> /\ s.edits \in 0..MaxEdits
  BY ScenesOK
<1>3. edits \in 0..MaxEdits
  BY <1>1, <1>2, SpawnOK
<1>4. TypeOK
  <2>1. stage \in [Clients -> {"out", "cleared", "in", "gone"}]
    BY <1>1
  <2>2. queue \in Seq(Slots) /\ eid \in [Clients -> Slots \cup {NoSlot}]
        /\ kicked \in [Slots -> BOOLEAN] /\ inFrame \in BOOLEAN
    <3>1. queue = <<>> /\ inFrame = FALSE /\ eid = [c \in Clients |-> NoSlot]
          /\ kicked = [t \in Slots |-> FALSE]
      BY DEF Init
    <3>2. queue \in Seq(Slots)
      BY <3>1
    <3>3. eid \in [Clients -> Slots \cup {NoSlot}]
      BY <3>1
    <3>4. kicked \in [Slots -> BOOLEAN]
      BY <3>1
    <3> QED
      BY <3>1, <3>2, <3>3, <3>4
  <2>3. view \in [Clients -> Views]
    BY DEF Init, Views, Lost
  <2> QED
    BY <1>1, <1>2, <1>3, <2>1, <2>2, <2>3 DEF TypeOK
<1>5. Waiting /\ Arrivals
  BY <1>1, <1>2 DEF Init, Waiting, Arrivals
<1>6. Copies
  BY <1>1 DEF Init, Copies
<1> QED
  BY <1>1, <1>2, <1>4, <1>5, <1>6 DEF SInv

\* What the turn of the entity in slot s may make of level A.
Turned(A, B, s) ==
    /\ Sound(B) /\ Follows(A, B)
    /\ \A t \in Slots \ {s} : Indexed(A, t) => Indexed(B, t)
    /\ B.kind = A.kind => Items(B) = Items(A)

\* A turn in which nobody dies.
LEMMA EvolvesTurned ==
    ASSUME NEW A, NEW B, NEW s, Evolves(A, B)
    PROVE  Turned(A, B, s)
BY DEF Evolves, Turned

\* A turn that ends with the removal of its entity.
LEMMA RemoveTurned ==
    ASSUME NEW A, NEW B, NEW s \in Slots, Indexed(A, s), Sound(A), Evolves(A, B)
    PROVE  Turned(A, Remove(B, s), s)
<1> DEFINE C == Remove(B, s)
<1>1. Sound(B) /\ Indexed(B, s) /\ Follows(A, B) /\ B.kind = A.kind
      /\ \A t \in Slots : Indexed(A, t) => Indexed(B, t)
  BY DEF Evolves
<1>2. /\ Sound(C) /\ Follows(B, C) /\ C.kind[s] = "none" /\ B.kind[s] # "none"
      /\ \A t \in Slots \ {s} : Indexed(B, t) => Indexed(C, t)
  BY <1>1, RemoveFollows
<1> HIDE DEF C
<1>3. Follows(A, C)
  BY <1>1, <1>2 DEF Follows
<1>4. C.kind # A.kind
  BY <1>1, <1>2
<1>5. Turned(A, C, s)
  BY <1>1, <1>2, <1>3, <1>4 DEF Turned
<1> QED
  BY <1>5 DEF C

\* The entity whose turn it is.
LEMMA AtTurn ==
    ASSUME SInv, NEW s, NEW kind, Turn(s, kind)
    PROVE  s \in Slots /\ Sound(level) /\ Indexed(level, s)
<1>1. queue \in Seq(Slots) /\ queue # <<>> /\ queue[1] = s
  BY DEF Turn, SInv, TypeOK
<1>2. 1 \in DOMAIN queue
  BY <1>1
<1> QED
  BY <1>1, <1>2 DEF SInv, TypeOK, Waiting, Sound

\* The turns of a frame keep the invariant.
LEMMA TurnSInv ==
    ASSUME SInv, NEW s, NEW kind, Turn(s, kind), Turned(level, level', s), edits' \in 0..MaxEdits
    PROVE  SInv'
<1>1. queue \in Seq(Slots) /\ queue # <<>> /\ queue[1] = s /\ queue' = Tail(queue)
      /\ inFrame' = inFrame /\ inFrame /\ UNCHANGED <<eid, stage, kicked, view>>
  BY DEF Turn, SInv, TypeOK
<1>2. queue' \in Seq(Slots) /\ \A i \in DOMAIN queue' : i + 1 \in DOMAIN queue
                                                    /\ queue'[i] = queue[i + 1] /\ i + 1 # 1
                                                    /\ i \in Int
  BY <1>1
<1>3. level' \in Levels /\ Agrees(level')
  BY DEF Turned, Sound
<1>4. TypeOK'
  BY <1>1, <1>2, <1>3 DEF SInv, TypeOK
<1>5. \A i, j \in DOMAIN queue : queue[i] = queue[j] => i = j
  BY DEF SInv, Waiting
<1>6. Waiting'
  <2>1. ASSUME NEW i \in DOMAIN queue' PROVE Indexed(level', queue'[i])
    <3>1. queue'[i] \in Slots /\ Indexed(level, queue'[i])
      BY <1>2 DEF SInv, Waiting
    <3>2. 1 \in DOMAIN queue
      BY <1>1
    <3>3. queue'[i] # s
      BY <1>1, <1>2, <1>5, <3>2
    <3> QED
      BY <3>1, <3>3 DEF Turned
  <2>2. ASSUME NEW i \in DOMAIN queue', NEW j \in DOMAIN queue', queue'[i] = queue'[j] PROVE i = j
    <3>1. i + 1 = j + 1
      BY <1>2, <1>5, <2>2
    <3> QED
      BY <1>2, <3>1
  <2> QED
    BY <1>1, <2>1, <2>2 DEF Waiting
<1>7. Arrivals'
  BY <1>1 DEF Arrivals
<1>8. Copies'
  BY <1>1 DEF SInv, TypeOK, Copies, Turned, Follows
<1> QED
  BY <1>3, <1>4, <1>6, <1>7, <1>8 DEF SInv

\* The turn of an item entity.
LEMMA ItemTurned ==
    ASSUME SInv, NEW s, AnimateItem(s)
    PROVE  Turned(level, level', s)
<1> DEFINE L == [level EXCEPT !.health[s] = 0]
<1>1. s \in Slots /\ Sound(level) /\ Indexed(level, s)
  BY AtTurn DEF AnimateItem
<1>2. 0 \in MinHealth..MaxHealth
  BY BoundsOK
<1>3. Evolves(level, L)
  BY <1>1, <1>2, HurtEvolves
<1>4. level' = Remove(L, s) \/ level' = L
  BY DEF AnimateItem
<1> HIDE DEF L
<1> QED
  BY <1>1, <1>3, <1>4, EvolvesTurned, RemoveTurned

\* The turn of a dog.
LEMMA DogTurned ==
    ASSUME SInv, NEW s, AnimateDog(s)
    PROVE  Turned(level, level', s)
<1>1. s \in Slots /\ Sound(level) /\ Indexed(level, s)
  BY AtTurn DEF AnimateDog
<1>2. CASE level' = Remove(level, s)
  BY <1>1, <1>2, EvolvesNot, RemoveTurned
<1>3. CASE level' # Remove(level, s)
  <2> DEFINE step == IF level.health[s] < Weak THEN 2 ELSE 1
  <2>1. step \in Int /\ -step \in Int
    OBVIOUS
  <2>2. PICK dx \in {-step, 0, step}, dy \in {-step, 0, step}, heals \in BOOLEAN :
          LET L == MoveBy(level, s, dx, dy)
          IN  level' = IF heals /\ L.health[s] < MaxHealth
                       THEN [L EXCEPT !.health[s] = @ + 1] ELSE L
    BY <1>3 DEF AnimateDog
  <2> DEFINE L == MoveBy(level, s, dx, dy)
  <2>3. dx \in Int /\ dy \in Int
    BY <2>1
  <2>4. Evolves(level, L)
    BY <1>1, <2>3, MoveByEvolves
  <2>5. level' = L \/ (level' = [L EXCEPT !.health[s] = L.health[s] + 1] /\ L.health[s] < MaxHealth)
    BY <2>2
  <2> HIDE DEF L
  <2>6. Sound(L) /\ L.health[s] \in MinHealth..MaxHealth
    BY <1>1, <2>4 DEF Evolves, Sound, Levels
  <2>7. L.health[s] < MaxHealth => L.health[s] + 1 \in MinHealth..MaxHealth
    BY <2>6, BoundsOK
  <2>8. Evolves(level, level')
    BY <1>1, <2>4, <2>5, <2>6, <2>7, HurtEvolves, EvolvesOn
  <2> QED
    BY <2>8, EvolvesTurned
<1> QED
  BY <1>2, <1>3

\* The turn of a player.
LEMMA PlayerTurned ==
    ASSUME SInv, NEW s, AnimatePlayer(s)
    PROVE  Turned(level, level', s) /\ edits' \in 0..MaxEdits
<1>1. s \in Slots /\ Sound(level) /\ Indexed(level, s)
  BY AtTurn DEF AnimatePlayer
<1>2. edits \in 0..MaxEdits /\ MaxEdits \in Nat
  BY SpawnOK DEF SInv, TypeOK
<1>3. CASE kicked[s]
  BY <1>1, <1>2, <1>3, EvolvesNot, RemoveTurned DEF AnimatePlayer
<1>4. CASE ~kicked[s]
  <2>1. PICK dx \in {-1, 0, 1}, dy \in {-1, 0, 1}, digs \in BOOLEAN, forward \in BOOLEAN,
              back \in BOOLEAN :
               LET L0 == MoveBy(level, s, dx, dy)
                   L1 == IF digs THEN Dig(L0, s) ELSE L0
                   L2 == IF forward THEN Cycle(L1, s, 1) ELSE L1
                   L3 == IF back THEN Cycle(L2, s, Tiles - 1) ELSE L2
               IN  /\ (digs \/ forward \/ back) => edits < MaxEdits
                   /\ edits' = IF digs \/ forward \/ back THEN edits + 1 ELSE edits
                   /\ level' = IF L0.fault THEN L0 ELSE L3
    BY <1>4 DEF AnimatePlayer
  <2> DEFINE L0 == MoveBy(level, s, dx, dy)
             L1 == IF digs THEN Dig(L0, s) ELSE L0
             L2 == IF forward THEN Cycle(L1, s, 1) ELSE L1
             L3 == IF back THEN Cycle(L2, s, Tiles - 1) ELSE L2
  <2>2. edits' \in 0..MaxEdits
    BY <1>2, <2>1
  <2>3. level' = L0 \/ level' = L3
    BY <2>1
  <2>4. dx \in Int /\ dy \in Int /\ 1 \in Nat /\ Tiles - 1 \in Nat
    BY BoundsOK
  <2>5. Evolves(level, L0)
    BY <1>1, <2>4, MoveByEvolves
  <2> HIDE DEF L0
  <2>6. Evolves(level, L1)
    BY <1>1, <2>5, DigEvolves, EvolvesOn DEF Evolves
  <2> HIDE DEF L1
  <2>7. Evolves(level, L2)
    <3>1. Sound(L1)
      BY <2>6 DEF Evolves
    <3>2. Evolves(L1, Cycle(L1, s, 1))
      BY <1>1, <2>4, <3>1, CycleEvolves
    <3>3. Evolves(level, Cycle(L1, s, 1))
      BY <2>6, <3>2, EvolvesOn
    <3> QED
      BY <2>6, <3>3
  <2> HIDE DEF L2
  <2>8. Evolves(level, L3)
    <3>1. Sound(L2)
      BY <2>7 DEF Evolves
    <3>2. Evolves(L2, Cycle(L2, s, Tiles - 1))
      BY <1>1, <2>4, <3>1, CycleEvolves
    <3>3. Evolves(level, Cycle(L2, s, Tiles - 1))
      BY <2>7, <3>2, EvolvesOn
    <3> QED
      BY <2>7, <3>3
  <2> HIDE DEF L3
  <2> QED
    BY <2>2, <2>3, <2>5, <2>8, EvolvesTurned
<1> QED
  BY <1>3, <1>4

-----------------------------------------------------------------------------
(* The other steps                                                          *)

\* A join keeps the invariant: it finds only arrivals in the buffer.
LEMMA JoinStep ==
    ASSUME SInv, NEW c \in Clients, Join(c)
    PROVE  SInv' /\ level'.kind # level.kind
<1>1. PICK s \in Slots :
        /\ level.kind[s] = "none" /\ level' = Joined(level, s)
        /\ view' = [view EXCEPT ![c] = Snapshot(level')]
        /\ eid' = [eid EXCEPT ![c] = s] /\ kicked' = [kicked EXCEPT ![s] = FALSE]
  BY DEF Join, Joined
<1>2. /\ ~inFrame /\ stage' = [stage EXCEPT ![c] = "in"]
      /\ queue' = queue /\ inFrame' = inFrame /\ edits' = edits
  BY DEF Join, Idle
<1>3. Sound(level)
  BY DEF SInv, TypeOK, Sound
<1>4. /\ Sound(level') /\ Follows(level, level') /\ level'.kind[s] = "player"
      /\ level'.buf = Append(level.buf, Arrival) /\ Snapshot(level').ents[SpawnAt] = Came
  BY <1>1, <1>3, JoinedFollows
<1>5. queue = <<>>
  BY <1>2 DEF SInv, Waiting
<1>6. TypeOK'
  <2>1. eid' \in [Clients -> Slots \cup {NoSlot}] /\ kicked' \in [Slots -> BOOLEAN]
    BY <1>1 DEF SInv, TypeOK
  <2>2. stage' \in [Clients -> {"out", "cleared", "in", "gone"}]
    BY <1>2 DEF SInv, TypeOK
  <2>3. view' \in [Clients -> Views]
    BY <1>1, <1>4, SnapshotView DEF SInv, TypeOK, Sound
  <2> QED
    BY <1>2, <1>4, <2>1, <2>2, <2>3 DEF SInv, TypeOK, Sound
<1>7. Waiting'
  BY <1>2, <1>5 DEF Waiting
<1>8. level'.buf \in Seq(Events) /\ \A i \in 1..Len(level'.buf) : level'.buf[i] = Arrival
  <2>1. level.buf \in Seq(Events) /\ level'.buf \in Seq(Events)
    BY <1>3, <1>4 DEF Sound, Levels
  <2>2. \A i \in 1..Len(level.buf) : level.buf[i] = Arrival
    BY <1>2 DEF SInv, Arrivals
  <2> DEFINE b == level.buf
             d == level'.buf
  <2>3. b \in Seq(Events) /\ d = Append(b, Arrival) /\ \A i \in 1..Len(b) : b[i] = Arrival
    BY <1>4, <2>1, <2>2
  <2> HIDE DEF b, d
  <2>4. \A i \in 1..Len(d) : d[i] = Arrival
    BY <2>3
  <2> QED
    BY <2>1, <2>4 DEF d
<1>9. Arrivals'
  BY <1>4, <1>8 DEF Arrivals
<1>10. Told(ApplyAll(Snapshot(level'), level'.buf)) = Streamed(level')
  <2> DEFINE v == Snapshot(level')
  <2>1. Apply(v, Arrival) = v
    <3>1. /\ v.ents = [p \in Cells |-> v.ents[p]] /\ v.ents[SpawnAt] = Came
          /\ v = [lost |-> FALSE, tiles |-> level'.tiles, ents |-> v.ents]
      BY <1>4, SentAt
    <3> HIDE DEF v
    <3>2. Apply(v, Arrival)
            = [lost |-> FALSE, tiles |-> level'.tiles, ents |-> [v.ents EXCEPT ![SpawnAt] = Came]]
      <4> HIDE DEF Came
      <4> QED
        BY <3>1, ApplyNew DEF Arrival
    <3>3. [v.ents EXCEPT ![SpawnAt] = Came] = v.ents
      BY <3>1
    <3> QED
      BY <3>1, <3>2, <3>3
  <2>2. Len(level'.buf) \in Nat
    BY <1>8
  <2> HIDE DEF v
  <2>3. ApplyAll(v, level'.buf) = v
    BY <1>8, <2>1, <2>2, AppliedSame
  <2> QED
    BY <2>3, ToldSnapshot DEF v
<1>11. Copies'
  <2>1. view' = [d \in Clients |-> view'[d]]
    BY <1>1 DEF SInv, Copies
  <2>2. ASSUME NEW d \in Clients, stage'[d] = "in"
        PROVE  Told(ApplyAll(view'[d], level'.buf)) = Streamed(level')
    <3>1. CASE d = c
      <4>1. view'[d] = Snapshot(level')
        BY <1>1, <3>1 DEF SInv, Copies
      <4> QED
        BY <1>10, <4>1
    <3>2. CASE d # c
      <4>1. view'[d] = view[d] /\ stage[d] = "in"
        BY <1>1, <1>2, <2>2, <3>2 DEF SInv, Copies, TypeOK
      <4> QED
        BY <1>4, <4>1 DEF SInv, TypeOK, Copies, Follows
    <3> QED
      BY <3>1, <3>2
  <2> QED
    BY <2>1, <2>2 DEF Copies
<1>12. level'.kind # level.kind
  BY <1>1, <1>4
<1> QED
  BY <1>4, <1>6, <1>7, <1>9, <1>11, <1>12 DEF SInv, Sound

\* The places of a level are finitely many.
LEMMA CellsFinite == IsFiniteSet(Cells)
<1> DEFINE pairs == (0..LastTile) \X (0..(Height - 1))
           f == [p \in Cells |-> <<p.x, p.y>>]
<1>1. LastTile \in Int /\ Height - 1 \in Int /\ 0 \in Int
  BY BoardOK DEF LastTile
<1>2. IsFiniteSet(0..LastTile) /\ IsFiniteSet(0..(Height - 1))
  BY <1>1, FS_Interval
<1>3. IsFiniteSet(pairs)
  BY <1>2, FS_Product
<1>4. f \in [Cells -> pairs]
  BY DEF Cells
<1>5. \A p, q \in Cells : f[p] = f[q] => p = q
  BY DEF Cells
<1>6. f \in Injection(Cells, pairs)
  BY <1>4, <1>5 DEF Injection, IsInjective
<1> HIDE DEF f, pairs
<1> QED
  BY <1>3, <1>6, FS_Injection

\* The ordered keys of the index give a queue without repetitions.
LEMMA FrameStartStep ==
    ASSUME SInv, FrameStart
    PROVE  SInv' /\ level' = level
<1> DEFINE keys == {p \in Cells : Occupied(level, p)}
           n == Cardinality(keys)
<1>1. PICK f \in [1..n -> keys] : Ordered(f) /\ queue' = [i \in DOMAIN f |-> level.index[f[i]]]
  BY DEF FrameStart
<1>2. inFrame' = TRUE /\ UNCHANGED <<level, eid, stage, kicked, view, edits>>
  BY DEF FrameStart
<1>3. n \in Nat
  BY CellsFinite, FS_Subset, FS_CardinalityType
<1>4. Sound(level)
  BY DEF SInv, TypeOK, Sound
<1>5. \A p \in keys : /\ p \in Cells /\ level.index[p] \in Slots /\ level.pos[level.index[p]] = p
                       /\ Indexed(level, level.index[p])
  BY <1>4, OnePlace
<1> HIDE DEF n, keys
<1>6. DOMAIN queue' = 1..n /\ \A i \in 1..n : f[i] \in keys /\ queue'[i] = level.index[f[i]]
  BY <1>1
<1>7. queue' \in Seq(Slots)
  <2>1. queue' \in [1..n -> Slots]
    BY <1>1, <1>5, <1>6
  <2> QED
    BY <1>3, <2>1
<1>8. \A i, j \in 1..n : f[i] = f[j] => i = j
  <2>1. \A i, j \in 1..n : i < j => Before(f[i], f[j])
    BY <1>1 DEF Ordered
  <2>2. \A p \in Cells : ~Before(p, p)
    <3> TAKE p \in Cells
    <3>1. p.x \in Int /\ p.y \in Int
      BY BoardOK DEF Cells, LastTile
    <3> QED
      BY <3>1 DEF Before
  <2>3. \A i, j \in 1..n : i < j => f[i] # f[j]
    BY <1>5, <1>6, <2>1, <2>2
  <2>4. \A i, j \in 1..n : i = j \/ i < j \/ j < i
    BY <1>3
  <2> QED
    BY <2>3, <2>4
<1>9. TypeOK'
  BY <1>2, <1>7 DEF SInv, TypeOK
<1>10. Waiting'
  <2>1. \A i \in DOMAIN queue' : Indexed(level', queue'[i])
    BY <1>2, <1>5, <1>6
  <2>2. \A i, j \in DOMAIN queue' : queue'[i] = queue'[j] => i = j
    <3> SUFFICES ASSUME NEW i \in 1..n, NEW j \in 1..n, queue'[i] = queue'[j] PROVE i = j
      BY <1>6
    <3>1. level.pos[level.index[f[i]]] = f[i] /\ level.pos[level.index[f[j]]] = f[j]
      BY <1>5, <1>6
    <3>2. f[i] = f[j]
      BY <1>6, <3>1
    <3> QED
      BY <1>8, <3>2
  <2> QED
    BY <1>2, <2>1, <2>2 DEF Waiting
<1>11. Arrivals'
  BY <1>2 DEF Arrivals
<1>12. Copies'
  BY <1>2 DEF SInv, Copies
<1> QED
  BY <1>2, <1>9, <1>10, <1>11, <1>12 DEF SInv

\* Who is sent the buffer has the level.
LEMMA FrameEndStep ==
    ASSUME SInv, FrameEnd
    PROVE  SInv' /\ Items(level') = Items(level)
<1>1. /\ level' = [level EXCEPT !.buf = <<>>] /\ inFrame' = FALSE /\ queue = <<>>
      /\ view' = [c \in Clients |-> IF stage[c] = "in" THEN ApplyAll(view[c], level.buf)
                                                       ELSE view[c]]
      /\ UNCHANGED <<queue, eid, stage, kicked, edits>>
  BY DEF FrameEnd
<1>2. level \in Levels /\ Agrees(level)
  BY DEF SInv, TypeOK
<1>3. /\ level'.buf = <<>> /\ level'.index = level.index /\ level'.kind = level.kind
      /\ level'.inv = level.inv /\ level'.tiles = level.tiles /\ level'.left = level.left
      /\ level'.pos = level.pos
  BY <1>1, <1>2 DEF Levels
<1>4. level' \in Levels
  <2>1. <<>> \in Seq(Events)
    OBVIOUS
  <2> QED
    BY <1>1, <1>2, <2>1 DEF Levels
<1>5. Agrees(level')
  BY <1>2, <1>3 DEF Agrees, Occupied
<1>6. Streamed(level') = Streamed(level) /\ Items(level') = Items(level)
  BY <1>3, StreamedSame, ItemsSame
<1>7. TypeOK'
  <2>1. level.buf \in Seq(Events) /\ view \in [Clients -> Views]
    BY <1>2 DEF SInv, TypeOK, Levels
  <2>2. view' \in [Clients -> Views]
    BY <1>1, <2>1, ApplyAllView
  <2> QED
    BY <1>1, <1>4, <2>2 DEF SInv, TypeOK
<1>8. Waiting'
  BY <1>1 DEF Waiting
<1>9. Arrivals'
  BY <1>3 DEF Arrivals
<1>10. Copies'
  <2>1. view' = [c \in Clients |-> view'[c]]
    BY <1>1
  <2>2. ASSUME NEW c \in Clients, stage'[c] = "in"
        PROVE  Told(ApplyAll(view'[c], level'.buf)) = Streamed(level')
    <3>1. view'[c] = ApplyAll(view[c], level.buf)
      BY <1>1, <2>2
    <3>2. Told(ApplyAll(view[c], level.buf)) = Streamed(level)
      BY <1>1, <2>2 DEF SInv, Copies
    <3> QED
      BY <1>3, <1>6, <3>1, <3>2, AppliedNone
  <2> QED
    BY <2>1, <2>2 DEF Copies
<1> QED
  BY <1>5, <1>6, <1>7, <1>8, <1>9, <1>10 DEF SInv

\* CheckSpawn and Kick change neither the level nor the copy of one who stays.
LEMMA SameLevelStep ==
    ASSUME SInv, UNCHANGED <<level, queue, inFrame, eid, edits>>,
           kicked' \in [Slots -> BOOLEAN], view' \in [Clients -> Views],
           stage' \in [Clients -> {"out", "cleared", "in", "gone"}],
           \A c \in Clients : stage'[c] = "in" => stage[c] = "in" /\ view'[c] = view[c]
    PROVE  SInv'
<1>1. TypeOK'
  BY DEF SInv, TypeOK
<1>2. Waiting' /\ Arrivals' /\ Agrees(level')
  BY DEF SInv, Waiting, Arrivals
<1>3. Copies'
  BY DEF SInv, Copies
<1> QED
  BY <1>1, <1>2, <1>3 DEF SInv

\* Every step keeps the invariant, and items that nobody brings or takes away.
LEMMA StepSInv ==
    ASSUME SInv, [Next]_vars
    PROVE  SInv' /\ (level'.kind = level.kind => Items(level') = Items(level))
<1>1. ASSUME NEW s \in Slots, AnimateItem(s) \/ AnimateDog(s) \/ AnimatePlayer(s)
      PROVE  SInv' /\ (level'.kind = level.kind => Items(level') = Items(level))
  <2>1. PICK kind \in Kinds : Turn(s, kind)
    BY <1>1 DEF AnimateItem, AnimateDog, AnimatePlayer, Kinds
  <2>2. Turned(level, level', s)
    BY <1>1, ItemTurned, DogTurned, PlayerTurned
  <2>3. edits' \in 0..MaxEdits
    BY <1>1, PlayerTurned DEF AnimateItem, AnimateDog, SInv, TypeOK
  <2>4. SInv'
    BY <2>1, <2>2, <2>3, TurnSInv
  <2> QED
    BY <2>2, <2>4 DEF Turned
<1>2. ASSUME NEW c \in Clients, CheckSpawn(c) PROVE SInv' /\ level' = level
  <2>1. /\ stage' = [stage EXCEPT ![c] = IF Occupied(level, SpawnAt) THEN "gone" ELSE "cleared"]
        /\ UNCHANGED <<level, queue, inFrame, eid, kicked, view, edits>>
    BY <1>2 DEF CheckSpawn
  <2>2. /\ stage \in [Clients -> {"out", "cleared", "in", "gone"}] /\ kicked \in [Slots -> BOOLEAN]
        /\ view \in [Clients -> Views]
    BY DEF SInv, TypeOK
  <2>3. /\ stage' \in [Clients -> {"out", "cleared", "in", "gone"}]
        /\ \A d \in Clients : stage'[d] = "in" => stage[d] = "in"
    BY <2>1, <2>2
  <2> QED
    BY <2>1, <2>2, <2>3, SameLevelStep
<1>3. ASSUME NEW c \in Clients, Kick(c) PROVE SInv' /\ level' = level
  <2>1. /\ stage' = [stage EXCEPT ![c] = "gone"] /\ kicked' = [kicked EXCEPT ![eid[c]] = TRUE]
        /\ view' = [view EXCEPT ![c] = Lost]
        /\ UNCHANGED <<level, queue, inFrame, eid, edits>>
    BY <1>3 DEF Kick
  <2>2. /\ stage \in [Clients -> {"out", "cleared", "in", "gone"}] /\ kicked \in [Slots -> BOOLEAN]
        /\ view \in [Clients -> Views]
    BY DEF SInv, TypeOK
  <2>3. Lost \in Views
    BY DEF Lost, Views
  <2>4. view' \in [Clients -> Views]
    BY <2>1, <2>2, <2>3
  <2>5. \A d \in Clients : stage'[d] = "in" => stage[d] = "in" /\ view'[d] = view[d]
    BY <2>1, <2>2
  <2>6. stage' \in [Clients -> {"out", "cleared", "in", "gone"}] /\ kicked' \in [Slots -> BOOLEAN]
    BY <2>1, <2>2
  <2> QED
    BY <2>1, <2>4, <2>5, <2>6, SameLevelStep
<1>4. ASSUME UNCHANGED vars PROVE SInv' /\ level' = level
  <2>1. kicked' \in [Slots -> BOOLEAN] /\ stage' \in [Clients -> {"out", "cleared", "in", "gone"}]
        /\ view' \in [Clients -> Views] /\ stage' = stage
        /\ UNCHANGED <<level, queue, inFrame, eid, view, edits>>
    BY <1>4 DEF SInv, TypeOK, vars
  <2> QED
    BY <2>1, SameLevelStep
<1> QED
  BY <1>1, <1>2, <1>3, <1>4, JoinStep, FrameStartStep, FrameEndStep DEF Next, Exited

-----------------------------------------------------------------------------
(* The theorems                                                             *)

\* Every reachable level is sound, whoever waits is indexed, and the copies follow.
THEOREM Invariance == Spec => []SInv
<1>1. SInv /\ [Next]_vars => SInv'
  BY StepSInv
<1> QED
  BY InitSInv, <1>1, PTL DEF Spec

\* The level, the queue of a frame and the players keep their types, however moveBy recurses.
THEOREM TypeCorrect == Spec => []TypeOK
<1>1. SInv => TypeOK
  BY DEF SInv
<1> QED
  BY <1>1, Invariance, PTL

\* Index, slots and coordinates agree; the timer never animates an empty slot.
THEOREM IndexAgrees == Spec => []IndexAgreement
<1>1. SInv => IndexAgreement
  <2> SUFFICES ASSUME SInv PROVE IndexAgreement
    OBVIOUS
  <2>1. Agrees(level) /\ level \in Levels /\ queue \in Seq(Slots) /\ Waiting
    BY DEF SInv, TypeOK
  <2>2. ASSUME NEW i \in DOMAIN queue PROVE level.kind[queue[i]] # "none"
    <3> DEFINE s == queue[i]
    <3>1. s \in Slots /\ level.index[level.pos[s]] = s
      BY <2>1 DEF Waiting, Indexed
    <3>2. level.pos[s] \in Cells /\ s # NoSlot
      BY <2>1, <3>1, SlotsAreSome DEF Levels
    <3> QED
      BY <2>1, <3>1, <3>2 DEF Agrees, Occupied
  <2> QED
    BY <2>1, <2>2 DEF IndexAgreement
<1> QED
  BY <1>1, Invariance, PTL

\* What a listed client will have applied is, in all that events tell, the host's
\* level; health and quantities are no part of this.
THEOREM ClientsMirror == Spec => []Mirror
<1>1. SInv => Mirror
  BY ToldSnapshot DEF SInv, Copies, Mirror
<1> QED
  BY <1>1, Invariance, PTL

\* Items are only given, never made or lost.
THEOREM ItemsAreConserved == Spec => ItemsConserved
<1>1. SInv /\ [Next]_vars => [level'.kind = level.kind => Items(level') = Items(level)]_vars
  BY StepSInv
<1> QED
  BY <1>1, Invariance, PTL DEF Spec, ItemsConserved

-----------------------------------------------------------------------------
(* The refinement of Broadcast                                              *)

In == {d \in Clients : stage[d] = "in"}

\* The copies of those who stay do not change and nobody comes: that is a change of
\* the level.
LEMMA HostChanges ==
    ASSUME In' \subseteq In, \A c \in In' : view'[c] = view[c]
    PROVE  Host!Change
<1> DEFINE old == [c \in In |-> Told(view[c])]
           new == [c \in In' |-> Told(view'[c])]
<1>1. new = [c \in In' |-> old[c]] /\ In' \in SUBSET DOMAIN old
  OBVIOUS
<1> HIDE DEF old, new
<1>2. \E stay \in SUBSET DOMAIN old : new = [c \in stay |-> old[c]]
  BY <1>1
<1> QED
  BY <1>2 DEF Host!Change, old, new, In

\* A step within the host, a join or the end of a frame, as the clients see it.
LEMMA BroadcastStep ==
    ASSUME SInv, [Next]_vars
    PROVE  [Host!Next]_(Host!vars)
<1> USE DEF In
<1>1. ASSUME NEW s \in Slots, AnimateItem(s) \/ AnimateDog(s) \/ AnimatePlayer(s)
      PROVE  Host!Next
  <2>1. \E kind \in Kinds : Turn(s, kind)
    BY <1>1 DEF AnimateItem, AnimateDog, AnimatePlayer, Kinds
  <2>2. view' = view /\ stage' = stage
    BY <2>1 DEF Turn
  <2> QED
    BY <2>2, HostChanges DEF Host!Next
<1>2. ASSUME NEW c \in Clients, CheckSpawn(c) \/ Kick(c) PROVE Host!Next
  <2>1. /\ \A d \in In' : view'[d] = view[d]
        /\ \E to \in {"cleared", "gone"} : stage' = [stage EXCEPT ![c] = to]
    BY <1>2 DEF CheckSpawn, Kick, SInv, TypeOK
  <2>2. In' \subseteq In
    BY <2>1 DEF SInv, TypeOK
  <2> QED
    BY <2>1, <2>2, HostChanges DEF Host!Next
<1>3. ASSUME NEW c \in Clients, Join(c) PROVE Host!Next
  <2> DEFINE old == [d \in In |-> Told(view[d])]
             new == [d \in In' |-> Told(view'[d])]
             now == Told(Snapshot(level))
             then == Told(Snapshot(level'))
  <2>1. /\ stage[c] = "cleared" /\ stage' = [stage EXCEPT ![c] = "in"]
        /\ view' = [view EXCEPT ![c] = Snapshot(level')]
    BY <1>3 DEF Join
  <2>2. view = [d \in Clients |-> view[d]] /\ DOMAIN stage = Clients
    BY DEF SInv, Copies, TypeOK
  <2>3. In' = In \cup {c} /\ c \notin In
    BY <2>1, <2>2
  <2>4. DOMAIN old = In
    OBVIOUS
  <2>5. new = [d \in DOMAIN old \cup {c} |-> IF d = c THEN then ELSE old[d]]
    <3>1. \A d \in Clients : view'[d] = IF d = c THEN Snapshot(level') ELSE view[d]
      BY <2>1, <2>2
    <3> QED
      BY <2>3, <3>1
  <2> HIDE DEF then
  <2> HIDE DEF old, new, now
  <2>6. c \notin DOMAIN old /\ \E given \in {now, then} :
          new = [d \in DOMAIN old \cup {c} |-> IF d = c THEN given ELSE old[d]]
    BY <2>3, <2>4, <2>5
  <2>7. Host!Come(c)
    BY <2>6 DEF Host!Come, old, new, now, then
  <2> QED
    BY <2>7 DEF Host!Next
<1>4. CASE FrameStart
  BY <1>4, HostChanges DEF Host!Next, FrameStart
<1>5. CASE FrameEnd
  <2> DEFINE old == [d \in In |-> Told(view[d])]
             new == [d \in In' |-> Told(view'[d])]
             now == Told(Snapshot(level))
  <2>1. stage' = stage /\ level' = [level EXCEPT !.buf = <<>>] /\ DOMAIN view' = Clients
        /\ \A d \in In : view'[d] = ApplyAll(view[d], level.buf)
    BY <1>5 DEF FrameEnd
  <2>2. \A d \in In : Told(view'[d]) = now
    BY <2>1, ToldSnapshot DEF SInv, Copies
  <2>3. Told(Snapshot(level')) = now
    <3>1. /\ level'.index = level.index /\ level'.kind = level.kind
          /\ level'.inv = level.inv /\ level'.tiles = level.tiles
      BY <2>1 DEF SInv, TypeOK, Levels
    <3> QED
      BY <3>1, StreamedSame, ToldSnapshot
  <2> HIDE DEF now
  <2>4. new = [d \in DOMAIN old |-> now]
    BY <2>1, <2>2
  <2> HIDE DEF old, new
  <2>5. Host!Publish
    BY <2>3, <2>4 DEF Host!Publish, old, new, now
  <2> QED
    BY <2>5 DEF Host!Next
<1>6. CASE UNCHANGED vars
  BY <1>6, HostChanges DEF Host!Next, vars
<1> QED
  BY <1>1, <1>2, <1>3, <1>4, <1>5, <1>6 DEF Next, Exited

\* To its clients the host is a Broadcast of what events tell: their copies change
\* at the end of a frame only, and all of them become the level, whatever happened
\* in between.
THEOREM HostBroadcasts == Spec => BroadcastSpec
<1>1. Init => Host!Init
  BY DEF Init, Host!Init
<1>2. SInv /\ [Next]_vars => [Host!Next]_(Host!vars)
  BY BroadcastStep
<1> QED
  BY <1>1, <1>2, Invariance, PTL DEF Spec, BroadcastSpec, Host!Spec
=============================================================================

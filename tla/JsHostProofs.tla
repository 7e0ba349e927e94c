---------------------------- MODULE JsHostProofs ----------------------------
(***************************************************************************)
(* Machine-checked proofs about JsHost, for any number of connections and  *)
(* any size of the level and of the buffer.                                *)
(***************************************************************************)
EXTENDS JsHost, FiniteSetTheorems, FunctionTheorems, WellFoundedInduction, TLAPS

-----------------------------------------------------------------------------
(* Positions                                                                *)

\* A place on the board has a key.
LEMMA KeyOfPlace ==
    ASSUME NEW x \in 0..(Width - 1), NEW y \in 0..(Height - 1)
    PROVE  Vpts(x, y) \in Keys
<1>1. Width \in Nat /\ Height \in Nat /\ x \in Int /\ y \in Int
  BY ConstantsOK
<1>2. (Height - 1 - y) * Width >= 0
  BY <1>1
<1>3. y * Width + x =< Width * Height - 1
  BY <1>1, <1>2
<1>4. y * Width >= 0
  BY <1>1
<1> QED
  BY <1>1, <1>3, <1>4 DEF Vpts, Keys

\* Division, as sptv uses it.
LEMMA Divided ==
    ASSUME NEW k \in Int, NEW w \in Nat, w > 0
    PROVE  /\ k % w \in 0..(w - 1)
           /\ k \div w \in Int
           /\ k = w * (k \div w) + (k % w)
OBVIOUS

\* Quotient and remainder are unique.
LEMMA DividedOnce ==
    ASSUME NEW w \in Nat, w > 0, NEW a \in Int, NEW b \in Int,
           NEW r \in 0..(w - 1), NEW s \in 0..(w - 1), w * a + r = w * b + s
    PROVE  a = b /\ r = s
<1>1. w * (a - b) = s - r
  OBVIOUS
<1>2. CASE a - b >= 1
  <2>1. w * (a - b) >= w
    BY <1>2
  <2> QED
    BY <1>1, <2>1
<1>3. CASE b - a >= 1
  <2>1. w * (b - a) >= w
    BY <1>3
  <2>2. w * (b - a) = r - s
    OBVIOUS
  <2> QED
    BY <2>1, <2>2
<1> QED
  BY <1>2, <1>3

\* sptv takes a key to a place on the board.
LEMMA PlaceOfKey ==
    ASSUME NEW k \in Keys
    PROVE  Sptv(k)[1] \in 0..(Width - 1) /\ Sptv(k)[2] \in 0..(Height - 1)
<1> DEFINE d == k \div Width
<1>1. Width \in Nat /\ Width > 0 /\ Height \in Nat /\ k \in Int /\ k >= 0 /\ k < Width * Height
  BY ConstantsOK DEF Keys
<1>2. k % Width \in 0..(Width - 1) /\ d \in Int /\ k = Width * d + (k % Width)
  BY <1>1, Divided
<1>3. d >= 0
  <2>1. SUFFICES ASSUME d =< -1 PROVE FALSE
    BY <1>2
  <2>2. Width * d =< -Width
    BY <1>1, <1>2, <2>1
  <2> QED
    BY <1>1, <1>2, <2>2
<1>4. d =< Height - 1
  <2>1. SUFFICES ASSUME d >= Height PROVE FALSE
    BY <1>1, <1>2
  <2>2. Width * d >= Width * Height
    BY <1>1, <1>2, <2>1
  <2> QED
    BY <1>1, <1>2, <2>2
<1> QED
  BY <1>2, <1>3, <1>4 DEF Sptv

\* vpts and sptv are inverse on the board.
LEMMA PlaceAgain ==
    ASSUME NEW x \in 0..(Width - 1), NEW y \in 0..(Height - 1)
    PROVE  Sptv(Vpts(x, y)) = <<x, y>>
<1> DEFINE k == Vpts(x, y)
<1>1. Width \in Nat /\ Width > 0 /\ x \in Int /\ y \in Int
  BY ConstantsOK
<1>2. k \in Int /\ k = Width * y + x
  BY <1>1 DEF Vpts
<1>3. k % Width \in 0..(Width - 1) /\ k \div Width \in Int
      /\ k = Width * (k \div Width) + (k % Width)
  BY <1>1, <1>2, Divided
<1>4. k \div Width = y /\ k % Width = x
  BY <1>1, <1>2, <1>3, DividedOnce
<1> QED
  BY <1>4 DEF Sptv

\* A key is the key of its own coordinates.
LEMMA KeyAgain ==
    ASSUME NEW k \in Keys
    PROVE  Vpts(Sptv(k)[1], Sptv(k)[2]) = k
<1>1. Width \in Nat /\ Width > 0 /\ k \in Int
  BY ConstantsOK DEF Keys
<1>2. k % Width \in Int /\ k \div Width \in Int /\ k = Width * (k \div Width) + (k % Width)
  BY <1>1, Divided
<1> QED
  BY <1>1, <1>2 DEF Vpts, Sptv

\* A coordinate brought back is on its side.
LEMMA Clamped ==
    ASSUME NEW z \in Int, NEW side \in Nat \ {0}
    PROVE  Clamp(z, side) \in 0..(side - 1)
BY DEF Clamp, OnlyAbove

-----------------------------------------------------------------------------
(* Types                                                                    *)

\* Taking an entry out of a list that has one leaves a list.
LEMMA SpliceType ==
    ASSUME NEW S, NEW s \in Seq(S), s # <<>>, NEW i \in 1..Len(s)
    PROVE  Splice(s, i) \in Seq(S) /\ Len(Splice(s, i)) = Len(s) - 1
<1>1. Len(s) \in Nat \ {0}
  OBVIOUS
<1>2. \A j \in 1..(Len(s) - 1) : Splice(s, i)[j] \in S
  BY <1>1 DEF Splice
<1>3. Splice(s, i) = [j \in 1..(Len(s) - 1) |-> Splice(s, i)[j]]
  BY DEF Splice
<1> QED
  BY <1>1, <1>2, <1>3

\* Whom Close takes out is in the list.
LEMMA PlaceInList ==
    ASSUME connected \in Seq(Conns), connected # <<>>, NEW a
    PROVE  /\ Place(a) \in 1..Len(connected)
           /\ (\E i \in 1..Len(connected) : Address[connected[i]] = a)
                => Address[connected[Place(a)]] = a
<1> DEFINE same == {i \in 1..Len(connected) : Address[connected[i]] = a}
           least(i) == \A j \in same : i <= j
<1>1. DOMAIN connected = 1..Len(connected) /\ Len(connected) \in Nat \ {0}
  OBVIOUS
<1>2. CASE same = {}
  BY <1>1, <1>2 DEF Place
<1>3. CASE same # {}
  <2>1. same \subseteq Nat
    BY <1>1
  <2>2. \E i \in same : least(i)
    <3> DEFINE R == StrictSubsetOrdering(Nat)
               upTo == {1..i : i \in same}
    <3>1. IsWellFoundedOn(R, FiniteSubsetsOf(Nat))
      BY FS_StrictSubsetOrderingWellFounded
    <3>2. upTo \subseteq FiniteSubsetsOf(Nat) /\ upTo # {}
      <4>1. ASSUME NEW i \in same PROVE 1..i \in FiniteSubsetsOf(Nat)
        <5>1. i \in Int /\ IsFiniteSet(1..i)
          BY <2>1, FS_Interval
        <5> QED
          BY <5>1 DEF FiniteSubsetsOf
      <4> HIDE DEF same
      <4> QED
        BY <1>3, <4>1
    <3>3. \E t \in upTo : \A u \in upTo : <<u, t>> \notin R
      <4> HIDE DEF R, upTo
      <4> QED
        BY <3>1, <3>2, WFMin
    <3>4. PICK i \in same : \A j \in same : <<1..j, 1..i>> \notin R
      BY <3>3
    <3>5. ASSUME NEW j \in same, j < i PROVE FALSE
      <4>1. i \in Nat /\ j \in Nat /\ 1..j \in SUBSET Nat /\ 1..i \in SUBSET Nat
        BY <2>1
      <4>2. 1..j \subseteq 1..i /\ i \in 1..i /\ i \notin 1..j
        BY <1>1, <3>5, <4>1
      <4> QED
        BY <3>4, <4>1, <4>2 DEF StrictSubsetOrdering
    <3> QED
      BY <2>1, <3>5
  <2>3. (CHOOSE i \in same : least(i)) \in same
    BY <2>2
  <2>4. Place(a) = CHOOSE i \in same : least(i)
    BY <1>1, <1>3 DEF Place
  <2> QED
    BY <2>3, <2>4
<1> QED
  BY <1>2, <1>3

\* The spawn and the first tile of the dog are on the board.
LEMMA KeysOfLevel == SpawnKey \in Keys /\ DogKey \in Keys
<1>1. 2 \in 0..(Width - 1) /\ 3 \in 0..(Height - 1) /\ DogKey = Vpts(2, 3)
  BY ConstantsOK DEF DogKey, Vpts
<1> QED
  BY <1>1, KeyOfPlace, ConstantsOK DEF SpawnKey

\* Where a dog on a key goes: not below the board, up and to the left.
LEMMA Step ==
    ASSUME NEW k \in Keys, NEW dx \in RandomStep, NEW dy \in RandomStep
    PROVE  LET p == Sptv(k)
               q == <<Clamp(p[1] + dx, Width), Clamp(p[2] + dy, Height)>>
           IN  /\ q[1] \in 0..p[1] /\ q[2] \in 0..p[2]
               /\ Vpts(q[1], q[2]) \in Keys
               /\ Sptv(Vpts(q[1], q[2])) = q
<1> DEFINE p == Sptv(k)
           x == Clamp(p[1] + dx, Width)
           y == Clamp(p[2] + dy, Height)
<1>1. p[1] \in 0..(Width - 1) /\ p[2] \in 0..(Height - 1)
  BY PlaceOfKey
<1>2. dx \in Int /\ dx < 0 /\ dy \in Int /\ dy < 0 /\ Width \in Nat /\ Height \in Nat
  BY ConstantsOK DEF RandomStep
<1>3. x \in 0..p[1] /\ y \in 0..p[2]
  BY <1>1, <1>2 DEF Clamp, OnlyAbove
<1>4. x \in 0..(Width - 1) /\ y \in 0..(Height - 1)
  BY <1>1, <1>2, <1>3
<1>5. Vpts(x, y) \in Keys /\ Sptv(Vpts(x, y)) = <<x, y>>
  BY <1>4, KeyOfPlace, PlaceAgain
<1> QED
  BY <1>3, <1>5

\* The end of the process leaves nothing behind.
LEMMA DieType ==
    ASSUME TypeOK, NEW why \in {"error", "snapshot", "overflow"}, Die(why)
    PROVE  TypeOK'
<1>1. <<>> \in Seq(Conns) /\ DOMAIN <<>> = {}
  OBVIOUS
<1>2. 0 \in 0..BufSize
  BY ConstantsOK
<1> QED
  BY <1>1, <1>2 DEF TypeOK, Die, Stages

\* A handler that goes on to its next await.
LEMMA GoType ==
    ASSUME TypeOK, NEW c \in Conns, NEW s \in Stages, Go(c, s)
    PROVE  TypeOK'
BY DEF TypeOK, Go, peerVars, levelVars, frameVars

\* A handler that writes, or ends the process.
LEMMA ReplyType ==
    ASSUME TypeOK, NEW c \in Conns, NEW s \in Stages, Reply(c, s)
    PROVE  TypeOK'
BY GoType, DieType DEF Reply

\* One turn of the forEach: either nothing changes but what it has yet to visit,
\* or the dog on k goes to another key, which is visited in its turn.
Moves(k, to) ==
    /\ to \in Keys /\ to \notin DOMAIN entities
    /\ Sptv(to)[1] + Sptv(to)[2] + 1 =< Sptv(k)[1] + Sptv(k)[2]
    /\ off + MoveSize =< BufSize /\ off' = off + MoveSize
    /\ entities' = [j \in (DOMAIN entities \ {k}) \cup {to} |->
                       IF j = to THEN entities[k] ELSE entities[j]]
    /\ todo' = (todo \ {k}) \cup {to}
    /\ UNCHANGED <<exit, stage, connected, frame, joined>> /\ UNCHANGED peerVars

Full(k) == Die("overflow") /\ off + MoveSize > BufSize /\ Sptv(k)[1] + Sptv(k)[2] >= 1

\* The turn of an entity: nothing, an overflow, or a step of the dog.
LEMMA Turn ==
    ASSUME TypeOK, NEW k \in todo, Visit(k)
    PROVE  \/ Skip(k)
           \/ entities[k] = "dog" /\ Full(k)
           \/ entities[k] = "dog" /\ \E to \in Keys : Moves(k, to)
<1> SUFFICES ASSUME ~Skip(k)
             PROVE  entities[k] = "dog" /\ (Full(k) \/ \E to \in Keys : Moves(k, to))
  OBVIOUS
<1>1. k \in DOMAIN entities /\ k \in Keys /\ entities[k] = "dog"
  BY DEF TypeOK, Visit
<1>2. PICK dx \in RandomStep, dy \in RandomStep : MoveEntBy(k, dx, dy)
  BY DEF Visit
<1> DEFINE p == Sptv(k)
           q == <<Clamp(p[1] + dx, Width), Clamp(p[2] + dy, Height)>>
           to == Vpts(q[1], q[2])
<1>3. q[1] \in 0..p[1] /\ q[2] \in 0..p[2] /\ to \in Keys /\ Sptv(to) = q
  BY <1>1, Step
<1>4. p[1] \in Nat /\ p[2] \in Nat /\ p = <<p[1], p[2]>>
  BY <1>1, PlaceOfKey, ConstantsOK DEF Sptv
<1>5. to \notin DOMAIN entities
  BY <1>2 DEF MoveEntBy, Occupied
<1>6. q[1] + q[2] + 1 =< p[1] + p[2]
  <2>1. q # p
    BY <1>1, <1>5, KeyAgain
  <2>2. q[1] # p[1] \/ q[2] # p[2]
    BY <2>1, <1>4
  <2> HIDE DEF p, q
  <2> QED
    BY <1>3, <1>4, <2>2
<1>7. CASE off + MoveSize > BufSize
  <2>1. Die("overflow")
    BY <1>2, <1>5, <1>7 DEF MoveEntBy, Occupied
  <2>2. p[1] + p[2] >= 1
    <3> HIDE DEF p, q
    <3> QED
      BY <1>3, <1>4, <1>6
  <2> QED
    BY <1>1, <1>7, <2>1, <2>2 DEF Full
<1>8. CASE ~ (off + MoveSize > BufSize)
  <2>1. /\ entities' = MapSet(MapDelete(entities, k), to, entities[k])
        /\ off' = off + MoveSize /\ todo' = (todo \ {k}) \cup {to}
        /\ UNCHANGED <<exit, stage, connected, frame, joined>> /\ UNCHANGED peerVars
    BY <1>2, <1>5, <1>8 DEF MoveEntBy, Occupied
  <2>2. entities' = [j \in (DOMAIN entities \ {k}) \cup {to} |->
                        IF j = to THEN entities[k] ELSE entities[j]]
    <3> HIDE DEF to
    <3> QED
      BY <2>1 DEF MapSet, MapDelete
  <2>3. off + MoveSize =< BufSize
    BY <1>8, ConstantsOK DEF TypeOK, MoveSize
  <2>4. Moves(k, to)
    BY <1>3, <1>5, <1>6, <2>1, <2>2, <2>3 DEF Moves
  <2> QED
    BY <1>1, <1>3, <2>4
<1> QED
  BY <1>7, <1>8

\* Every step of the host keeps the type of every variable.
LEMMA TypeStep == TypeOK /\ [Next]_vars => TypeOK'
<1> SUFFICES ASSUME TypeOK, [Next]_vars PROVE TypeOK'
  OBVIOUS
<1> USE DEF Stages
<1>1. ASSUME NEW c \in Conns, Handle(c) PROVE TypeOK'
  <2>1. CASE Connect(c)
    BY <2>1, GoType DEF Connect
  <2>2. CASE Operation(c)
    BY <2>2, GoType DEF Operation
  <2>3. CASE Status(c)
    BY <2>3, GoType, ReplyType DEF Status
  <2>4. CASE Name(c)
    BY <2>4, ReplyType DEF Name
  <2>5. CASE Claim(c)
    BY <2>5, ReplyType DEF Claim
  <2>6. CASE Deny(c)
    BY <2>6, ReplyType DEF Deny
  <2>7. CASE Join(c)
    <3>1. CASE Enter(c) /\ ~ (off + JoinSize > BufSize)
      <4>1. DOMAIN entities' \subseteq Keys /\ DOMAIN entities \subseteq DOMAIN entities'
            /\ \A k \in DOMAIN entities' : entities'[k] \in {"dog", "player"}
        <5>1. entities' = MapSet(entities, SpawnKey, "player") /\ SpawnKey \in Keys
          BY <3>1, KeysOfLevel DEF Enter, ResolveSpawning
        <5>2. DOMAIN entities \subseteq Keys
              /\ \A j \in DOMAIN entities : entities[j] \in {"dog", "player"}
          BY DEF TypeOK
        <5>3. DOMAIN MapSet(entities, SpawnKey, "player") = DOMAIN entities \cup {SpawnKey}
              /\ \A j \in DOMAIN MapSet(entities, SpawnKey, "player") :
                   MapSet(entities, SpawnKey, "player")[j] \in {"dog", "player"}
          BY <5>1, <5>2 DEF MapSet
        <5> QED
          BY <5>1, <5>2, <5>3
      <4>2. connected' \in Seq(Conns)
        BY <3>1 DEF TypeOK, Enter
      <4>3. off' \in 0..BufSize /\ joined' \in Nat
        BY <3>1, ConstantsOK DEF TypeOK, Enter, JoinSize
      <4> QED
        BY <3>1, <4>1, <4>2, <4>3 DEF TypeOK, Enter, peerVars, frameVars
    <3> QED
      BY <2>7, <3>1, DieType DEF Join
  <2> QED
    BY <1>1, <2>1, <2>2, <2>3, <2>4, <2>5, <2>6, <2>7 DEF Handle
<1>2. ASSUME NEW c \in Conns, Close(c) PROVE TypeOK'
  <2>1. connected' \in Seq(Conns)
    <3>1. CASE connected = <<>>
      BY <1>2, <3>1 DEF TypeOK, Close
    <3>2. CASE connected # <<>>
      BY <1>2, <3>2, PlaceInList, SpliceType DEF TypeOK, Close
    <3> QED
      BY <3>1, <3>2
  <2> QED
    BY <1>2, <2>1 DEF TypeOK, Close, peerVars, levelVars, frameVars
<1>3. ASSUME NEW c \in Conns, HangUp(c) PROVE TypeOK'
  BY <1>3 DEF TypeOK, HangUp, levelVars, frameVars
<1>4. ASSUME NEW c \in Conns, Chatter(c) PROVE TypeOK'
  BY <1>4 DEF TypeOK, Chatter, levelVars, frameVars
<1>5. ASSUME NEW c \in Conns, Reset(c) PROVE TypeOK'
  BY <1>5, DieType DEF Reset
<1>6. CASE FrameStart
  BY <1>6 DEF TypeOK, FrameStart, peerVars, levelVars
<1>7. ASSUME NEW k \in todo, Visit(k) PROVE TypeOK'
  <2>1. CASE Skip(k)
    BY <2>1 DEF TypeOK, Skip, peerVars, levelVars
  <2>2. CASE Full(k)
    BY <2>2, DieType DEF Full
  <2>3. ASSUME NEW to \in Keys, Moves(k, to) PROVE TypeOK'
    <3>1. off' \in 0..BufSize
      BY <2>3, ConstantsOK DEF TypeOK, Moves, MoveSize
    <3>2. k \in DOMAIN entities
      BY <1>7 DEF TypeOK
    <3>3. DOMAIN entities' \subseteq Keys /\ todo' \subseteq DOMAIN entities'
          /\ \A j \in DOMAIN entities' : entities'[j] \in {"dog", "player"}
      BY <2>3, <3>2 DEF TypeOK, Moves
    <3> QED
      BY <2>3, <3>1, <3>3 DEF TypeOK, Moves, peerVars
  <2> QED
    BY <1>7, <2>1, <2>2, <2>3, Turn
<1>8. CASE FrameEnd
  <2>1. CASE Die("overflow")
    BY <2>1, DieType
  <2>2. CASE ~Die("overflow")
    <3>1. off' = 0 /\ joined' = 0 /\ frame' = FALSE
          /\ UNCHANGED <<exit, stage, connected, entities, todo>> /\ UNCHANGED peerVars
      BY <1>8, <2>2 DEF FrameEnd, Front
    <3>2. off' \in 0..BufSize /\ joined' \in Nat
      BY <3>1, ConstantsOK
    <3>3. DOMAIN entities' = DOMAIN entities /\ todo' \subseteq DOMAIN entities'
          /\ \A k \in DOMAIN entities' : entities'[k] \in {"dog", "player"}
      BY <3>1 DEF TypeOK
    <3> QED
      BY <3>1, <3>2, <3>3 DEF TypeOK, peerVars
  <2> QED
    BY <2>1, <2>2
<1>9. CASE UNCHANGED vars
  BY <1>9 DEF TypeOK, vars
<1> QED
  BY <1>1, <1>2, <1>3, <1>4, <1>5, <1>6, <1>7, <1>8, <1>9 DEF Next, Animate

\* The process starts with values of these types.
LEMMA TypeInit == Init => TypeOK
<1> SUFFICES ASSUME Init PROVE TypeOK
  OBVIOUS
<1>1. DOMAIN entities = {DogKey} /\ \A k \in DOMAIN entities : entities[k] = "dog"
  BY DEF Init
<1>2. 0 \in 0..BufSize /\ <<>> \in Seq(Conns)
  BY ConstantsOK
<1> QED
  BY <1>1, <1>2, KeysOfLevel DEF Init, TypeOK, Stages

\* Every variable keeps its type: above all, no step takes an entity off the
\* board, or writes past the end of the buffer.
THEOREM TypeCorrect == Spec => []TypeOK
BY TypeInit, TypeStep, PTL DEF Spec

-----------------------------------------------------------------------------
(* Frames fit                                                               *)

OneDog ==
    \A j, k \in DOMAIN entities : entities[j] = "dog" /\ entities[k] = "dog" => j = k

\* The bytes of the joins since the last frame, and of the moves that a frame can
\* still add: a dog that has come to x, y has no more than x + y left.
Joins == JoinSize * joined
MostMoves == MoveSize * (Width + Height - 2)
Left(k) == MoveSize * (Sptv(k)[1] + Sptv(k)[2])

Budget ==
    exit = "no" =>
      /\ ~frame => off = Joins
      /\ frame => /\ off =< Joins + MostMoves
                  /\ \A k \in DOMAIN entities :
                       entities[k] = "dog" => off + Left(k) =< Joins + MostMoves

FInv == TypeOK /\ OneDog /\ Budget /\ FrameFits

\* The process ends without an overflow, or with one that a crowd explains.
LEMMA DieFits ==
    ASSUME FInv, NEW why \in {"error", "snapshot", "overflow"}, Die(why),
           why = "overflow" => Crowded
    PROVE  OneDog' /\ Budget' /\ FrameFits'
BY DEF Die, OneDog, Budget, FrameFits, Crowded

\* Nothing that leaves the level and the buffer alone matters.
LEMMA QuietFits ==
    ASSUME FInv, UNCHANGED <<exit, entities, off, frame, joined>>
    PROVE  OneDog' /\ Budget' /\ FrameFits'
BY DEF FInv, OneDog, Budget, FrameFits, Crowded, Joins, MostMoves, Left

\* Handlers that neither join nor leave do not touch the buffer.
LEMMA GoFits ==
    ASSUME FInv, NEW c, NEW s, Go(c, s) \/ Reply(c, s)
    PROVE  OneDog' /\ Budget' /\ FrameFits'
<1>1. CASE Go(c, s)
  BY <1>1, QuietFits DEF Go, levelVars, frameVars
<1>2. CASE Die("error")
  BY <1>2, DieFits
<1> QED
  BY <1>1, <1>2 DEF Reply

\* The places on the board, as bytes of moves.
LEMMA LeftBound ==
    ASSUME NEW k \in Keys
    PROVE  Left(k) \in Nat /\ Left(k) =< MostMoves /\ MostMoves \in Nat /\ MostMoves >= JoinSize
<1>1. Sptv(k)[1] \in 0..(Width - 1) /\ Sptv(k)[2] \in 0..(Height - 1)
  BY PlaceOfKey
<1>2. Width \in Nat /\ Height \in Nat /\ Width >= 3 /\ Height >= 4
  BY ConstantsOK
<1> HIDE DEF Sptv
<1> QED
  BY <1>1, <1>2 DEF Left, MostMoves, MoveSize, JoinSize

\* Every step keeps the budget of the dog and the buffer.
LEMMA FitsStep == FInv /\ [Next]_vars => OneDog' /\ Budget' /\ FrameFits'
<1> SUFFICES ASSUME FInv, [Next]_vars PROVE OneDog' /\ Budget' /\ FrameFits'
  OBVIOUS
<1>0. TypeOK /\ SpawnKey \in Keys /\ MostMoves \in Nat /\ MostMoves >= JoinSize
      /\ joined \in Nat /\ Joins \in Nat /\ off \in Nat /\ BufSize \in Nat
  BY KeysOfLevel, LeftBound, ConstantsOK DEF FInv, TypeOK, Joins, JoinSize
<1>1. ASSUME NEW c \in Conns, Handle(c) PROVE OneDog' /\ Budget' /\ FrameFits'
  <2>1. CASE Join(c)
    <3>1. CASE Die("error") \/ Die("snapshot")
      BY <3>1, DieFits
    <3>2. CASE Die("overflow") /\ off + JoinSize > BufSize
      <4>1. off = Joins
        BY <2>1 DEF Join, Loop, FInv, Budget
      <4>2. Joins + MostMoves + 1 > BufSize
        BY <1>0, <3>2, <4>1 DEF JoinSize
      <4>3. Crowded
        BY <4>2 DEF Crowded, Joins, MostMoves
      <4> QED
        BY <3>2, <4>3, DieFits
    <3>3. CASE Enter(c)
      <4>1. exit = "no" /\ ~frame /\ off = Joins
        BY <2>1 DEF Join, Loop, FInv, Budget
      <4>2. exit' = "no" /\ ~frame' /\ off' = off + JoinSize /\ joined' = joined + 1
        BY <3>3, <4>1 DEF Enter, frameVars
      <4>3. off' = Joins'
        BY <1>0, <4>1, <4>2 DEF Joins, JoinSize
      <4>4. OneDog'
        BY <3>3 DEF FInv, OneDog, Enter, MapSet, ResolveSpawning
      <4> QED
        BY <4>2, <4>3, <4>4 DEF Budget, FrameFits
    <3> QED
      BY <2>1, <3>1, <3>2, <3>3 DEF Join
  <2> QED
    BY <1>1, <2>1, GoFits DEF Handle, Connect, Operation, Status, Name, Claim, Deny
<1>2. ASSUME NEW c \in Conns, Close(c) \/ HangUp(c) \/ Chatter(c)
      PROVE  OneDog' /\ Budget' /\ FrameFits'
  BY <1>2, QuietFits DEF Close, HangUp, Chatter, levelVars, frameVars
<1>3. ASSUME NEW c \in Conns, Reset(c) PROVE OneDog' /\ Budget' /\ FrameFits'
  BY <1>3, DieFits DEF Reset
<1>4. CASE FrameStart
  <2>1. exit = "no" /\ off = Joins /\ UNCHANGED <<exit, entities, off, joined>>
    BY <1>4 DEF FrameStart, Loop, FInv, Budget, levelVars
  <2>2. \A k \in DOMAIN entities : off + Left(k) =< Joins + MostMoves
    <3> TAKE k \in DOMAIN entities
    <3>1. k \in Keys
      BY <1>0 DEF TypeOK
    <3>2. Left(k) \in Nat /\ Left(k) =< MostMoves
      BY <3>1, LeftBound
    <3> QED
      BY <1>0, <2>1, <3>2
  <2>3. off =< Joins + MostMoves
    BY <1>0, <2>1
  <2>4. frame'
    BY <1>4 DEF FrameStart
  <2> QED
    BY <2>1, <2>2, <2>3, <2>4 DEF FInv, OneDog, Budget, FrameFits, Joins, MostMoves, Left
<1>5. ASSUME NEW k \in todo, Visit(k) PROVE OneDog' /\ Budget' /\ FrameFits'
  <2>1. k \in DOMAIN entities /\ k \in Keys /\ exit = "no" /\ frame
    BY <1>0, <1>5 DEF TypeOK, Visit
  <2> DEFINE sum == Sptv(k)[1] + Sptv(k)[2]
  <2>2. sum \in Nat
    BY <2>1, PlaceOfKey, ConstantsOK
  <2>3. CASE Skip(k)
    BY <2>3, QuietFits DEF Skip, levelVars
  <2>4. CASE entities[k] = "dog" /\ Full(k)
    <3>1. off + MoveSize * sum =< Joins + MostMoves /\ off + MoveSize > BufSize /\ sum >= 1
      BY <2>1, <2>4 DEF Full, FInv, Budget, Left
    <3> HIDE DEF sum
    <3>2. Joins + MostMoves + 1 > BufSize
      BY <1>0, <2>2, <3>1 DEF MoveSize
    <3>3. Crowded
      BY <3>2 DEF Crowded, Joins, MostMoves
    <3> QED
      BY <2>4, <3>3, DieFits DEF Full
  <2>5. ASSUME entities[k] = "dog", NEW to \in Keys, Moves(k, to)
        PROVE  OneDog' /\ Budget' /\ FrameFits'
    <3>1. off + MoveSize * sum =< Joins + MostMoves
      BY <2>1, <2>5 DEF FInv, Budget, Left
    <3> DEFINE less == Sptv(to)[1] + Sptv(to)[2]
    <3>2. less \in Nat
      BY <2>5, PlaceOfKey, ConstantsOK
    <3>3. less + 1 =< sum /\ off' = off + MoveSize
      BY <2>5 DEF Moves
    <3>4. off' + MoveSize * less =< Joins + MostMoves /\ off' =< Joins + MostMoves
      <4> HIDE DEF less, sum
      <4> QED
        BY <1>0, <2>2, <3>1, <3>2, <3>3 DEF MoveSize
    <3>5. \A j \in DOMAIN entities' : entities'[j] = "dog" => j = to
      BY <2>1, <2>5 DEF FInv, OneDog, Moves
    <3>6. exit' = "no" /\ frame' /\ joined' = joined
      BY <2>1, <2>5 DEF Moves
    <3> QED
      BY <3>4, <3>5, <3>6 DEF OneDog, Budget, FrameFits, Joins, MostMoves, Left
  <2> QED
    BY <1>0, <1>5, <2>3, <2>4, <2>5, Turn
<1>6. CASE FrameEnd
  <2>1. exit = "no" /\ frame /\ off =< Joins + MostMoves
    BY <1>6 DEF FrameEnd, FInv, Budget
  <2>2. CASE off + 1 > BufSize
    <3>1. Joins + MostMoves + 1 > BufSize
      BY <1>0, <2>1, <2>2
    <3>2. Crowded
      BY <3>1 DEF Crowded, Joins, MostMoves
    <3> QED
      BY <1>6, <2>2, <3>2, DieFits DEF FrameEnd
  <2>3. CASE ~ (off + 1 > BufSize)
    <3>1. ~frame' /\ off' = 0 /\ joined' = 0 /\ UNCHANGED <<exit, entities>>
      BY <1>6, <2>3 DEF FrameEnd, Front
    <3> QED
      BY <2>1, <3>1 DEF FInv, OneDog, Budget, FrameFits, Joins, JoinSize
  <2> QED
    BY <2>2, <2>3
<1>7. CASE UNCHANGED vars
  BY <1>7, QuietFits DEF vars
<1> QED
  BY <1>1, <1>2, <1>3, <1>4, <1>5, <1>6, <1>7 DEF Next, Animate

\* An empty buffer, and one dog with its whole budget.
LEMMA FitsInit == Init => FInv
<1> SUFFICES ASSUME Init PROVE FInv
  OBVIOUS
<1>1. DOMAIN entities = {DogKey}
  BY DEF Init
<1> QED
  BY <1>1, TypeInit DEF Init, FInv, OneDog, Budget, FrameFits, Joins, JoinSize

\* A frame that visits again what it has moved ends before the buffer is full,
\* whatever the size of the level, unless joins have crowded it: no dog moves
\* more often in a frame than its coordinates allow.
THEOREM FramesFit == Spec => []FrameFits
<1>1. FInv /\ [Next]_vars => FInv'
  BY TypeStep, FitsStep DEF FInv
<1>2. FInv => FrameFits
  BY DEF FInv
<1> QED
  BY <1>1, <1>2, FitsInit, PTL DEF Spec

-----------------------------------------------------------------------------
(* The list of players                                                      *)

\* The entries of a list that are in a set, and the players among a set.
Entries(s, P) == {i \in 1..Len(s) : s[i] \in P}
Playing(P) == {d \in P : stage[d] = "playing"}

\* A list has finitely many places of a kind.
LEMMA EntriesFinite ==
    ASSUME NEW S, NEW s \in Seq(S), NEW P
    PROVE  IsFiniteSet(Entries(s, P))
<1>1. IsFiniteSet(1..Len(s))
  BY FS_Interval
<1>2. Entries(s, P) \in SUBSET (1..Len(s))
  BY DEF Entries
<1> QED
  BY <1>1, <1>2, FS_Subset

\* One more entry, if what is appended is in the set.
LEMMA EntriesAppend ==
    ASSUME NEW S, NEW s \in Seq(S), NEW c \in S, NEW P
    PROVE  Cardinality(Entries(Append(s, c), P))
             = Cardinality(Entries(s, P)) + (IF c \in P THEN 1 ELSE 0)
<1> DEFINE n == Len(s) + 1
<1>1. Len(s) \in Nat /\ Len(Append(s, c)) = n /\ Append(s, c)[n] = c
      /\ \A i \in 1..Len(s) : Append(s, c)[i] = s[i]
  OBVIOUS
<1>2. n \notin Entries(s, P)
  BY <1>1 DEF Entries
<1>3. CASE c \in P
  <2>1. Entries(Append(s, c), P) = Entries(s, P) \cup {n}
    BY <1>1, <1>3 DEF Entries
  <2> QED
    BY <1>2, <1>3, <2>1, EntriesFinite, FS_AddElement
<1>4. CASE c \notin P
  <2>1. Entries(Append(s, c), P) = Entries(s, P)
    BY <1>1, <1>4 DEF Entries
  <2>2. Cardinality(Entries(s, P)) \in Nat
    BY EntriesFinite, FS_CardinalityType
  <2> QED
    BY <1>4, <2>1, <2>2
<1> QED
  BY <1>3, <1>4

\* One entry less, if what is taken out is in the set: the others keep their
\* order, one place further on from there.
LEMMA EntriesSplice ==
    ASSUME NEW S, NEW s \in Seq(S), s # <<>>, NEW i \in 1..Len(s), NEW P
    PROVE  Cardinality(Entries(Splice(s, i), P))
             = Cardinality(Entries(s, P)) - (IF s[i] \in P THEN 1 ELSE 0)
<1> DEFINE short == Splice(s, i)
           E == Entries(s, P) \ {i}
           F == Entries(short, P)
           up == [j \in F |-> IF j < i THEN j ELSE j + 1]
<1>1. Len(s) \in Nat \ {0} /\ Len(short) = Len(s) - 1 /\ i \in Int
  BY SpliceType
<1>2. \A j \in 1..(Len(s) - 1) : short[j] = IF j < i THEN s[j] ELSE s[j + 1]
  BY DEF Splice
<1> HIDE DEF short
<1>3. up \in [F -> E]
  <2>1. ASSUME NEW j \in F PROVE up[j] \in E
    <3>1. j \in 1..(Len(s) - 1) /\ short[j] \in P
      BY <1>1 DEF Entries
    <3>2. CASE j < i
      BY <1>1, <1>2, <3>1, <3>2 DEF Entries
    <3>3. CASE ~ (j < i)
      <4>1. s[j + 1] \in P /\ j + 1 \in 1..Len(s) /\ j + 1 # i
        BY <1>1, <1>2, <3>1, <3>3
      <4> QED
        BY <3>3, <4>1 DEF Entries
    <3> QED
      BY <3>2, <3>3
  <2> HIDE DEF E, F
  <2> QED
    BY <2>1
<1>4. \A j, k \in F : up[j] = up[k] => j = k
  BY <1>1 DEF Entries
<1>5. \A m \in E : \E j \in F : up[j] = m
  <2> TAKE m \in E
  <2>1. CASE m < i
    <3>1. m \in F
      BY <1>1, <1>2, <2>1 DEF Entries
    <3> QED
      BY <2>1, <3>1
  <2>2. CASE ~ (m < i)
    <3>1. m - 1 \in F
      BY <1>1, <1>2, <2>2 DEF Entries
    <3>2. up[m - 1] = m
      BY <1>1, <2>2, <3>1 DEF Entries
    <3> QED
      BY <3>1, <3>2
  <2> QED
    BY <2>1, <2>2
<1>6. IsFiniteSet(F)
  BY SpliceType, EntriesFinite DEF short
<1>7. Cardinality(E) = Cardinality(F)
  <2>1. ExistsBijection(F, E)
    <3> HIDE DEF E, F, up
    <3> QED
      BY <1>3, <1>4, <1>5, Fun_IsBij DEF ExistsBijection
  <2> QED
    BY <1>6, <2>1, FS_Bijection
<1>8. Cardinality(E) = Cardinality(Entries(s, P)) - (IF i \in Entries(s, P) THEN 1 ELSE 0)
  <2>1. IsFiniteSet(Entries(s, P))
    BY EntriesFinite
  <2>2. Cardinality(Entries(s, P)) \in Nat
    BY <2>1, FS_CardinalityType
  <2>3. Cardinality(E) = IF i \in Entries(s, P) THEN Cardinality(Entries(s, P)) - 1
                                               ELSE Cardinality(Entries(s, P))
    BY <2>1, FS_RemoveElement
  <2> HIDE DEF E
  <2> QED
    BY <2>2, <2>3
<1>9. i \in Entries(s, P) <=> s[i] \in P
  BY DEF Entries
<1> QED
  BY <1>7, <1>8, <1>9 DEF short

\* Finitely many connections play, as they are finitely many.
LEMMA PlayingFinite ==
    ASSUME NEW P \in SUBSET Conns
    PROVE  IsFiniteSet(Playing(P)) /\ Cardinality(Playing(P)) \in Nat
<1>1. Playing(P) \in SUBSET Conns
  BY DEF Playing
<1> QED
  BY <1>1, FS_Subset, FS_CardinalityType, ConstantsOK

\* CountAgrees, in the terms of the lemmas.
Counts(P) == Cardinality(Entries(connected, P)) = Cardinality(Playing(P))
CountInv == \A c \in Conns : Counts(At(Address[c]))

\* The counts of the invariant are those of CountAgrees.
LEMMA CountsAre == TypeOK => (CountInv <=> CountAgrees)
<1> SUFFICES ASSUME TypeOK PROVE CountInv <=> CountAgrees
  OBVIOUS
<1>1. DOMAIN connected = 1..Len(connected)
  BY DEF TypeOK
<1> QED
  BY <1>1 DEF CountInv, Counts, CountAgrees, Entries, Playing

\* Steps after which the same connections play, and are listed.
LEMMA QuietCounts ==
    ASSUME CountInv, UNCHANGED connected,
           \A d \in Conns : stage'[d] = "playing" <=> stage[d] = "playing"
    PROVE  CountInv'
<1>1. \A c \in Conns : Playing(At(Address[c]))' = Playing(At(Address[c]))
  BY DEF Playing, At
<1> QED
  BY <1>1 DEF CountInv, Counts, At

\* After the end of the process nobody plays and nobody is listed.
LEMMA DieCounts ==
    ASSUME TypeOK, NEW why, Die(why)
    PROVE  CountInv'
<1>1. ASSUME NEW P \in SUBSET Conns PROVE Counts(P)'
  <2>1. connected' = <<>> /\ \A d \in P : stage'[d] # "playing"
    BY DEF Die
  <2>2. Entries(connected', P) = {} /\ Playing(P)' = {}
    BY <2>1 DEF Entries, Playing
  <2> QED
    BY <2>2 DEF Counts
<1> QED
  BY <1>1 DEF CountInv, At

\* A handler that does not play changes no count.
LEMMA GoCounts ==
    ASSUME TypeOK, CountInv, NEW c \in Conns, NEW s, s # "playing", stage[c] # "playing",
           Go(c, s) \/ Reply(c, s)
    PROVE  CountInv'
<1>1. CASE Go(c, s)
  <2>1. UNCHANGED connected /\ \A d \in Conns : stage'[d] = "playing" <=> stage[d] = "playing"
    BY <1>1 DEF Go, TypeOK
  <2> QED
    BY <2>1, QuietCounts
<1> QED
  BY <1>1, DieCounts DEF Reply

\* A join adds one place and one player of one address.
LEMMA EnterCounts ==
    ASSUME TypeOK, CountInv, NEW c \in Conns, stage[c] # "playing", Enter(c)
    PROVE  CountInv'
<1>1. ASSUME NEW e \in Conns PROVE Counts(At(Address[e]))'
  <2> DEFINE P == At(Address[e])
  <2>1. P \in SUBSET Conns /\ P' = P
    BY DEF At
  <2> HIDE DEF P
  <2>2. Cardinality(Entries(connected', P))
          = Cardinality(Entries(connected, P)) + (IF c \in P THEN 1 ELSE 0)
    BY EntriesAppend DEF TypeOK, Enter
  <2>3. Cardinality(Playing(P)') = Cardinality(Playing(P)) + (IF c \in P THEN 1 ELSE 0)
    <3>0. \A d \in Conns : stage'[d] = IF d = c THEN "playing" ELSE stage[d]
      BY DEF TypeOK, Enter
    <3>1. Playing(P)' = IF c \in P THEN Playing(P) \cup {c} ELSE Playing(P)
      BY <2>1, <3>0 DEF Playing
    <3>2. c \notin Playing(P)
      BY DEF Playing
    <3>3. IsFiniteSet(Playing(P)) /\ Cardinality(Playing(P)) \in Nat
      BY <2>1, PlayingFinite
    <3>4. Cardinality(Playing(P) \cup {c}) = Cardinality(Playing(P)) + 1
      BY <3>2, <3>3, FS_AddElement
    <3> QED
      BY <3>1, <3>3, <3>4
  <2>4. Counts(P)
    BY DEF CountInv, P
  <2>5. Counts(P)'
    BY <2>1, <2>2, <2>3, <2>4 DEF Counts
  <2> QED
    BY <2>5 DEF P
<1> QED
  BY <1>1 DEF CountInv

\* A leaving player takes one place and one player of its address away.
LEMMA CloseCounts ==
    ASSUME TypeOK, CountInv, NEW c \in Conns, Close(c)
    PROVE  CountInv'
<1> DEFINE i == Place(Address[c])
<1>1. connected \in Seq(Conns) /\ stage[c] = "playing"
  BY DEF TypeOK, Close
<1>2. \E j \in 1..Len(connected) : Address[connected[j]] = Address[c]
  <2>1. c \in Playing(At(Address[c])) /\ At(Address[c]) \in SUBSET Conns
    BY <1>1 DEF Playing, At
  <2>2. Cardinality(Playing(At(Address[c]))) # 0
    BY <2>1, PlayingFinite, FS_EmptySet
  <2>3. Cardinality(Entries(connected, At(Address[c]))) # 0
    BY <2>2 DEF CountInv, Counts
  <2>4. Entries(connected, At(Address[c])) # {}
    BY <2>3, FS_EmptySet
  <2> QED
    BY <2>4 DEF Entries, At
<1>3. connected # <<>>
  BY <1>2
<1>4. i \in 1..Len(connected) /\ connected[i] \in Conns /\ Address[connected[i]] = Address[c]
  BY <1>1, <1>2, <1>3, PlaceInList
<1>5. connected' = Splice(connected, i)
  BY <1>3 DEF Close
<1> HIDE DEF i
<1>6. ASSUME NEW e \in Conns PROVE Counts(At(Address[e]))'
  <2> DEFINE P == At(Address[e])
  <2>1. P \in SUBSET Conns /\ P' = P /\ (connected[i] \in P <=> c \in P)
    BY <1>4 DEF At
  <2> HIDE DEF P
  <2>2. Cardinality(Entries(connected', P))
          = Cardinality(Entries(connected, P)) - (IF c \in P THEN 1 ELSE 0)
    BY <1>1, <1>3, <1>4, <1>5, <2>1, EntriesSplice
  <2>3. Cardinality(Playing(P)') = Cardinality(Playing(P)) - (IF c \in P THEN 1 ELSE 0)
    <3>0. \A d \in Conns : stage'[d] = IF d = c THEN "done" ELSE stage[d]
      BY DEF TypeOK, Close
    <3>1. Playing(P)' = Playing(P) \ {c}
      BY <2>1, <3>0 DEF Playing
    <3>2. c \in Playing(P) <=> c \in P
      BY <1>1 DEF Playing
    <3>3. Cardinality(Playing(P) \ {c})
            = IF c \in Playing(P) THEN Cardinality(Playing(P)) - 1 ELSE Cardinality(Playing(P))
      BY <2>1, PlayingFinite, FS_RemoveElement
    <3>4. Cardinality(Playing(P)) \in Nat
      BY <2>1, PlayingFinite
    <3> QED
      BY <3>1, <3>2, <3>3, <3>4
  <2>4. Counts(P)
    BY DEF CountInv, P
  <2>5. Counts(P)'
    BY <2>1, <2>2, <2>3, <2>4 DEF Counts
  <2> QED
    BY <2>5 DEF P
<1> QED
  BY <1>6 DEF CountInv

\* Every step keeps the counts equal.
LEMMA CountStep == TypeOK /\ CountInv /\ [Next]_vars => CountInv'
<1> SUFFICES ASSUME TypeOK, CountInv, [Next]_vars PROVE CountInv'
  OBVIOUS
<1>1. ASSUME NEW c \in Conns, Handle(c) PROVE CountInv'
  <2>1. stage[c] # "playing"
    BY <1>1 DEF Handle, Connect, Operation, Status, Name, Claim, Deny, Join
  <2>2. CASE Join(c)
    BY <2>1, <2>2, DieCounts, EnterCounts DEF Join
  <2> QED
    BY <1>1, <2>1, <2>2, GoCounts DEF Handle, Connect, Operation, Status, Name, Claim, Deny
<1>2. ASSUME NEW c \in Conns, Close(c) PROVE CountInv'
  BY <1>2, CloseCounts
<1>3. ASSUME NEW c \in Conns, Reset(c) PROVE CountInv'
  BY <1>3, DieCounts DEF Reset
<1>4. ASSUME NEW k \in todo, Visit(k) PROVE CountInv'
  BY <1>4, Turn, DieCounts, QuietCounts DEF Skip, Full, Moves
<1>5. CASE FrameEnd
  BY <1>5, DieCounts, QuietCounts DEF FrameEnd
<1>6. CASE FrameStart \/ UNCHANGED vars \/ \E c \in Conns : HangUp(c) \/ Chatter(c)
  BY <1>6, QuietCounts DEF FrameStart, HangUp, Chatter, vars
<1> QED
  BY <1>1, <1>2, <1>3, <1>4, <1>5, <1>6 DEF Next, Animate

\* Nobody plays and nobody is listed at the start.
LEMMA CountInit == Init => CountInv
<1> SUFFICES ASSUME Init, NEW P \in SUBSET Conns PROVE Counts(P)
  BY DEF CountInv, At
<1>1. Entries(connected, P) = {} /\ Playing(P) = {}
  BY DEF Init, Entries, Playing
<1> QED
  BY <1>1 DEF Counts

\* The counts are equal for ever.
LEMMA CountsHold == Spec => [](TypeOK /\ CountInv)
<1>1. TypeOK /\ CountInv /\ [Next]_vars => (TypeOK /\ CountInv)'
  BY TypeStep, CountStep
<1> QED
  BY <1>1, TypeInit, CountInit, PTL DEF Spec

\* However joins and leaves interleave, as many players are listed from each
\* address as play from it, though a leaving one may take another's place.
THEOREM CountsAgree == Spec => []CountAgrees
BY CountsHold, CountsAre, PTL

-----------------------------------------------------------------------------
(* What frames keep                                                         *)

Of(kind) == {k \in DOMAIN entities : entities[k] = kind}

\* Entities of a kind are finitely many.
LEMMA OfFinite ==
    ASSUME TypeOK, NEW kind
    PROVE  IsFiniteSet(Of(kind)) /\ Cardinality(Of(kind)) \in Nat
<1>1. IsFiniteSet(Keys)
  <2>1. Width * Height - 1 \in Int
    BY ConstantsOK
  <2> QED
    BY <2>1, FS_Interval DEF Keys
<1>2. Of(kind) \in SUBSET Keys
  BY DEF TypeOK, Of
<1> QED
  BY <1>1, <1>2, FS_Subset, FS_CardinalityType

\* A move takes one dog away and puts one where nothing was.
LEMMA MoveKeeps ==
    ASSUME TypeOK, NEW k \in todo, entities[k] = "dog", NEW to \in Keys, Moves(k, to),
           NEW kind \in {"dog", "player"}
    PROVE  Number(kind)' = Number(kind)
<1>1. k \in DOMAIN entities /\ to \notin DOMAIN entities
  BY DEF TypeOK, Moves
<1>2. CASE kind = "dog"
  <2>1. Of(kind)' = (Of(kind) \ {k}) \cup {to}
    BY <1>1, <1>2 DEF Of, Moves
  <2>2. IsFiniteSet(Of(kind)) /\ Cardinality(Of(kind)) \in Nat /\ k \in Of(kind) /\ to \notin Of(kind) \ {k}
    BY <1>1, <1>2, OfFinite DEF Of
  <2>3. IsFiniteSet(Of(kind) \ {k}) /\ Cardinality(Of(kind) \ {k}) = Cardinality(Of(kind)) - 1
    BY <2>2, FS_RemoveElement
  <2>4. Cardinality((Of(kind) \ {k}) \cup {to}) = Cardinality(Of(kind) \ {k}) + 1
    BY <2>2, <2>3, FS_AddElement
  <2>5. Cardinality(Of(kind)') = Cardinality(Of(kind))
    BY <2>1, <2>2, <2>3, <2>4
  <2> QED
    BY <2>5 DEF Of, Number
<1>3. CASE kind = "player"
  <2>1. Of(kind)' = Of(kind)
    BY <1>1, <1>3 DEF Of, Moves
  <2> QED
    BY <2>1 DEF Of, Number
<1> QED
  BY <1>2, <1>3

\* No step of a frame makes an entity or removes one.
THEOREM FramesKeep == Spec => FrameKeeps
<1> DEFINE Kept == frame /\ exit' = "no" => \A kind \in {"dog", "player"} : Number(kind)' = Number(kind)
<1>1. ASSUME TypeOK, [Next]_vars PROVE [Kept]_vars
  <2> SUFFICES ASSUME Next, frame, exit' = "no", NEW kind \in {"dog", "player"}
               PROVE  Number(kind)' = Number(kind)
    BY <1>1
  <2>1. CASE UNCHANGED entities
    BY <2>1 DEF Number
  <2>2. ASSUME NEW k \in todo, Visit(k) PROVE Number(kind)' = Number(kind)
    <3>1. CASE Skip(k)
      BY <2>1, <3>1 DEF Skip, levelVars
    <3>2. ~ Full(k)
      BY DEF Full, Die
    <3> QED
      BY <1>1, <2>2, <3>1, <3>2, Turn, MoveKeeps
  <2>3. ASSUME NEW c \in Conns PROVE ~ Handle(c) /\ ~ Close(c) /\ ~ Reset(c)
    BY DEF Handle, Connect, Operation, Status, Name, Claim, Deny, Join, Close, Reset, Loop
  <2>4. ASSUME NEW c \in Conns, HangUp(c) \/ Chatter(c) PROVE UNCHANGED entities
    BY <2>4 DEF HangUp, Chatter, levelVars
  <2>5. CASE FrameEnd
    <3>1. ~ Die("overflow")
      BY DEF Die
    <3> QED
      BY <2>1, <2>5, <3>1 DEF FrameEnd
  <2>6. ~ FrameStart
    BY DEF FrameStart, Loop
  <2> QED
    BY <2>1, <2>2, <2>3, <2>4, <2>5, <2>6 DEF Next, Animate
<1> QED
  BY <1>1, TypeCorrect, PTL DEF Spec, FrameKeeps

-----------------------------------------------------------------------------
(* The events that wait, applied one after the other                        *)

OnEvent(e, m) == Apply(m, e)
Stream == INSTANCE Recursion WITH Step <- OnEvent

\* What events make of a copy is what the recursion over them leads to.
LEMMA AppliedResult ==
    ASSUME NEW m, NEW events
    PROVE  Applied(m, events) = Stream!Result(m, events, Len(events))
BY DEF Applied, Stream!Result, OnEvent

\* No events leave a copy as it is.
LEMMA AppliedNone == ASSUME NEW m PROVE Applied(m, <<>>) = m
<1>1. Len(<<>>) = 0
  OBVIOUS
<1> QED
  BY <1>1, AppliedResult, Stream!ResultNone

\* One more event is applied to what the others lead to.
LEMMA AppliedMore ==
    ASSUME NEW m, NEW E, NEW events \in Seq(E), NEW e \in E
    PROVE  Applied(m, Append(events, e)) = Apply(Applied(m, events), e)
<1> DEFINE n == Len(events)
           more == Append(events, e)
<1>1. n \in Nat /\ Len(more) = n + 1 /\ more[n + 1] = e
      /\ \A i \in 1..n : more[i] = events[i]
  OBVIOUS
<1>2. Applied(m, events) = Stream!Result(m, events, n)
  BY AppliedResult
<1> HIDE DEF n, more
<1>3. Applied(m, more) = Stream!Result(m, more, n + 1)
  BY <1>1, AppliedResult
<1>4. Stream!Result(m, more, n + 1) = OnEvent(more[n + 1], Stream!Result(m, events, n))
  BY <1>1, Stream!ResultMore
<1>5. Applied(m, more) = Apply(Applied(m, events), e)
  BY <1>1, <1>2, <1>3, <1>4 DEF OnEvent
<1> QED
  BY <1>5 DEF more

\* Events that change nothing lead nowhere.
LEMMA AppliedSame ==
    ASSUME NEW m, NEW events, Len(events) \in Nat,
           \A i \in 1..Len(events) : Apply(m, events[i]) = m
    PROVE  Applied(m, events) = m
<1>1. \A i \in 1..Len(events) : \A x \in {m} : OnEvent(events[i], x) \in {m}
  BY DEF OnEvent
<1>2. Stream!Result(m, events, Len(events)) \in {m}
  BY <1>1, Stream!ResultWithin
<1> QED
  BY <1>2, AppliedResult

-----------------------------------------------------------------------------
(* The level by coordinates                                                 *)

\* Vpts undoes Sptv, so that two keys have two places.
LEMMA KeyOfSptv ==
    ASSUME NEW k \in Keys
    PROVE  /\ Vpts(Sptv(k)[1], Sptv(k)[2]) = k
           /\ \A j \in Keys : Sptv(j) = Sptv(k) => j = k
<1>1. \A j \in Keys : Vpts(Sptv(j)[1], Sptv(j)[2]) = j
  BY KeyAgain
<1> QED
  BY <1>1

\* The level by coordinates has what the map has.
LEMMA LevelAt ==
    ASSUME NEW m, DOMAIN m \subseteq Keys
    PROVE  /\ DOMAIN Level(m) = {Sptv(k) : k \in DOMAIN m}
           /\ \A k \in DOMAIN m : Level(m)[Sptv(k)] = m[k]
<1>1. \A k \in DOMAIN m : Vpts(Sptv(k)[1], Sptv(k)[2]) = k
  BY KeyAgain
<1> QED
  BY <1>1 DEF Level

\* No level is the copy of a client that an exception has ended.
LEMMA NotLost ==
    ASSUME NEW m, DOMAIN m \subseteq Keys
    PROVE  Level(m) # Lost
<1>1. \A k \in DOMAIN m : Sptv(k)[1] >= 0
  BY PlaceOfKey
<1>2. \A p \in DOMAIN Level(m) : p[1] >= 0
  BY <1>1 DEF Level
<1>3. <<-1, -1>> \in DOMAIN Lost
  BY DEF Lost
<1>4. ~(<<-1, -1>>[1] >= 0)
  OBVIOUS
<1> QED
  BY <1>2, <1>3, <1>4

\* What a join event does to a mirror is what the join does to the map.
LEMMA JoinSeen ==
    ASSUME NEW m, DOMAIN m \subseteq Keys, NEW s \in Keys
    PROVE  Apply(Level(m), JoinEvent(Sptv(s))) = Level(MapSet(m, s, "player"))
<1> DEFINE n == MapSet(m, s, "player")
           a == Level(m)
           b == Level(n)
<1>1. DOMAIN n = DOMAIN m \cup {s} /\ n[s] = "player"
      /\ \A k \in DOMAIN m : k # s => n[k] = m[k]
  BY DEF MapSet
<1>2. DOMAIN n \subseteq Keys
  BY <1>1
<1> HIDE DEF n
<1>3. DOMAIN b = {Sptv(k) : k \in DOMAIN n} /\ \A k \in DOMAIN n : b[Sptv(k)] = n[k]
  BY <1>2, LevelAt
<1>4. DOMAIN a = {Sptv(k) : k \in DOMAIN m} /\ \A k \in DOMAIN m : a[Sptv(k)] = m[k]
  BY LevelAt
<1>5. b = [p \in DOMAIN b |-> b[p]] /\ a # Lost
  BY NotLost DEF Level
<1> HIDE DEF a, b
<1>6. DOMAIN b = DOMAIN a \cup {Sptv(s)}
  BY <1>1, <1>3, <1>4
<1>7. ASSUME NEW p \in DOMAIN b PROVE b[p] = IF p = Sptv(s) THEN "player" ELSE a[p]
  <2>1. PICK k \in DOMAIN n : p = Sptv(k)
    BY <1>3
  <2>2. p = Sptv(s) <=> k = s
    BY <1>2, <2>1, KeyOfSptv
  <2>3. b[p] = n[k]
    BY <1>3, <2>1
  <2> QED
    BY <1>1, <1>4, <2>1, <2>2, <2>3
<1>8. b = [p \in DOMAIN a \cup {Sptv(s)} |-> IF p = Sptv(s) THEN "player" ELSE a[p]]
  BY <1>5, <1>6, <1>7
<1>9. Apply(a, JoinEvent(Sptv(s))) = b
  BY <1>5, <1>8 DEF Apply, JoinEvent, MapSet
<1> QED
  BY <1>9 DEF a, b, n

\* And so is what a move event does.
LEMMA MoveSeen ==
    ASSUME NEW m, DOMAIN m \subseteq Keys, NEW k \in DOMAIN m, NEW to \in Keys,
           to \notin DOMAIN m
    PROVE  Apply(Level(m), MoveEvent(Sptv(k), Sptv(to)))
             = Level(MapSet(MapDelete(m, k), to, m[k]))
<1> DEFINE n == MapSet(MapDelete(m, k), to, m[k])
           a == Level(m)
           b == Level(n)
<1>1. DOMAIN n = (DOMAIN m \ {k}) \cup {to} /\ n[to] = m[k]
      /\ \A j \in DOMAIN m : j # to /\ j # k => n[j] = m[j]
  BY DEF MapSet, MapDelete
<1>2. DOMAIN n \subseteq Keys /\ k \in Keys
  BY <1>1
<1> HIDE DEF n
<1>3. DOMAIN b = {Sptv(j) : j \in DOMAIN n} /\ \A j \in DOMAIN n : b[Sptv(j)] = n[j]
  BY <1>2, LevelAt
<1>4. DOMAIN a = {Sptv(j) : j \in DOMAIN m} /\ \A j \in DOMAIN m : a[Sptv(j)] = m[j]
  BY LevelAt
<1>5. b = [p \in DOMAIN b |-> b[p]] /\ a # Lost
  BY NotLost DEF Level
<1> HIDE DEF a, b
<1>6. DOMAIN b = (DOMAIN a \ {Sptv(k)}) \cup {Sptv(to)}
  <2>1. \A j \in DOMAIN m : Sptv(j) = Sptv(k) => j = k
    BY <1>2, KeyOfSptv
  <2>2. DOMAIN a \ {Sptv(k)} = {Sptv(j) : j \in DOMAIN m \ {k}}
    BY <1>4, <2>1
  <2> QED
    BY <1>1, <1>3, <2>2
<1>7. Sptv(k) \in DOMAIN a /\ a[Sptv(k)] = m[k]
  BY <1>4
<1>8. ASSUME NEW p \in DOMAIN b PROVE b[p] = IF p = Sptv(to) THEN m[k] ELSE a[p]
  <2>1. PICK j \in DOMAIN n : p = Sptv(j)
    BY <1>3
  <2>2. p = Sptv(to) <=> j = to
    BY <1>2, <2>1, KeyOfSptv
  <2>3. b[p] = n[j]
    BY <1>3, <2>1
  <2> QED
    BY <1>1, <1>4, <2>1, <2>2, <2>3
<1>9. b = [p \in (DOMAIN a \ {Sptv(k)}) \cup {Sptv(to)} |-> IF p = Sptv(to) THEN m[k] ELSE a[p]]
  BY <1>5, <1>6, <1>8
<1>10. Sptv(to) # Sptv(k)
  BY <1>2, KeyOfSptv
<1>11. MapSet(MapDelete(a, Sptv(k)), Sptv(to), a[Sptv(k)])
         = [p \in (DOMAIN a \ {Sptv(k)}) \cup {Sptv(to)} |-> IF p = Sptv(to) THEN m[k] ELSE a[p]]
  BY <1>7 DEF MapSet, MapDelete
<1>12. Apply(a, MoveEvent(Sptv(k), Sptv(to))) = b
  BY <1>5, <1>7, <1>9, <1>11 DEF Apply, MoveEvent
<1> QED
  BY <1>12 DEF a, b, n

-----------------------------------------------------------------------------
(* The mirrors of the players                                               *)

Events == {JoinEvent(Sptv(k)) : k \in Keys} \cup {MoveEvent(Sptv(k), Sptv(j)) : k, j \in Keys}

\* Between frames nothing but joins waits in the buffer, all of them at the
\* place where players enter, which is taken: a player who joins now gets a
\* level that these events do not change.
Quiet ==
    ~frame => \A i \in 1..Len(buf) :
                 /\ buf[i] = JoinEvent(Sptv(SpawnKey))
                 /\ SpawnKey \in DOMAIN entities /\ entities[SpawnKey] = "player"

MirrorInv == buf \in Seq(Events) /\ DOMAIN mirror = Conns /\ Quiet /\ Mirror

\* Nobody is listed and nothing waits after the end of the process.
LEMMA DieMirror ==
    ASSUME NEW why, Die(why)
    PROVE  MirrorInv'
<1>1. buf' = <<>> /\ connected' = <<>> /\ DOMAIN mirror' = Conns
  BY DEF Die
<1> QED
  BY <1>1 DEF MirrorInv, Quiet, Mirror, Listed

\* Steps that leave the level, the buffer and what players know.
LEMMA SameMirror ==
    ASSUME MirrorInv, UNCHANGED <<connected, mirror, entities, buf>>,
           frame' = frame \/ frame',
           \A c \in Conns : stage'[c] = "playing" => stage[c] = "playing"
    PROVE  MirrorInv'
BY DEF MirrorInv, Quiet, Mirror, Listed

\* A handler that does not play changes no copy.
LEMMA GoMirror ==
    ASSUME TypeOK, MirrorInv, NEW c \in Conns, NEW s, s # "playing", Go(c, s) \/ Reply(c, s)
    PROVE  MirrorInv'
<1>1. CASE Go(c, s)
  <2>1. \A d \in Conns : stage'[d] = "playing" => stage[d] = "playing"
    BY <1>1 DEF Go, TypeOK
  <2> QED
    BY <1>1, <2>1, SameMirror DEF Go, levelVars, frameVars
<1> QED
  BY <1>1, DieMirror DEF Reply

\* A join where somebody is already changes nothing.
LEMMA JoinAgain ==
    ASSUME NEW m, DOMAIN m \subseteq Keys, NEW s \in DOMAIN m, m[s] = "player"
    PROVE  Level(MapSet(m, s, "player")) = Level(m)
<1> DEFINE n == MapSet(m, s, "player")
           D == {Sptv(k) : k \in DOMAIN m}
<1>1. DOMAIN n = DOMAIN m /\ \A k \in DOMAIN m : n[k] = m[k]
  BY DEF MapSet
<1> HIDE DEF n
<1>2. \A p \in D : n[Vpts(p[1], p[2])] = m[Vpts(p[1], p[2])]
  BY <1>1, KeyAgain
<1>3. Level(n) = [p \in D |-> n[Vpts(p[1], p[2])]] /\ Level(m) = [p \in D |-> m[Vpts(p[1], p[2])]]
  BY <1>1 DEF Level
<1> HIDE DEF D
<1> QED
  BY <1>2, <1>3 DEF n

\* A player that joins gets a level that the joins in the buffer do not change.
LEMMA EnterMirror ==
    ASSUME TypeOK, MirrorInv, NEW c \in Conns, ~frame, Enter(c)
    PROVE  MirrorInv'
<1> DEFINE J == JoinEvent(Sptv(SpawnKey))
           now == Level(entities)
<1>1. /\ buf' = Append(buf, J) /\ entities' = MapSet(entities, SpawnKey, "player")
      /\ connected' = Append(connected, c) /\ UNCHANGED frame
      /\ stage' = [stage EXCEPT ![c] = "playing"]
      /\ mirror' = [mirror EXCEPT ![c] = now]
  BY DEF Enter, Said, ResolveSpawning, frameVars
<1>2. buf \in Seq(Events) /\ J \in Events /\ SpawnKey \in Keys /\ DOMAIN mirror = Conns
  BY KeysOfLevel DEF MirrorInv, Events
<1>3. DOMAIN entities \subseteq Keys
  BY DEF TypeOK
<1>4. Apply(now, J) = Level(entities')
  BY <1>1, <1>2, <1>3, JoinSeen
<1>5. Applied(now, buf) = now
  <2>1. \A i \in 1..Len(buf) : buf[i] = J /\ SpawnKey \in DOMAIN entities /\ entities[SpawnKey] = "player"
    BY DEF MirrorInv, Quiet
  <2>2. \A i \in 1..Len(buf) : Apply(now, buf[i]) = now
    BY <1>1, <1>3, <1>4, <2>1, JoinAgain
  <2>3. Len(buf) \in Nat
    BY <1>2
  <2> QED
    BY <2>2, <2>3, AppliedSame
<1> HIDE DEF J, now
<1>6. ASSUME NEW m, Applied(m, buf) = now PROVE Applied(m, buf') = Level(entities')
  BY <1>1, <1>2, <1>4, <1>6, AppliedMore
<1>7. ASSUME NEW d \in Conns, Listed(d)', stage'[d] = "playing"
      PROVE  Applied(mirror'[d], buf') = Level(entities')
  <2>1. CASE d = c
    <3>1. mirror'[d] = now
      BY <1>1, <1>2, <2>1
    <3> QED
      BY <1>5, <1>6, <3>1
  <2>2. CASE d # c
    <3>1. mirror'[d] = mirror[d] /\ stage[d] = "playing"
      BY <1>1, <1>2, <1>7, <2>2
    <3>2. Listed(d)
      BY <1>1, <1>7, <2>2 DEF Listed, TypeOK
    <3>3. Applied(mirror[d], buf) = now
      BY <3>1, <3>2 DEF MirrorInv, Mirror, now
    <3> QED
      BY <1>6, <3>1, <3>3
  <2> QED
    BY <2>1, <2>2
<1>8. buf' \in Seq(Events) /\ DOMAIN mirror' = Conns
  BY <1>1, <1>2
<1>9. Quiet'
  <2>1. SpawnKey \in DOMAIN entities' /\ entities'[SpawnKey] = "player"
    BY <1>1 DEF MapSet
  <2>2. \A i \in 1..Len(buf) : buf[i] = J
    BY DEF MirrorInv, Quiet, J
  <2>3. \A i \in 1..Len(buf') : buf'[i] = J
    BY <1>1, <1>2, <2>2
  <2> QED
    BY <2>1, <2>3 DEF Quiet, J
<1> QED
  BY <1>7, <1>8, <1>9 DEF MirrorInv, Mirror

\* Closing a connection lists nobody.
LEMMA CloseUnlists ==
    ASSUME TypeOK, NEW c \in Conns, Close(c)
    PROVE  \A d \in Conns : Listed(d)' => Listed(d)
<1>1. CASE connected = <<>>
  BY <1>1 DEF Close, Listed
<1>2. CASE connected # <<>>
  <2> DEFINE i == Place(Address[c])
  <2>1. connected' = Splice(connected, i) /\ i \in 1..Len(connected)
        /\ connected \in Seq(Conns)
    BY <1>2, PlaceInList DEF Close, TypeOK
  <2> HIDE DEF i
  <2>2. DOMAIN connected' = 1..(Len(connected) - 1)
        /\ \A j \in DOMAIN connected' : connected'[j] = connected[j] \/ connected'[j] = connected[j + 1]
    BY <2>1 DEF Splice
  <2>3. \A j \in 1..(Len(connected) - 1) : j \in DOMAIN connected /\ j + 1 \in DOMAIN connected
    BY <2>1
  <2> QED
    BY <2>2, <2>3 DEF Listed
<1> QED
  BY <1>1, <1>2

\* Whoever leaves the list, the others keep their copies.
LEMMA CloseMirror ==
    ASSUME TypeOK, MirrorInv, NEW c \in Conns, Close(c)
    PROVE  MirrorInv'
<1>1. /\ stage' = [stage EXCEPT ![c] = "done"] /\ mirror' = [mirror EXCEPT ![c] = <<>>]
      /\ UNCHANGED <<entities, buf, frame>>
  BY DEF Close, levelVars, frameVars
<1>2. \A d \in Conns : Listed(d)' => Listed(d)
  BY CloseUnlists
<1>3. \A d \in Conns : stage'[d] = "playing" => d # c /\ stage[d] = "playing"
  BY <1>1 DEF TypeOK
<1>4. DOMAIN mirror' = Conns /\ \A d \in Conns : d # c => mirror'[d] = mirror[d]
  BY <1>1 DEF MirrorInv
<1> QED
  BY <1>1, <1>2, <1>3, <1>4 DEF MirrorInv, Quiet, Mirror

\* One turn of a frame: what it does to the map is what the event it writes
\* does to every mirror.
LEMMA VisitMirror ==
    ASSUME TypeOK, MirrorInv, NEW k \in todo, Visit(k)
    PROVE  MirrorInv'
<1>1. k \in DOMAIN entities /\ k \in Keys /\ DOMAIN entities \subseteq Keys /\ frame
  BY DEF TypeOK, Visit
<1>2. CASE Skip(k)
  BY <1>2, SameMirror DEF Skip, levelVars
<1>3. ASSUME NEW dx \in RandomStep, NEW dy \in RandomStep, MoveEntBy(k, dx, dy), ~Skip(k)
      PROVE  MirrorInv'
  <2> DEFINE p == Sptv(k)
             q == <<Clamp(p[1] + dx, Width), Clamp(p[2] + dy, Height)>>
             to == Vpts(q[1], q[2])
  <2>1. to \in Keys /\ Sptv(to) = q
    BY <1>1, Step
  <2>2. to \notin DOMAIN entities
    BY <1>3 DEF MoveEntBy, Occupied
  <2>3. \/ Die("overflow")
        \/ /\ entities' = MapSet(MapDelete(entities, k), to, entities[k])
           /\ buf' = Append(buf, MoveEvent(p, q))
           /\ UNCHANGED <<stage, connected, mirror, frame>>
    BY <1>3, <2>2 DEF MoveEntBy, Occupied
  <2> HIDE DEF p, q, to
  <2>4. CASE Die("overflow")
    BY <2>4, DieMirror
  <2>5. CASE ~Die("overflow")
    <3> DEFINE ev == MoveEvent(p, q)
    <3>1. entities' = MapSet(MapDelete(entities, k), to, entities[k]) /\ buf' = Append(buf, ev)
          /\ UNCHANGED <<stage, connected, mirror, frame>>
      BY <2>3, <2>5
    <3>2. buf \in Seq(Events) /\ ev \in Events
      BY <1>1, <2>1 DEF MirrorInv, Events, p
    <3>3. Apply(Level(entities), ev) = Level(entities')
      BY <1>1, <2>1, <2>2, <3>1, MoveSeen DEF p
    <3> HIDE DEF ev
    <3>4. \A m : Applied(m, buf) = Level(entities) => Applied(m, buf') = Level(entities')
      BY <3>1, <3>2, <3>3, AppliedMore
    <3>5. Mirror'
      BY <3>1, <3>4 DEF MirrorInv, Mirror, Listed
    <3>6. buf' \in Seq(Events) /\ frame'
      BY <1>1, <3>1, <3>2
    <3> QED
      BY <3>1, <3>5, <3>6 DEF MirrorInv, Quiet
  <2> QED
    BY <2>4, <2>5
<1> QED
  BY <1>2, <1>3 DEF Visit

\* Who is sent the buffer has the level.
LEMMA FrameEndMirror ==
    ASSUME TypeOK, MirrorInv, FrameEnd
    PROVE  MirrorInv'
<1>1. CASE Die("overflow")
  BY <1>1, DieMirror
<1>2. CASE ~Die("overflow")
  <2>1. /\ buf' = <<>> /\ UNCHANGED <<stage, connected, entities>>
        /\ mirror' = [c \in Conns |-> IF Listed(c) THEN Applied(mirror[c], buf) ELSE mirror[c]]
    BY <1>2 DEF FrameEnd
  <2>2. \A c \in Conns : Listed(c)' <=> Listed(c)
    BY <2>1 DEF Listed
  <2>3. ASSUME NEW c \in Conns, Listed(c)', stage'[c] = "playing"
        PROVE  Applied(mirror'[c], buf') = Level(entities')
    <3>1. mirror'[c] = Applied(mirror[c], buf)
      BY <2>1, <2>2, <2>3
    <3>2. Applied(mirror[c], buf) = Level(entities)
      BY <2>1, <2>2, <2>3 DEF MirrorInv, Mirror
    <3> QED
      BY <2>1, <3>1, <3>2, AppliedNone
  <2>4. DOMAIN mirror' = Conns
    BY <2>1
  <2>5. buf' \in Seq(Events) /\ Quiet'
    BY <2>1 DEF Quiet
  <2> QED
    BY <2>3, <2>4, <2>5 DEF MirrorInv, Mirror
<1> QED
  BY <1>1, <1>2

\* Every step keeps the copies true.
LEMMA MirrorStep == TypeOK /\ MirrorInv /\ [Next]_vars => MirrorInv'
<1> SUFFICES ASSUME TypeOK, MirrorInv, [Next]_vars PROVE MirrorInv'
  OBVIOUS
<1>1. ASSUME NEW c \in Conns, Handle(c) PROVE MirrorInv'
  <2>1. CASE Join(c)
    BY <2>1, DieMirror, EnterMirror DEF Join, Loop
  <2> QED
    BY <1>1, <2>1, GoMirror DEF Handle, Connect, Operation, Status, Name, Claim, Deny
<1>2. ASSUME NEW c \in Conns, Close(c) PROVE MirrorInv'
  BY <1>2, CloseMirror
<1>3. ASSUME NEW c \in Conns, Reset(c) PROVE MirrorInv'
  BY <1>3, DieMirror DEF Reset
<1>4. ASSUME NEW k \in todo, Visit(k) PROVE MirrorInv'
  BY <1>4, VisitMirror
<1>5. CASE FrameEnd
  BY <1>5, FrameEndMirror
<1>6. CASE FrameStart \/ UNCHANGED vars \/ \E c \in Conns : HangUp(c) \/ Chatter(c)
  BY <1>6, SameMirror DEF FrameStart, HangUp, Chatter, vars, levelVars, frameVars
<1> QED
  BY <1>1, <1>2, <1>3, <1>4, <1>5, <1>6 DEF Next, Animate

\* Whatever joins, leaves and frames come together, a listed player that applies
\* what waits in the shared buffer to what it knows has the level.
THEOREM MirrorsAgree == Spec => []Mirror
<1>1. Init => MirrorInv
  BY DEF Init, MirrorInv, Quiet, Mirror, Listed
<1>2. MirrorInv => Mirror
  BY DEF MirrorInv
<1> QED
  BY <1>1, <1>2, MirrorStep, TypeInit, TypeStep, PTL DEF Spec

-----------------------------------------------------------------------------
(* The refinement of Broadcast                                              *)

\* No listener's copy changes and nobody becomes one: that is a change of the level.
LEMMA HostChanges ==
    ASSUME Listeners' \subseteq Listeners, \A c \in Listeners' : mirror'[c] = mirror[c]
    PROVE  Host!Change
<1> DEFINE old == [c \in Listeners |-> mirror[c]]
           new == [c \in Listeners' |-> mirror'[c]]
<1>1. new = [c \in Listeners' |-> old[c]] /\ Listeners' \in SUBSET DOMAIN old
  OBVIOUS
<1> HIDE DEF old, new
<1>2. \E stay \in SUBSET DOMAIN old : new = [c \in stay |-> old[c]]
  BY <1>1
<1> QED
  BY <1>2 DEF Host!Change, old, new

\* Nobody listens after the end of the process.
LEMMA DieBroadcast == ASSUME NEW why, Die(why) PROVE Host!Next
<1>1. Listeners' = {}
  BY DEF Die, Listeners, Listed
<1> QED
  BY <1>1, HostChanges DEF Host!Next

\* Handlers that leave the list, the copies and who plays.
LEMMA SameBroadcast ==
    ASSUME UNCHANGED <<connected, mirror>>, \A c \in Conns : stage'[c] = "playing" => stage[c] = "playing"
    PROVE  Host!Next
<1>1. Listeners' \subseteq Listeners
  BY DEF Listeners, Listed
<1> QED
  BY <1>1, HostChanges DEF Host!Next

\* A handler of a connection that does not play.
LEMMA GoBroadcast ==
    ASSUME TypeOK, NEW c \in Conns, NEW s, s # "playing", Go(c, s) \/ Reply(c, s)
    PROVE  Host!Next
<1>1. CASE Go(c, s)
  <2>1. UNCHANGED <<connected, mirror>> /\ \A d \in Conns : stage'[d] = "playing" => stage[d] = "playing"
    BY <1>1 DEF Go, TypeOK
  <2> QED
    BY <2>1, SameBroadcast
<1> QED
  BY <1>1, DieBroadcast DEF Reply

\* Who enters is given the level it enters.
LEMMA EnterBroadcast ==
    ASSUME TypeOK, MirrorInv, NEW c \in Conns, stage[c] # "playing", Enter(c)
    PROVE  Host!Next
<1> DEFINE old == [d \in Listeners |-> mirror[d]]
           new == [d \in Listeners' |-> mirror'[d]]
           now == Level(entities)
           then == Level(entities')
<1>1. /\ connected' = Append(connected, c) /\ stage' = [stage EXCEPT ![c] = "playing"]
      /\ mirror' = [mirror EXCEPT ![c] = now]
  BY DEF Enter
<1>2. connected \in Seq(Conns) /\ DOMAIN stage = Conns /\ DOMAIN mirror = Conns
  BY DEF TypeOK, MirrorInv
<1>3. DOMAIN connected' = 1..(Len(connected) + 1) /\ connected'[Len(connected) + 1] = c
      /\ DOMAIN connected = 1..Len(connected) /\ Len(connected) \in Nat
      /\ \A i \in DOMAIN connected : connected'[i] = connected[i]
  BY <1>1, <1>2
<1>4. \A d \in Conns : Listed(d)' <=> Listed(d) \/ d = c
  BY <1>3 DEF Listed
<1>5. \A d \in Conns : stage'[d] = "playing" <=> stage[d] = "playing" \/ d = c
  BY <1>1, <1>2
<1>6. Listeners' = Listeners \cup {c} /\ c \notin Listeners
  BY <1>4, <1>5 DEF Listeners
<1>7. DOMAIN old = Listeners /\ Listeners \subseteq Conns
  BY DEF Listeners
<1> HIDE DEF now, then
<1>8. new = [d \in DOMAIN old \cup {c} |-> IF d = c THEN now ELSE old[d]]
  BY <1>1, <1>2, <1>6, <1>7
<1> HIDE DEF old, new
<1>9. c \notin DOMAIN old /\ \E given \in {now, then} :
        new = [d \in DOMAIN old \cup {c} |-> IF d = c THEN given ELSE old[d]]
  BY <1>6, <1>7, <1>8
<1>10. Host!Come(c)
  BY <1>9 DEF Host!Come, old, new, now, then
<1> QED
  BY <1>10 DEF Host!Next

\* Whoever is taken off the list, the others keep their copies.
LEMMA CloseBroadcast ==
    ASSUME TypeOK, NEW c \in Conns, Close(c)
    PROVE  Host!Next
<1>1. stage' = [stage EXCEPT ![c] = "done"] /\ mirror' = [mirror EXCEPT ![c] = <<>>]
  BY DEF Close
<1>2. \A d \in Conns : Listed(d)' => Listed(d)
  BY CloseUnlists
<1>3. \A d \in Conns : stage'[d] = "playing" => d # c /\ stage[d] = "playing"
  BY <1>1 DEF TypeOK
<1>4. Listeners' \subseteq Listeners /\ \A d \in Listeners' : mirror'[d] = mirror[d]
  BY <1>1, <1>2, <1>3 DEF Listeners
<1> QED
  BY <1>4, HostChanges DEF Host!Next

\* The end of a frame makes every copy the level.
LEMMA FrameEndBroadcast ==
    ASSUME TypeOK, MirrorInv, FrameEnd
    PROVE  Host!Next
<1>1. CASE Die("overflow")
  BY <1>1, DieBroadcast
<1>2. CASE ~Die("overflow")
  <2> DEFINE old == [d \in Listeners |-> mirror[d]]
             new == [d \in Listeners' |-> mirror'[d]]
             now == Level(entities)
  <2>1. /\ UNCHANGED <<stage, connected, entities>>
        /\ mirror' = [c \in Conns |-> IF Listed(c) THEN Applied(mirror[c], buf) ELSE mirror[c]]
    BY <1>2 DEF FrameEnd
  <2>2. Listeners' = Listeners
    BY <2>1 DEF Listeners, Listed
  <2>3. \A d \in Listeners : mirror'[d] = now
    BY <2>1 DEF Listeners, MirrorInv, Mirror
  <2>4. Level(entities') = now
    BY <2>1
  <2> HIDE DEF now
  <2>5. new = [d \in DOMAIN old |-> now]
    BY <2>2, <2>3
  <2> HIDE DEF old, new
  <2>6. Host!Publish
    BY <2>4, <2>5 DEF Host!Publish, old, new, now
  <2> QED
    BY <2>6 DEF Host!Next
<1> QED
  BY <1>1, <1>2

\* A handler or a turn of a frame, as the listed players see it.
LEMMA BroadcastStep == TypeOK /\ MirrorInv /\ [Next]_vars => [Host!Next]_(Host!vars)
<1> SUFFICES ASSUME TypeOK, MirrorInv, [Next]_vars PROVE Host!Next
  OBVIOUS
<1>1. ASSUME NEW c \in Conns, Handle(c) PROVE Host!Next
  <2>1. CASE Join(c)
    BY <2>1, DieBroadcast, EnterBroadcast DEF Join
  <2> QED
    BY <1>1, <2>1, GoBroadcast DEF Handle, Connect, Operation, Status, Name, Claim, Deny
<1>2. ASSUME NEW c \in Conns, Close(c) PROVE Host!Next
  BY <1>2, CloseBroadcast
<1>3. ASSUME NEW c \in Conns, Reset(c) PROVE Host!Next
  BY <1>3, DieBroadcast DEF Reset
<1>4. ASSUME NEW k \in todo, Visit(k) PROVE Host!Next
  <2>1. Die("overflow") \/ UNCHANGED <<connected, mirror, stage>>
    BY <1>4 DEF Visit, MoveEntBy, Skip
  <2> QED
    BY <2>1, DieBroadcast, SameBroadcast
<1>5. CASE FrameEnd
  BY <1>5, FrameEndBroadcast
<1>6. CASE FrameStart \/ UNCHANGED vars \/ \E c \in Conns : HangUp(c) \/ Chatter(c)
  BY <1>6, SameBroadcast DEF FrameStart, HangUp, Chatter, vars
<1> QED
  BY <1>1, <1>2, <1>3, <1>4, <1>5, <1>6 DEF Next, Animate

\* To the players that are listed the host is a Broadcast: their copies change at
\* the end of a frame only, and all of them become the level, in whatever order
\* players join, leave and take each other's place in the list.
THEOREM HostBroadcasts == Spec => BroadcastSpec
<1>1. Init => MirrorInv /\ Host!Init
  BY DEF Init, MirrorInv, Quiet, Mirror, Listed, Host!Init, Listeners
<1> QED
  BY <1>1, MirrorStep, BroadcastStep, TypeInit, TypeStep, PTL DEF Spec, BroadcastSpec, Host!Spec
=============================================================================

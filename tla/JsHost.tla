------------------------------- MODULE JsHost -------------------------------
(***************************************************************************)
(* The JavaScript game host (host-server.js): connections from their       *)
(* operation byte to the end, the list of players that frames are sent to, *)
(* the map of entities, the buffer that joins and frames share, and what   *)
(* players make of the stream.  One event loop runs it all: an action is a *)
(* handler from one await to the next, and of a frame one turn of forEach, *)
(* between which nothing else runs.                                        *)
(***************************************************************************)
EXTENDS Integers, Sequences, FiniteSets

CONSTANTS
    Conns,            \* connections
    Address,          \* the address each of them comes from
    Width, Height,    \* of the level
    SpawnX, SpawnY,   \* where players enter
    BufSize,          \* bytes in animationBuffer, 4096 in the code
    SnapSize,         \* bytes for the level a player gets first, 1024 in the code
    Chatty,           \* bound: connections that may send bytes nobody reads
    Askers            \* bound: connections that may ask for the status

ASSUME ConstantsOK ==
    /\ Width \in Nat /\ Width >= 3 /\ Height \in Nat /\ Height >= 4
    /\ SpawnX \in 0..(Width - 1) /\ SpawnY \in 0..(Height - 1)
    /\ BufSize \in Nat /\ SnapSize \in Nat
    /\ IsFiniteSet(Conns) /\ Chatty \subseteq Conns /\ Askers \subseteq Conns /\ DOMAIN Address = Conns

VARIABLES
    exit,        \* "no" while the process runs, else why it ended
    stage,       \* where the handler of each connection is
    gone,        \* the peer has ended its side
    unread,      \* the peer has sent more than the host reads
    connected,   \* the players that get frames
    entities,    \* the Map from positions to what is there
    buf, off,    \* events in animationBuffer, and bufOff
    frame, todo, \* animateFrame is running; what its forEach has yet to visit
    mirror,      \* the level as each player knows it
    joined       \* history: joins since the last frame

vars == <<exit, stage, gone, unread, connected, entities, buf, off, frame, todo,
          mirror, joined>>
peerVars == <<gone, unread>>
levelVars == <<entities, buf, off, joined>>
frameVars == <<frame, todo>>

-----------------------------------------------------------------------------
(* Positions and the map                                                    *)

Vpts(x, y) == y * Width + x
Sptv(s) == <<s % Width, s \div Width>>

Keys == 0..(Width * Height - 1)
SpawnKey == Vpts(SpawnX, SpawnY)
DogKey == 3 * Width + 2

MapSet(m, k, e) == [j \in DOMAIN m \cup {k} |-> IF j = k THEN e ELSE m[j]]
MapDelete(m, k) == [j \in DOMAIN m \ {k} |-> m[j]]

\* A coordinate brought back on a side of the given length (the mutant lets it
\* go below).
OnlyAbove(z, side) == IF z >= side THEN side - 1 ELSE z
Clamp(z, side) == IF z < 0 THEN 0 ELSE OnlyAbove(z, side)

\* What randomInt(-1, 2) can give: the difference it multiplies by is negative,
\* so it counts downwards, and a dog only ever moves up and to the left.
RandomStep == -4..(-1)

JoinSize == 39
MoveSize == 17
EntitySize(kind) == IF kind = "player" THEN 38 ELSE 25

SnapshotSize ==
    LET Players == {k \in DOMAIN entities : entities[k] = "player"} IN
    36 + Width * Height + EntitySize("player") * Cardinality(Players)
       + EntitySize("dog") * Cardinality(DOMAIN entities \ Players)

JoinEvent(at) == [op |-> "join", from |-> at, to |-> at]
MoveEvent(from, to) == [op |-> "move", from |-> from, to |-> to]

\* The level by coordinates, as it is sent and as players keep it.
Level(m) == [p \in {Sptv(k) : k \in DOMAIN m} |-> m[Vpts(p[1], p[2])]]

\* A client looks up what moves at the place it moves from: when nothing is
\* there, the exception ends the client.
Lost == [p \in {<<-1, -1>>} |-> "lost"]

Apply(m, e) ==
    IF m = Lost THEN Lost
    ELSE IF e.op = "join" THEN MapSet(m, e.to, "player")
    ELSE IF e.from \in DOMAIN m THEN MapSet(MapDelete(m, e.from), e.to, m[e.from])
    ELSE Lost

Applied(m, events) ==
    LET after[i \in 0..Len(events)] == IF i = 0 THEN m ELSE Apply(after[i - 1], events[i])
    IN  after[Len(events)]

-----------------------------------------------------------------------------
Init ==
    /\ exit = "no"
    /\ stage = [c \in Conns |-> "away"]
    /\ gone = [c \in Conns |-> FALSE] /\ unread = [c \in Conns |-> FALSE]
    /\ connected = <<>>
    /\ entities = [k \in {DogKey} |-> "dog"]
    /\ buf = <<>> /\ off = 0
    /\ frame = FALSE /\ todo = {}
    /\ mirror = [c \in Conns |-> <<>>]
    /\ joined = 0

\* The loop is free to run a handler.
Loop == exit = "no" /\ ~frame

\* "end" is emitted, and reads give their default, when all has been read.
Ended(c) == gone[c] /\ ~unread[c]

\* An exception nobody catches ends the process, its memory and connections.
Die(why) ==
    /\ exit' = why
    /\ stage' = [c \in Conns |-> "done"] /\ mirror' = [c \in Conns |-> <<>>]
    /\ gone' = [c \in Conns |-> FALSE] /\ unread' = [c \in Conns |-> FALSE]
    /\ connected' = <<>> /\ entities' = <<>> /\ buf' = <<>> /\ off' = 0
    /\ frame' = FALSE /\ todo' = {}
    /\ UNCHANGED joined

Go(c, to) ==
    /\ stage' = [stage EXCEPT ![c] = to]
    /\ UNCHANGED <<exit, connected, mirror>> /\ UNCHANGED peerVars
    /\ UNCHANGED levelVars /\ UNCHANGED frameVars

\* What a handler does when it has read: it goes on, or, if the stream ended
\* with these bytes, throws in the write that follows.
Reply(c, then) == IF Ended(c) THEN Die("error") ELSE Go(c, then)

-----------------------------------------------------------------------------
(* Handlers of connections                                                  *)

Connect(c) == Loop /\ stage[c] = "away" /\ Go(c, "op")

\* 0x63 is a join and 0x64 a status request; 0x01 is the management loop, and
\* all else is ignored.
Operation(c) ==
    /\ Loop /\ stage[c] = "op"
    /\ \/ Go(c, "done")
       \/ ~Ended(c) /\ Go(c, "name")
       \/ ~Ended(c) /\ c \in Askers /\ Go(c, "status")

\* An unknown request is not answered.
Status(c) ==
    /\ Loop /\ stage[c] = "status"
    /\ Reply(c, "done") \/ Go(c, "done")

Name(c) == Loop /\ stage[c] = "name" /\ Reply(c, "claim")

\* The hash is right or not.
Claim(c) ==
    /\ Loop /\ stage[c] = "claim"
    /\ \E s \in {"version", "done"} : Reply(c, s)

\* checkPlayerDeny: a plugin denies the player, or the version is another.
Deny(c) == Loop /\ stage[c] = "version" /\ Reply(c, "done")

\* resolveSpawning never refuses: it compares a type with undefined.
ResolveSpawning == SpawnKey

\* What a join puts into the buffer (the mutant: nothing, the player knows).
Unsaid == buf
Said == Append(buf, JoinEvent(Sptv(ResolveSpawning)))

Enter(c) ==
    /\ stage' = [stage EXCEPT ![c] = "playing"]
    /\ mirror' = [mirror EXCEPT ![c] = Level(entities)]
    /\ connected' = Append(connected, c)
    /\ buf' = Said /\ off' = off + JoinSize
    /\ entities' = MapSet(entities, ResolveSpawning, "player")
    /\ joined' = joined + 1
    /\ UNCHANGED exit /\ UNCHANGED peerVars /\ UNCHANGED frameVars

Join(c) ==
    /\ Loop /\ stage[c] = "version"
    /\ IF Ended(c) THEN Die("error")
       ELSE IF SnapshotSize > SnapSize THEN Die("snapshot")
       ELSE IF off + JoinSize > BufSize THEN Die("overflow")
       ELSE Enter(c)

\* findIndex: the first listed player with the address; splice(-1, 1) takes the
\* last.  (The mutant takes whoever is first.)
Eldest(a) == 1
Place(a) ==
    LET same == {i \in DOMAIN connected : Address[connected[i]] = a} IN
    IF same = {} THEN Len(connected) ELSE CHOOSE i \in same : \A j \in same : i <= j

\* The list without its i-th entry.
Splice(s, i) == [j \in 1..(Len(s) - 1) |-> IF j < i THEN s[j] ELSE s[j + 1]]

\* A player's stream has ended: end() emits cClose.
Close(c) ==
    /\ Loop /\ stage[c] = "playing" /\ Ended(c)
    /\ stage' = [stage EXCEPT ![c] = "done"]
    /\ connected' = IF connected = <<>> THEN <<>> ELSE Splice(connected, Place(Address[c]))
    /\ mirror' = [mirror EXCEPT ![c] = <<>>]
    /\ UNCHANGED exit /\ UNCHANGED peerVars /\ UNCHANGED levelVars /\ UNCHANGED frameVars

-----------------------------------------------------------------------------
(* Frames                                                                   *)

FrameStart ==
    /\ Loop /\ frame' = TRUE /\ todo' = DOMAIN entities
    /\ UNCHANGED <<exit, stage, connected, mirror>> /\ UNCHANGED peerVars
    /\ UNCHANGED levelVars

Skip(k) ==
    /\ todo' = todo \ {k}
    /\ UNCHANGED <<exit, stage, connected, mirror, frame>> /\ UNCHANGED peerVars
    /\ UNCHANGED levelVars

\* Somebody is there, the mover itself included (the mutants look for nobody,
\* and for somebody else).
Nobody(k, to) == FALSE
Another(k, to) == to \in DOMAIN entities \ {k}
Occupied(k, to) == to \in DOMAIN entities

\* An entity set under a new key is visited again.
MoveEntBy(k, dx, dy) ==
    LET p == Sptv(k)
        q == <<Clamp(p[1] + dx, Width), Clamp(p[2] + dy, Height)>>
        to == Vpts(q[1], q[2])
    IN  IF Occupied(k, to) THEN Skip(k)
        ELSE IF off + MoveSize > BufSize THEN Die("overflow")
        ELSE /\ entities' = MapSet(MapDelete(entities, k), to, entities[k])
             /\ buf' = Append(buf, MoveEvent(p, q)) /\ off' = off + MoveSize
             /\ todo' = (todo \ {k}) \cup {to}
             /\ UNCHANGED <<exit, stage, connected, mirror, frame, joined>>
             /\ UNCHANGED peerVars

\* forEach in any order: only a dog's turn does anything.
Visit(k) ==
    /\ exit = "no" /\ frame /\ k \in todo
    /\ \/ entities[k] # "dog" /\ Skip(k)
       \/ entities[k] = "dog" /\ \E dx, dy \in RandomStep : MoveEntBy(k, dx, dy)

Listed(c) == \E i \in DOMAIN connected : connected[i] = c

\* Where the next join writes (the mutant: after what has been sent).
Behind == off
Front == 0

FrameEnd ==
    /\ exit = "no" /\ frame /\ todo = {}
    /\ IF off + 1 > BufSize THEN Die("overflow")
       ELSE /\ frame' = FALSE /\ buf' = <<>> /\ off' = Front /\ joined' = 0
            /\ mirror' = [c \in Conns |-> IF Listed(c) THEN Applied(mirror[c], buf)
                                                       ELSE mirror[c]]
            /\ UNCHANGED <<exit, stage, connected, entities, todo>> /\ UNCHANGED peerVars

-----------------------------------------------------------------------------
(* Peers                                                                    *)

HangUp(c) ==
    /\ exit = "no" /\ stage[c] \notin {"away", "done"} /\ ~gone[c]
    /\ gone' = [gone EXCEPT ![c] = TRUE]
    /\ UNCHANGED <<exit, stage, unread, connected, mirror>>
    /\ UNCHANGED levelVars /\ UNCHANGED frameVars

\* Movement, digging: the host never reads after the version.
Chatter(c) ==
    /\ exit = "no" /\ c \in Chatty /\ stage[c] \in {"version", "playing"}
    /\ ~gone[c] /\ ~unread[c]
    /\ unread' = [unread EXCEPT ![c] = TRUE]
    /\ UNCHANGED <<exit, stage, gone, connected, mirror>>
    /\ UNCHANGED levelVars /\ UNCHANGED frameVars

\* Nobody listens to the errors of a connection.
Reset(c) == Loop /\ stage[c] # "away" /\ Die("error")

-----------------------------------------------------------------------------
Handle(c) ==
    \/ Connect(c) \/ Operation(c) \/ Status(c) \/ Name(c) \/ Claim(c)
    \/ Deny(c) \/ Join(c)

Animate == FrameStart \/ (\E k \in todo : Visit(k)) \/ FrameEnd

Next ==
    \/ \E c \in Conns : Handle(c) \/ Close(c) \/ HangUp(c) \/ Chatter(c) \/ Reset(c)
    \/ Animate

Spec == Init /\ [][Next]_vars

\* The interval timer comes round whatever the connections do, and so does
\* the end of a stream.
FairSpec == Spec /\ WF_vars(Animate) /\ \A c \in Conns : WF_vars(Close(c))

-----------------------------------------------------------------------------
Stages == {"away", "op", "status", "name", "claim", "version", "playing", "done"}

\* The map stays on the board, whatever the dog does.
TypeOK ==
    /\ exit \in {"no", "error", "snapshot", "overflow"}
    /\ stage \in [Conns -> Stages]
    /\ gone \in [Conns -> BOOLEAN] /\ unread \in [Conns -> BOOLEAN]
    /\ connected \in Seq(Conns)
    /\ DOMAIN entities \subseteq Keys
    /\ \A k \in DOMAIN entities : entities[k] \in {"dog", "player"}
    /\ off \in 0..BufSize /\ joined \in Nat
    /\ frame \in BOOLEAN /\ todo \subseteq DOMAIN entities

At(a) == {c \in Conns : Address[c] = a}

\* The players listed from an address are as many as play from it: the count
\* that a status request is answered with is right.
CountAgrees ==
    \A c \in Conns :
        Cardinality({i \in DOMAIN connected : connected[i] \in At(Address[c])})
          = Cardinality({d \in At(Address[c]) : stage[d] = "playing"})

\* What a listed player knows of the level, and will know when it has got what
\* waits in the buffer, is the level, wherever it stands among joins and frames.
Mirror ==
    LET now == Level(entities) IN
    \A c \in Conns : Listed(c) /\ stage[c] = "playing" => Applied(mirror[c], buf) = now

\* To the players that are listed the host is a Broadcast: their copies change at
\* the end of a frame only, and all of them become the level, whoever joined or
\* left, in whatever place of the list, in between.
Listeners == {c \in Conns : Listed(c) /\ stage[c] = "playing"}

Host == INSTANCE Broadcast WITH
    Clients <- Conns, level <- Level(entities), copies <- [c \in Listeners |-> mirror[c]]

BroadcastSpec == Host!Spec

\* So many joins in one interval that a frame may not fit any more.
Crowded == JoinSize * joined + MoveSize * (Width + Height - 2) + 1 > BufSize

\* A frame that visits again what it has moved ends before the buffer does: it
\* takes a crowd of joins to overflow it.
FrameFits == exit = "overflow" => Crowded

Number(kind) == Cardinality({k \in DOMAIN entities : entities[k] = kind})

\* A frame makes no entity and removes none.
FrameKeeps == [][frame /\ exit' = "no" => \A kind \in {"dog", "player"} : Number(kind)' = Number(kind)]_vars

Ruined == exit = "error" \/ (exit = "overflow" /\ Crowded)

\* There is always another frame, and it ends, until the process does.
FramesGoOn == []<>(frame \/ Ruined) /\ []<>(~frame \/ Ruined)

\* game.txt: the frames continue through the remainder of the connection.  (They
\* do not: a player who leaves takes the place of the first with its address.)
EveryoneListed == \A c \in Conns : stage[c] = "playing" => Listed(c)
=============================================================================

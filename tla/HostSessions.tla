---------------------------- MODULE HostSessions ----------------------------
(***************************************************************************)
(* The Java game host: the accept thread (Server.main), one thread per     *)
(* connected player (ConnectedPlayer.run/serve/kick), the animation timer  *)
(* and the management thread that stops the host (Server.stop), over the   *)
(* level they share (Level.ent, Level.entities) and its three kinds of     *)
(* lock: Server.Locker, the monitor of Server.players and the monitor of   *)
(* each entity.                                                            *)
(*                                                                         *)
(* Every connection logs in at most once and a successful login creates    *)
(* exactly one EntityPlayer, so the connection c also names the entity     *)
(* object that the thread of c puts into Level.ent.                        *)
(***************************************************************************)
EXTENDS Naturals

CONSTANTS
    Conns,        \* the player connections (op byte 0x63), and their entities
    NumSlots,     \* Level.ent.length
    Places,       \* the tiles of the level
    Spawn,        \* the spawn tile
    NoEntity,     \* null in Level.ent, and "no monitor", "no lock holder"
    Placeholder,  \* a Placeholder in Level.ent: a slot reserved by a login
    NoSlot,       \* no key in Level.entities; EID of a login not yet accepted
    Timer,        \* the animation timer as a lock holder
    Stopper,      \* the management thread as a lock holder
    Hole,         \* the null a racing ArrayList.add leaves in Server.players
    MayHangUp,    \* bound: the connections whose peer may go away
    MayStop       \* bound: whether a management client may stop the host

Slots == 0..(NumSlots - 1)

ASSUME ConstantsOK ==
    /\ NumSlots \in Nat \ {0}
    /\ Spawn \in Places
    /\ NoSlot \notin Slots
    /\ {NoEntity, Placeholder, Timer, Stopper, Hole} \cap Conns = {}
    /\ MayHangUp \subseteq Conns /\ MayStop \in BOOLEAN
    /\ NoEntity # Placeholder
    /\ Timer # NoEntity /\ Stopper # NoEntity /\ Timer # Stopper

VARIABLES
    ent,         \* Level.ent: what each slot holds
    entPlace,    \* Level.entPlace: where the next search for a slot starts
    entities,    \* Level.entities: the slot indexed at each tile
    at,          \* Entity.x, Entity.y
    data,        \* Entity.data: dead = its sign bit, go = its movement bits
    Locker,      \* holder of Server.Locker
    monitor,     \* holder of the monitor of Server.players
    players,     \* Server.players
    raced,       \* commits another thread made inside this thread's list update
    pc,          \* where the thread of each connection is
    EID,         \* ConnectedPlayer.EID
    alive,       \* ConnectedPlayer.alive
    socket,      \* "up", "eof" (the peer closed its side) or "reset"
    reg,         \* the pending read-modify-write of data by each input loop
    frame,       \* where the animation timer is
    todo,        \* slots the current frame still has to animate
    anim,        \* the pending data &= ~0x43f of the animation timer
    unsent,      \* listed sessions the current frame still has to be written to
    acceptor,    \* the connection whose op byte the accept thread waits for;
                 \* NoEntity: in accept(); Stopper: its loop saw running false
    stopper,     \* where the management thread is in Server.stop
    save,        \* TWLevelDat: "old", "cut" (truncated) or "whole"
    host         \* "up", or the status given to System.exit

levelVars == <<ent, entPlace, entities, at, data>>
lockVars  == <<Locker, monitor, players, raced>>
connVars  == <<pc, EID, alive, reg>>
timerVars == <<frame, todo, anim, unsent>>
hostVars  == <<acceptor, stopper, save, host>>
vars == <<levelVars, lockVars, connVars, socket, timerVars, hostVars>>

-----------------------------------------------------------------------------
Data == [dead : BOOLEAN, go : BOOLEAN]
NoData == [dead |-> FALSE, go |-> FALSE]

\* mon: the object whose monitor the thread holds, obj: the object it is about
\* to lock, then the one it loaded from and will store to, val: the value
\* loaded, end: the byte read is -1, a movement, and not any command
NoReg  == [mon |-> NoEntity, obj |-> NoEntity, val |-> NoData, end |-> FALSE]
NoAnim == [obj |-> NoEntity, val |-> NoData]

Init ==
    /\ ent = [s \in Slots |-> NoEntity] /\ entPlace = 0
    /\ entities = [p \in Places |-> NoSlot]
    /\ at = [c \in Conns |-> Spawn] /\ data = [c \in Conns |-> NoData]
    /\ Locker = NoEntity /\ monitor = NoEntity
    /\ players = {} /\ raced = [c \in Conns |-> {}]
    /\ pc = [c \in Conns |-> "away"] /\ EID = [c \in Conns |-> NoSlot]
    /\ alive = [c \in Conns |-> TRUE] /\ socket = [c \in Conns |-> "up"]
    /\ reg = [c \in Conns |-> NoReg]
    /\ frame = "idle" /\ todo = {} /\ anim = NoAnim /\ unsent = {}
    /\ acceptor = NoEntity /\ stopper = "off" /\ save = "old" /\ host = "up"

\* The thread of c goes from one point of its code to another.
Goto(c, from, to) == host = "up" /\ pc[c] = from /\ pc' = [pc EXCEPT ![c] = to]

\* An I/O call on the socket of c may throw once the peer is gone.
MayThrow(c) == socket[c] # "up"

\* Nobody is inside synchronized(e) (the mutant: nobody asks); Placeholders
\* are never contended.
Unguarded(e) == TRUE
MonitorFree(e) == anim.obj # e /\ \A d \in Conns : reg[d].mon # e

\* Level.entities changed structurally: a serialize in progress will throw
\* ConcurrentModificationException unless it was past its last next().
Modified == stopper' = IF stopper = "saving" THEN "torn" ELSE stopper

SysExit(status) == host' = status

\* Server.Locker can be taken (the mutant: nobody takes it).
Unlocked == TRUE
LockFree == Locker = NoEntity

\* The input loop leaves synchronized(ent[EID]), normally or not (the mutant:
\* the monitor stays held).
StaysInside(c) == UNCHANGED reg
LeaveMonitor(c) == reg' = [reg EXCEPT ![c] = NoReg]

\* kick() takes the session out of service.
NoLongerAlive(c) == alive' = [alive EXCEPT ![c] = FALSE]

-----------------------------------------------------------------------------
(* The accept thread: server.accept() and the ConnectedPlayer constructor, *)
(* which reads the op byte on the accept thread itself.                    *)

Connect(c) ==
    /\ Goto(c, "away", "op")
    /\ acceptor = NoEntity
    /\ acceptor' = c
    /\ UNCHANGED <<levelVars, lockVars, EID, alive, reg, socket, timerVars,
                   stopper, save, host>>

\* Slots to step over from a to reach b in the cyclic search of nextSlot.
Ahead(a, b) == (b + NumSlots - a) % NumSlots

\* The mutant takes a reserved slot for a free one.
UnfilledSlots == {s \in Slots : ent[s] \notin Conns}
FreeSlots == {s \in Slots : ent[s] = NoEntity}

\* 0x63 arrives: nextSlot() reserves the first free slot from entPlace on.
Reserve(c) ==
    /\ acceptor = c /\ socket[c] # "reset"
    /\ Goto(c, "op", "auth")
    /\ \E s \in FreeSlots :
          /\ \A t \in FreeSlots : Ahead(entPlace, s) <= Ahead(entPlace, t)
          /\ ent' = [ent EXCEPT ![s] = Placeholder]
          /\ entPlace' = s
          /\ EID' = [EID EXCEPT ![c] = s]
    /\ acceptor' = IF stopper = "off" THEN NoEntity ELSE Stopper
    /\ UNCHANGED <<entities, at, data, lockVars, alive, reg, socket, timerVars,
                   stopper, save, host>>

\* The constructor throws on the accept thread (no byte, or no free slot):
\* the exception handler of the accept loop ends the whole process.
AcceptFails(c) ==
    /\ acceptor = c
    /\ Goto(c, "op", "done")
    /\ MayThrow(c) \/ FreeSlots = {}
    /\ acceptor' = NoEntity /\ SysExit("exit3")
    /\ UNCHANGED <<levelVars, lockVars, EID, alive, reg, socket, timerVars,
                   stopper, save>>

-----------------------------------------------------------------------------
(* serve(), up to the input loop                                            *)

AuthAccept(c) ==
    /\ Goto(c, "auth", "version")
    /\ UNCHANGED <<levelVars, lockVars, EID, alive, reg, socket, timerVars, hostVars>>

\* The claimed hash does not match: 0x55 and return, the slot stays reserved.
AuthReject(c) ==
    /\ Goto(c, "auth", "done")
    /\ UNCHANGED <<levelVars, lockVars, EID, alive, reg, socket, timerVars, hostVars>>

\* Any exception while authenticating gives the slot back.
AuthThrows(c) ==
    /\ MayThrow(c)
    /\ Goto(c, "auth", "done")
    /\ ent' = [ent EXCEPT ![EID[c]] = NoEntity]
    /\ UNCHANGED <<entPlace, entities, at, data, lockVars, EID, alive, reg,
                   socket, timerVars, hostVars>>

VersionAccept(c) ==
    /\ Goto(c, "version", "check")
    /\ UNCHANGED <<levelVars, lockVars, EID, alive, reg, socket, timerVars, hostVars>>

\* "Outdated client!" and "Spawn blocked!": the slot is given back.
TurnAway(c, from) ==
    /\ Goto(c, from, "done")
    /\ NoLongerAlive(c)
    /\ ent' = [ent EXCEPT ![EID[c]] = NoEntity]
    /\ UNCHANGED <<entPlace, entities, at, data, lockVars, EID, reg, socket,
                   timerVars, hostVars>>

VersionReject(c) == TurnAway(c, "version")

\* Outside the try block of the authentication: an exception leaves serve()
\* for the handler of run(), which closes the socket and nothing else.
HandshakeThrows(c) ==
    /\ MayThrow(c)
    /\ \E step \in {"version", "check"} : Goto(c, step, "done")
    /\ UNCHANGED <<levelVars, lockVars, EID, alive, reg, socket, timerVars, hostVars>>

\* entities.containsKey(spawn), read without holding Locker.
SpawnClear(c) ==
    /\ entities[Spawn] = NoSlot
    /\ Goto(c, "check", "lock")
    /\ UNCHANGED <<levelVars, lockVars, EID, alive, reg, socket, timerVars, hostVars>>

SpawnBlocked(c) == entities[Spawn] # NoSlot /\ TurnAway(c, "check")

LockForJoin(c) ==
    /\ LockFree
    /\ Goto(c, "lock", "spawn")
    /\ Locker' = c
    /\ UNCHANGED <<levelVars, monitor, players, raced, EID, alive, reg, socket,
                   timerVars, hostVars>>

\* The new EntityPlayer enters ent and the index, whoever is indexed there.
SpawnEntity(c) ==
    /\ Goto(c, "spawn", "snapshot")
    /\ ent' = [ent EXCEPT ![EID[c]] = c]
    /\ entities' = [entities EXCEPT ![Spawn] = EID[c]]
    /\ at' = [at EXCEPT ![c] = Spawn]
    /\ data' = [data EXCEPT ![c] = NoData]
    /\ IF entities[Spawn] = NoSlot THEN Modified ELSE UNCHANGED stopper
    /\ UNCHANGED <<entPlace, lockVars, EID, alive, reg, socket, timerVars,
                   acceptor, save, host>>

\* The level is written to the client; players.add reads the list's size.
SendLevel(c) ==
    /\ Goto(c, "snapshot", "adding")
    /\ raced' = [raced EXCEPT ![c] = {}]
    /\ UNCHANGED <<levelVars, Locker, monitor, players, EID, alive, reg, socket,
                   timerVars, hostVars>>

\* Writing the level throws: there is no finally, Locker is never unlocked.
SendLevelThrows(c) ==
    /\ MayThrow(c)
    /\ Goto(c, "snapshot", "done")
    /\ UNCHANGED <<levelVars, lockVars, EID, alive, reg, socket, timerVars, hostVars>>

\* players.add stores behind the size it read, without the list's monitor:
\* a removal that committed in between leaves a null before the new element.
EnterList(c) ==
    /\ Goto(c, "adding", "reading")
    /\ players' = players \cup {c} \cup IF raced[c] = {} THEN {} ELSE {Hole}
    /\ raced' = [d \in Conns |-> CASE d = c -> {}
                                   [] pc[d] = "unlisting" -> raced[d] \cup {c}
                                   [] OTHER -> raced[d]]
    /\ Locker' = NoEntity
    /\ UNCHANGED <<levelVars, monitor, EID, alive, reg, socket, timerVars, hostVars>>

-----------------------------------------------------------------------------
(* serve(), the input loop: n = in.read() is -1 at the end of the stream,  *)
(* and -1 has bit 128 set: it is taken for a movement byte.                *)

\* A byte is read and ent[EID] evaluated, to be locked.
Grasp(c) ==
    /\ Goto(c, "reading", "grasped")
    /\ socket[c] # "reset" /\ ent[EID[c]] # NoEntity
    /\ reg' = [reg EXCEPT ![c] = [@ EXCEPT !.obj = ent[EID[c]],
                                         !.end = (socket[c] = "eof")]]
    /\ UNCHANGED <<levelVars, lockVars, EID, alive, socket, timerVars, hostVars>>

\* synchronized: the monitor of that object is entered, in ent or no longer.
Enter(c) ==
    /\ Goto(c, "grasped", "entered")
    /\ reg[c].obj \in Conns => MonitorFree(reg[c].obj)
    /\ reg' = [reg EXCEPT ![c] = [@ EXCEPT !.mon = reg[c].obj]]
    /\ UNCHANGED <<levelVars, lockVars, EID, alive, socket, timerVars, hostVars>>

\* ent[EID] is evaluated again for the compound assignment and data is read.
Load(c) ==
    /\ Goto(c, "entered", "loaded")
    /\ ent[EID[c]] # NoEntity
    /\ reg' = [reg EXCEPT ![c] = [@ EXCEPT
                  !.obj = ent[EID[c]],
                  !.val = IF ent[EID[c]] \in Conns THEN data[ent[EID[c]]] ELSE NoData]]
    /\ UNCHANGED <<levelVars, lockVars, EID, alive, socket, timerVars, hostVars>>

Store(c) ==
    /\ Goto(c, "loaded", "reading")
    /\ \E move \in IF reg[c].end THEN {TRUE} ELSE BOOLEAN :
          data' = [e \in Conns |-> IF e = reg[c].obj
                                   THEN [reg[c].val EXCEPT !.go = @ \/ move]
                                   ELSE data[e]]
    /\ LeaveMonitor(c)
    /\ UNCHANGED <<ent, entPlace, entities, at, lockVars, EID, alive, socket,
                   timerVars, hostVars>>

\* read() throws, or ent[EID] is null: the monitor is left on the way out.
InputThrows(c) ==
    /\ \/ Goto(c, "reading", "caught") /\ (socket[c] = "reset" \/ ent[EID[c]] = NoEntity)
       \/ Goto(c, "entered", "caught") /\ ent[EID[c]] = NoEntity
    /\ LeaveMonitor(c)
    /\ UNCHANGED <<levelVars, lockVars, EID, alive, socket, timerVars, hostVars>>

-----------------------------------------------------------------------------
(* kick(), run by the thread of the session itself                         *)

Caught(c) ==
    /\ Goto(c, "caught", IF alive[c] THEN "kick" ELSE "done")
    /\ UNCHANGED <<levelVars, lockVars, EID, alive, reg, socket, timerVars, hostVars>>

\* data = -1 on whatever ent[EID] holds now, without its monitor.
MarkDead(e) == data' = [d \in Conns |-> IF d = e THEN [dead |-> TRUE, go |-> TRUE]
                                                 ELSE data[d]]

KickMark(c) ==
    /\ Goto(c, "kick", IF ent[EID[c]] = NoEntity THEN "done" ELSE "unlist")
    /\ NoLongerAlive(c)
    /\ MarkDead(ent[EID[c]])
    /\ UNCHANGED <<ent, entPlace, entities, at, lockVars, EID, reg, socket,
                   timerVars, hostVars>>

\* synchronized(players): players.remove(this) computes the new size ...
KickUnlist(c) ==
    /\ monitor = NoEntity
    /\ Goto(c, "unlist", "unlisting")
    /\ monitor' = c
    /\ raced' = [raced EXCEPT ![c] = {}]
    /\ UNCHANGED <<levelVars, Locker, players, EID, alive, reg, socket,
                   timerVars, hostVars>>

\* ... and commits it: an element added meanwhile falls off the end.
KickUnlisted(c) ==
    /\ Goto(c, "unlisting", "done")
    /\ players' = IF c \in players THEN players \ ({c} \cup raced[c]) ELSE players
    /\ raced' = [d \in Conns |-> CASE d = c -> {}
                                   [] pc[d] = "adding" /\ c \in players -> raced[d] \cup {c}
                                   [] OTHER -> raced[d]]
    /\ monitor' = NoEntity
    /\ UNCHANGED <<levelVars, Locker, EID, alive, reg, socket, timerVars, hostVars>>

-----------------------------------------------------------------------------
(* The animation timer                                                     *)

\* The slots in the index (the mutant copies its gaps, too).
IndexWithGaps == {entities[p] : p \in Places}
Indexed == {entities[p] : p \in Places} \ {NoSlot}

\* tryLock succeeds; the values of the index are copied.
FrameStart ==
    /\ host = "up" /\ stopper = "off" /\ frame = "idle" /\ LockFree
    /\ Locker' = Timer /\ frame' = "animate"
    /\ todo' = Indexed
    /\ UNCHANGED <<levelVars, monitor, players, raced, connVars, socket, anim,
                   unsent, hostVars>>

\* "Animation interval lost!"
FrameLost ==
    /\ host = "up" /\ stopper = "off" /\ frame = "idle" /\ ~LockFree
    /\ UNCHANGED vars

\* The index without the entity e (the mutant: checkDeath leaves it there).
StillIndexed(e) == entities
Unindexed(e) == [entities EXCEPT ![at[e]] = NoSlot]

\* animate(s) of a player whose data is negative: checkDeath removes it.
Bury(s) ==
    LET e == ent[s] IN
    /\ host = "up" /\ frame = "animate" /\ s \in todo
    /\ MonitorFree(e) /\ data[e].dead
    /\ entities' = Unindexed(e)
    /\ ent' = [ent EXCEPT ![s] = NoEntity]
    /\ todo' = todo \ {s}
    /\ Modified
    /\ UNCHANGED <<entPlace, at, data, lockVars, connVars, socket, frame, anim,
                   unsent, acceptor, save, host>>

\* animate(s) of a live player: moveBy takes it, and the players it pushes, to
\* other tiles, one player a tile (which tiles is Movement's concern); then
\* data is read for &= ~0x43f.
Animate(s) ==
    LET e == ent[s] IN
    /\ host = "up" /\ frame = "animate" /\ s \in todo
    /\ MonitorFree(e) /\ ~data[e].dead
    /\ \E to \in [Indexed -> Places] :
          /\ \A q, r \in Indexed : to[q] = to[r] => q = r
          /\ data[e].go \/ \A q \in Indexed : to[q] = at[ent[q]]
          /\ at' = [d \in Conns |-> IF EID[d] \in Indexed /\ ent[EID[d]] = d
                                   THEN to[EID[d]] ELSE at[d]]
          /\ entities' = [p \in Places |-> IF \E q \in Indexed : to[q] = p
                                           THEN CHOOSE q \in Indexed : to[q] = p
                                           ELSE NoSlot]
    /\ IF entities' # entities THEN Modified ELSE UNCHANGED stopper
    /\ todo' = todo \ {s}
    /\ anim' = [obj |-> e, val |-> data[e]] /\ frame' = "clear"
    /\ UNCHANGED <<ent, entPlace, data, lockVars, connVars, socket, unsent,
                   acceptor, save, host>>

\* The cleared word is stored: the command bits go, the sign read before stays.
ClearBits ==
    /\ host = "up" /\ frame = "clear"
    /\ data' = [data EXCEPT ![anim.obj] = [anim.val EXCEPT !.go = FALSE]]
    /\ anim' = NoAnim /\ frame' = "animate"
    /\ UNCHANGED <<ent, entPlace, entities, at, lockVars, connVars, socket, todo,
                   unsent, hostVars>>

\* synchronized(players): the frame is closed and written to each of them.
SendStart ==
    /\ host = "up" /\ frame = "animate" /\ todo = {} /\ monitor = NoEntity
    /\ monitor' = Timer /\ frame' = "send" /\ unsent' = players
    /\ UNCHANGED <<levelVars, Locker, players, raced, connVars, socket, todo,
                   anim, hostVars>>

SendTo(c) ==
    /\ host = "up" /\ frame = "send" /\ c \in unsent /\ socket[c] # "reset"
    /\ unsent' = unsent \ {c}
    /\ UNCHANGED <<levelVars, lockVars, connVars, socket, frame, todo, anim, hostVars>>

\* The write throws: CoPl.kick(...) on the timer thread.
SendKick(c) ==
    /\ host = "up" /\ frame = "send" /\ c \in unsent /\ MayThrow(c)
    /\ ent[EID[c]] # NoEntity
    /\ unsent' = unsent \ {c} /\ players' = players \ {c}
    /\ NoLongerAlive(c)
    /\ MarkDead(ent[EID[c]])
    /\ UNCHANGED <<ent, entPlace, entities, at, Locker, monitor, raced, pc, EID,
                   reg, socket, frame, todo, anim, hostVars>>

\* A null in the list, or kick() finding ent[EID] null: the exception reaches
\* the handler of the timer task, which ends the process.
FrameFails ==
    /\ host = "up" /\ frame = "send"
    /\ \/ Hole \in unsent
       \/ \E c \in unsent \cap Conns : MayThrow(c) /\ ent[EID[c]] = NoEntity
    /\ SysExit("exit6")
    /\ UNCHANGED <<levelVars, lockVars, connVars, socket, timerVars, acceptor,
                   stopper, save>>

FrameEnd ==
    /\ host = "up" /\ frame = "send" /\ unsent = {}
    /\ monitor' = NoEntity /\ Locker' = NoEntity /\ frame' = "idle"
    /\ UNCHANGED <<levelVars, players, raced, connVars, socket, todo, anim, unsent,
                   hostVars>>

-----------------------------------------------------------------------------
(* Server.stop(), called by the management loop on op 0x04                 *)

\* running = false, the timer is cancelled (a frame in progress goes on), the
\* level file is truncated and serialize starts walking the index.
Stop ==
    /\ MayStop /\ host = "up" /\ stopper = "off"
    /\ stopper' = "saving" /\ save' = "cut"
    /\ UNCHANGED <<levelVars, lockVars, connVars, socket, timerVars, acceptor, host>>

SaveEnd ==
    /\ host = "up" /\ stopper \in {"saving", "torn"}
    /\ stopper' = "farewell"
    /\ save' \in IF stopper = "saving" THEN {"whole"} ELSE {"cut", "whole"}
    /\ UNCHANGED <<levelVars, lockVars, connVars, socket, timerVars, acceptor, host>>

\* The mutant: stop() waits for a frame or a join to end before it exits.
FarewellLocked ==
    /\ host = "up" /\ stopper = "farewell" /\ monitor = NoEntity /\ LockFree
    /\ stopper' = "gone" /\ host' = "exit0"
    /\ UNCHANGED <<levelVars, lockVars, connVars, socket, timerVars, acceptor, save>>

\* synchronized(players): a message to each (kick with suppress set changes
\* nothing), then System.exit(0). A null in the list makes the handler of the
\* loop throw in turn, and the thread ends without exiting.
Farewell ==
    /\ host = "up" /\ stopper = "farewell" /\ monitor = NoEntity
    /\ stopper' = "gone"
    /\ host' = IF Hole \in players THEN host ELSE "exit0"
    /\ UNCHANGED <<levelVars, lockVars, connVars, socket, timerVars, acceptor, save>>

-----------------------------------------------------------------------------
(* The peers and the end of the process                                    *)

\* The peer closes its side; later, or at once, the connection is reset.
HangUp(c) ==
    /\ host = "up" /\ c \in MayHangUp /\ pc[c] \notin {"away", "done"}
    /\ \E s \in {"eof", "reset"} :
          /\ s # socket[c] /\ socket[c] # "reset"
          /\ socket' = [socket EXCEPT ![c] = s]
    /\ UNCHANGED <<levelVars, lockVars, connVars, timerVars, hostVars>>

\* Nothing runs any more, or only threads that wait for ever.
Halted == (host # "up" \/ stopper = "gone") /\ UNCHANGED vars

Login(c) ==
    \/ Connect(c) \/ Reserve(c) \/ AcceptFails(c)
    \/ AuthAccept(c) \/ AuthReject(c) \/ AuthThrows(c)
    \/ VersionAccept(c) \/ VersionReject(c) \/ HandshakeThrows(c)
    \/ SpawnClear(c) \/ SpawnBlocked(c)

Join(c) ==
    \/ LockForJoin(c) \/ SpawnEntity(c)
    \/ SendLevel(c) \/ SendLevelThrows(c) \/ EnterList(c)

Input(c) == Grasp(c) \/ Enter(c) \/ Load(c) \/ Store(c) \/ InputThrows(c)

Kick(c) == Caught(c) \/ KickMark(c) \/ KickUnlist(c) \/ KickUnlisted(c)

Frame ==
    \/ FrameStart \/ FrameLost
    \/ \E s \in Slots : Bury(s) \/ Animate(s)
    \/ ClearBits \/ SendStart
    \/ \E c \in Conns : SendTo(c) \/ SendKick(c)
    \/ FrameFails \/ FrameEnd

Shutdown == Stop \/ SaveEnd \/ Farewell

Next ==
    \/ \E c \in Conns : Login(c) \/ Join(c) \/ Input(c) \/ Kick(c) \/ HangUp(c)
    \/ Frame \/ Shutdown \/ Halted

Spec == Init /\ [][Next]_vars

-----------------------------------------------------------------------------
Phases == {"away", "op", "auth", "version", "check", "lock", "spawn", "snapshot",
           "adding", "reading", "grasped", "entered", "loaded", "caught", "kick",
           "unlist", "unlisting", "done"}

Objects == Conns \cup {NoEntity, Placeholder}

Regs == [mon : Objects, obj : Objects, val : Data, end : BOOLEAN]

TypeOK ==
    /\ ent \in [Slots -> Objects] /\ entPlace \in Slots
    /\ entities \in [Places -> Slots \cup {NoSlot}]
    /\ at \in [Conns -> Places] /\ data \in [Conns -> Data]
    /\ Locker \in Conns \cup {NoEntity, Timer}
    /\ monitor \in Conns \cup {NoEntity, Timer}
    /\ players \in SUBSET (Conns \cup {Hole})
    /\ raced \in [Conns -> SUBSET Conns]
    /\ pc \in [Conns -> Phases]
    /\ EID \in [Conns -> Slots \cup {NoSlot}]
    /\ alive \in [Conns -> BOOLEAN]
    /\ socket \in [Conns -> {"up", "eof", "reset"}]
    /\ reg \in [Conns -> Regs]
    /\ frame \in {"idle", "animate", "clear", "send"}
    /\ todo \in SUBSET Slots
    /\ anim \in [obj : Conns \cup {NoEntity}, val : Data]
    /\ unsent \in SUBSET (Conns \cup {Hole})
    /\ acceptor \in Conns \cup {NoEntity, Stopper}
    /\ stopper \in {"off", "saving", "torn", "farewell", "gone"}
    /\ save \in {"old", "cut", "whole"}
    /\ host \in {"up", "exit0", "exit3", "exit6"}

-----------------------------------------------------------------------------
\* The login of c has reserved a slot and has neither used nor returned it.
Reserved(c) == pc[c] \in {"auth", "version", "check", "lock", "spawn"}

\* The player of c has been put into the level.
Entered(c) == ~Reserved(c) /\ pc[c] \notin {"away", "op"}

\* The slot ConnectedPlayer.EID of a session is its own. While a login is in
\* progress its slot holds the Placeholder put there for it and no other login
\* has the same slot; once the player exists, only its own session put it there.
SlotOwnership ==
    /\ \A c \in Conns : Reserved(c) => EID[c] \in Slots /\ ent[EID[c]] = Placeholder
    /\ \A c, d \in Conns : Reserved(c) /\ Reserved(d) /\ EID[c] = EID[d] => c = d
    /\ \A s \in Slots : ent[s] \in Conns => EID[ent[s]] = s /\ Entered(ent[s])

\* Level.entities, Level.ent and the coordinates agree: an indexed slot holds
\* an entity that stands on the tile it is indexed at.
IndexAgreement ==
    \A p \in Places : entities[p] # NoSlot =>
        ent[entities[p]] \in Conns /\ at[ent[entities[p]]] = p

\* No slot of the copied index is emptied before its turn: animate() is never
\* called on null, which would end the process with status 6.
FrameSafe == \A s \in todo : \E p \in Places : entities[p] = s

\* The input loop of c has read the data of its object and not yet written it.
Updating(c) == pc[c] = "loaded"

\* No input is lost to a racing update: a session whose player is still in its
\* slot updates that player and no other, and meanwhile neither the timer nor a
\* session that locked the same player is between its own read and write.  (One
\* whose player was removed between its two uses of ent[EID] may be: it
\* updates, without its monitor, the player that took over the slot.)
UpdatesApart ==
    \A c \in Conns : Updating(c) /\ ent[EID[c]] = c =>
        /\ reg[c].obj = c /\ anim.obj # c
        /\ \A d \in Conns \ {c} : Updating(d) /\ reg[d].obj = c => reg[d].mon # c

Stage(c) == IF pc[c] \in {"away", "op"} THEN "none"
            ELSE IF Reserved(c) THEN "pending" ELSE "over"

\* The slots of Level.ent keep the promise of SlotPool: however the threads
\* interleave, a reserved slot is returned, occupied or abandoned once, by the
\* login that reserved it, and only the death of its player frees it afterwards.
Pool == INSTANCE SlotPool WITH
    Free <- NoEntity, Taken <- Placeholder, slot <- ent, holder <- EID,
    stage <- [c \in Conns |-> Stage(c)]

PoolSpec == Pool!Spec

-----------------------------------------------------------------------------
\* What a session thread does without waiting for its peer.
SessionStep(c) ==
    \/ SpawnClear(c) \/ SpawnBlocked(c) \/ Join(c)
    \/ Enter(c) \/ Load(c) \/ Store(c) \/ InputThrows(c) \/ Kick(c)

\* Every thread that can go on infinitely often does: no thread is starved of
\* the processor, nor for ever of a lock that keeps being released.  Peers owe
\* nothing: they may send no byte, never finish a login and never hang up.
Fairness ==
    /\ \A c \in Conns : SF_vars(SessionStep(c))
    /\ SF_vars(Frame)
    /\ SF_vars(SaveEnd \/ Farewell)

FairSpec == Spec /\ Fairness

\* A frame that started is finished: holding Locker, the timer waits for the
\* monitors of entities and of the list, and none of their holders waits for it.
FrameCompletes == frame # "idle" ~> (frame = "idle" \/ host # "up")

\* Server.stop ends the process, whatever frame, login or kick it interrupts,
\* unless a racing players.add has left a null in the list.
StopExits == stopper # "off" ~> (host # "up" \/ Hole \in players)

-----------------------------------------------------------------------------
\* procedure-gameplay.txt:1: two entities are never on the same tile.
NoOverlap ==
    \A s, t \in Slots :
        ent[s] \in Conns /\ ent[t] \in Conns /\ at[ent[s]] = at[ent[t]] => s = t

\* procedure-gameplay.txt:52: as long as the host runs there is a next frame.
FramesGoOn == []<>(frame # "idle" \/ host # "up" \/ stopper # "off")
=============================================================================

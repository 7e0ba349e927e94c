# termWorld: specification and proofs

termWorld is a terminal game in which players join a *host*, are vouched for by
an *authentication server*, and move entities about a tiled level that the host
animates at a fixed interval.  There are two implementations of the host and of
the authentication server (Java, and JavaScript under `graphic-front`), a Java
terminal client, a management client, and protocol documents under
`src/protocol`.  This directory holds TLA+ models of the program, their TLC
configurations, and proofs checked by TLAPS.

## 1. Inventory

| component | state | operations | models |
|---|---|---|---|
| **Java host, threads** (`Server.java`, `ConnectedPlayer.java`) | `Level.ent`, `Level.entities`, `Server.players`, `Server.Locker`, `running`, the session's `EID`, `alive` | accept and reserve a slot, authenticate, check the spawn, join, read movement bytes, kick, animate a frame, stop | `HostSessions`, `SlotPool` |
| **Java host, level** (`Entity`, `EntityPlayer`, `EntityItem`, `Dog`, `Level`) | coordinates, health, inventories, tiles, `Server.buf` | `moveBy` with recursive pushing, `give`, `animate`, `checkDeath`, dig and cycle tiles | `Movement`, `FrameStream` |
| **Java client, mirror** (`Client.java` 255-335) | its copy of the level | apply the events of a frame | `FrameStream` |
| Java client, terminal (`Client.java`, `Text.java`) | keys held, cooldown, screen | input, drawing | no: terminal I/O |
| **shared secret** (`ConnectedPlayer.updateSecret`, `Host.regenerateSecret`, and the servers' sides) | the host's `secret`, each server's copy, updates under way | draw, send, store, vouch with it, check a login against it | `SecretUpdate` |
| Java authentication server (`TWAuth`) | accounts, servers and their secrets | vouch for a client, update a server's secret | `SecretUpdate` |
| Java management client and cipher (`TWCommon`) | keystream position | encrypted requests | no: see section 5 |
| **JavaScript management** (`Host.socketManagementLoop`, `Auth.manConnection`, `manage.js`) | `server_policies`, the loop of each connection, keystream positions | list, read and set policies, ask for a new secret, quit | `ManagementLoop` |
| **JavaScript host** (`host-server.js`) | `entities`, `connected`, `animationBuffer`, `secret` | answer a status request, vouch for a claim, join, animate, remove a player, management, secret update | `JsHost`; `SecretUpdate`, `ManagementLoop` |
| JavaScript authentication server (`auth-server.js`) | user and server tables, banished addresses, policies | vouch, update a secret, manage | `SecretUpdate`, `ManagementLoop`; registration is not |
| **JavaScript sockets** (`defs.js`, `NSocket`) | bundle, node's buffers, pending reads | from, bundle, flush, write, read, end | `NSocket` |
| **JavaScript cipher** (`defs.js`, `SymmetricCipher`) | keystream position | encrypt, decrypt | `ManagementLoop` |
| pages and shell (`graphic-front/js`, `back.js`), test drivers, plugins, level generation | | | no: user interface, generated data, code loaded by reflection |

How they interact.  A player's client asks the authentication server to hash the
host's secret with the host's nonce; the host recomputes the hash.  From then on
the connection has one thread in the Java host (`ConnectedPlayer.run`).  That
thread, the accept thread, the animation timer and the thread of a management
connection share the level.  Joins and frames exclude each other with
`Server.Locker`; the monitor of `Server.players` guards *some* uses of the list
of players; the monitor of each entity guards *some* uses of its `data` word.
What happens during a frame is described by events put into `Server.buf`, sent
to every listed player at the end of the frame.

A host renews its secret when it starts and whenever a management connection
asks for it, by connecting to each of its authentication servers in turn.  A
management connection is encrypted with a keystream whose one position is
advanced by what is written *and* by what is read, so both ends must write and
read in the same order.

The JavaScript host has one thread.  What interleaves are its handlers, at every
`await`, and the frames of an interval timer.  Joins and frames write to one
buffer, which the end of a frame sends and empties; a frame is a `forEach` over the
map that its own turns change.

What is hard, and where it is written down: `PROJECT.json` lists every hazard
with its line.  In short:

- slots of `Level.ent` are reserved, returned, filled and freed by three kinds of
  thread without a common lock, and a session keeps its slot number longer than
  its entity lives;
- `Locker` is taken without `finally`, so an exception while the level is being
  written keeps it locked;
- the spawn tile is tested before `Locker` is taken;
- pushing recurses (and may push the pusher), and every step of it must leave
  the index, the coordinates and the event stream in agreement;
- clients apply events by position, so one that is missing or out of order
  breaks their copy;
- the end of a stream (-1) has the bit that marks a movement byte;
- cleaning up is spread over exception handlers, two of which end the process;
- two updates of the secret may run at once, and the Java host does not wait for
  the servers to store what it sent;
- a JavaScript read at the end of a stream is a zero byte, which is also the
  first operation, the first value and the byte a client sends to quit;
- the JavaScript host finds a player who left by its address, which players may share;
- a `forEach` over a `Map` visits what its own turns add, so a frame may move one
  entity many times, into a buffer of fixed size;
- bytes, the end of a stream, node's `end` event and the polling of a read arrive in
  any order, and `NSocket.end` waits for a `drain` that may not come.

What makes each part correct:

- *threads*: a slot belongs to one login at a time and becomes free again once;
  index, slots and coordinates agree; the timer never animates an empty slot; a
  frame that starts ends; `stop` ends the process;
- *level*: pushing leaves index, slots and coordinates in agreement, items are
  neither made nor lost, and nobody leaves the array of tiles: to try is an exception
  (an entity may stand beside the board, see section 3);
- *client*: in what the events tell (tiles, and who is where, of what kind and with what
  inventory) its copy is the host's level after each frame, and changes at no other time;
  in what they do not tell it is wrong in one direction only;
- *JavaScript host*: the players listed from an address are as many as play from it;
  what a player knows, with what waits in the buffer, is the level; a frame ends, makes
  and removes no entity, and fits the buffer;
- *authentication*: host and server end with the same secret, or the host knows
  they did not;
- *cipher and sockets*: both ends use the same part of the keystream for the same
  byte; a byte is never lost, repeated or reordered, and a connection counts as ended
  only after the last one was read.

## 2. Modules

    SlotPool <--implements-- HostSessions <--extends-- MCHostSessions
                                  ^
                                  +-------extends-- HostSessionsProofs

    Movement <--extends-- FrameStream <--extends-- MCFrameStream, FrameStreamProofs

    JsHost          <--extends-- MCJsHost, JsHostProofs
    Broadcast       <--implements-- FrameStream, JsHost

    NSocket         <--extends-- NSocketProofs
    SecretUpdate    <--extends-- SecretUpdateProofs
    ManagementLoop  <--extends-- ManagementLoopProofs

    Recursion       <--instances-- FrameStreamProofs, JsHostProofs

**HostSessions** models every statement of the host at which threads can
interfere, each as an action.  The connection `c` also names the `EntityPlayer`
its thread creates (a successful login creates exactly one).

- Accept thread: `Connect`, `Reserve` (`nextSlot`, which searches cyclically from
  `entPlace`), `AcceptFails` (the constructor reads the operation byte and throws on
  the accept thread, whose handler is `System.exit(3)`).
- Session thread, `pc[c]`: `auth`, `version`, `check` (the spawn test), `lock`,
  `spawn`, `snapshot` (writing the level), `adding` (`players.add`), then the
  input loop `reading`, `grasped`, `entered`, `loaded`, and `kick`: `caught`, `kick`,
  `unlist`, `unlisting`, `done`.  An input is four steps: `Grasp` evaluates
  `Server.level.ent[EID]` for its monitor, `Enter` acquires the monitor, `Load` evaluates
  `ent[EID]` again and reads `data`, and `Store` writes it.
- Timer: `FrameStart`/`FrameLost` (`tryLock`), then for each copied slot `Bury`
  (a negative `data`) or `Animate` followed by `ClearBits` (`data &= ~0x43f` is
  a read and a write), then `SendStart`, `SendTo`/`SendKick`, `FrameEnd`.
  `FrameFails` is the exception handler of the task, `System.exit(6)`.
  `Animate` moves the indexed players to any other tiles, one player a tile:
  which tiles, and who pushes whom, is `Movement`'s business.
- Management thread: `Stop`, `SaveEnd`, `Farewell`.  A structural change of the
  index while it is being saved may throw `ConcurrentModificationException`
  (`torn`): the file stays truncated.
- Peers: `HangUp` (orderly: `read` returns -1 from then on; or a reset: I/O may throw).

`Server.players` is an `ArrayList` used without its monitor by `add`.  The set
`raced` records commits of another thread between a thread's reading the size and
its storing the element: the list can lose an element or keep a null (`Hole`).

**SlotPool** is what the slots promise: a login takes a free slot and then
returns it, occupies it or abandons it, once; an occupied slot is vacated when
its player is removed.  No thread, lock or socket appears in it.

**Movement** has the operations that run with `Locker` held, as operators from
a level to a level: `MoveBy` with the clamping, the recursion and the
vectors of the code, `Give`, `Remove`.  Each appends its events to `buf` and sets
`fault` where an array index out of range would raise an exception.  `moveBy` calls
itself; `move` is a recursive function of the levels left below its bound, and gives
for each what moveBy does to each call (receiver, arguments and level).  `Attempt` is the
body, `Shove` what it does when somebody stands in the way, `Push` the four vectors.
`Cells` are the places whose tile is in the array: that is all the code tests, so an
entity may stand beside the board (`TypeOK` of `FrameStream` allows it, although
`procedure-gameplay.txt:30-31` does not).

**FrameStream** puts them into joins and frames, one action for each turn of an
entity, and has the client (`Apply`) follow the stream.  `Scenes` is the set of levels
a behaviour may begin with, each with the players that join it and the number of
tiles they may edit.  A client that joins is given all that `Level.serialize` writes of these
(`Snapshot`: tiles, places, kinds, inventories, health, quantities) and has no copy once it
is kicked; `Told` is the part that
events keep up to date.  The host never sends health (`game.txt:102` documents the event,
`if ((fID & 8) == 8) {//entity health update`, and `Client.java:296` reads it) nor the
quantity of an item on the ground, although `moveBy`, `give` and the dog change both.
`Mirror` and `Broadcast` are therefore about `Told`, and `NeverUnderstated` says of the rest what
remains true: pushing only hurts and giving only uses up, so a client never sees less
health of a player, or fewer items on the ground, than there are.  (A dog also heals, so
its health may be wrong either way.)

**JsHost** is the JavaScript host from a connection's operation byte on.  `stage[c]` is the
`await` at which the handler of `c` waits: `op`, `name` (`Operation`), `claim`
(`Name`), `version` (`Claim`), then `playing` (`Join`).  An action is what the handler
does up to the next `await`, so nothing runs in between; `Loop` says that no frame is
running.  `Reply` is a write: to a stream that ended with the bytes just read it raises
an error nobody catches, which ends the process (`Die`, which also forgets the state of
the process).  `Enter` writes the snapshot, lists the player and puts a join event
into the buffer; `Close` is the handler of `cClose`, which searches the list for the
address (`Place`; `splice(-1, 1)` when nobody has it).  A frame is `FrameStart`, one
`Visit` for each turn of `forEach`, and `FrameEnd`.  `todo` is what `forEach` has yet to
visit: `Map.forEach` visits what is added while it runs, so an entity that moves goes
back into it.  Its order is left open.  `HangUp`, `Chatter` and `Reset` are the peers.
`Apply` is the loop of `Client.java` on the events this host sends; one that names a
place where the client has nobody is an exception there, and the end of the client (`Lost`).

**Broadcast** is what either host promises the clients it lists: who comes (`Come`) is
given the level, as it was or with itself in it; after that its copy changes only at the
end of a frame, when every copy becomes the level (`Publish`); whatever else
happens to the level (`Change`), clients may leave and nobody's copy moves.  No event, buffer or
entity appears in it.  For the Java host "the level" is what the events tell of it.  The two
implement it differently: the Java host gives a client the
level with its own player, the JavaScript host the one before; each sends it, too, the
events of the interval it came in.  The copies are those of the players in
stage `in` (`FrameStream`), and of the players listed and playing (`Listeners`, `JsHost`:
of those that have lost their place in the list it promises nothing).

**NSocket** is two `NSocket`s joined by a connection.  `Bundle`, `Flush`, `Write`, `End`,
`Read` are calls the programs make in any order; `Poll` is the function that a read
repeats on a timer.  What the class uses of node is modelled from that use: a writable
buffer with a mark that makes `drain` due (`out`, `needDrain`), the FIN that follows its
last byte (`Oend`, `SendFin`), a readable buffer that gives all of a read or nothing
until the peer has ended (`inbuf`, `eof`, `Taken`), the `end` event and node's own
closing of a side whose peer has ended (`EmitEnd`).  `NSocket.from` binds that closing to
`NSocket.end` (`Bound`).

**SecretUpdate** models the update of the secret by both hosts (`impl`).  An update
`m`, `job[m]`, goes through the servers one by one: `Dial`, `Deny` or `Send`,
`Confirmed`, and after the last one `Finish`.  What differs is in four operators:
the JavaScript host puts its draw into `this.secret` at once (`StoreAtDraw`), sends
what `this.secret` holds when it gets that far (`Outgoing`) and waits for the answer
(`Send`, `Answer`); the Java host keeps its draw to itself, goes on as soon as it has
written, and changes `secret` at the end (`StoreAtEnd`).  `Install` is the server's
side: secrets that are under way are stored in any order, because each connection
has a thread, or a task, of its own.  A server may `Crash` in the middle and come back with
its first secrets; then an update of the Java host ends with an exception
(`Abort`), which at the start of the host is the end of the host, and one of the
JavaScript host never ends (`Hang`), counts an answer it never got (`CutOff`,
`Unanswered`), or ends the process.  A login is `Vouch`, the server's hash with its copy,
and `Check`, the host's comparison, with anything in between; a `Refuse` makes the
JavaScript server ignore the address for a while, the host's too if the user
was at the same address.  `clean` and `calm` are history: the last update began
alone and nothing disturbed it; a login was vouched for after such an update, and none
has begun since.

**ManagementLoop** models the management connections of a JavaScript server
(`kind`: host or authentication server) from the exchange of the keys on.  `srv[c]` is
where the loop of a connection waits for its next `read`; an action of `Serve`
is what the loop does from one read to the next.  `sKey`, `cKey` are the positions
of the two ciphers.  A value under way carries the position it was written at; the
reader understands it if it reads at that position, and reads anything that makes
a difference to it if not (`Readable`).  At the end of a stream a read gives 0
without deciphering (a value read so is set, `SetPolicy`), and an answer written after
that, that of an update included (`UpdateDone`), raises an error that ends the process.  Nobody
listens to the errors of a connection, so a `Reset` does the same.
The management page lists the policies when it has logged in (`Open`,
`ListShown`) and may be closed at any moment (`ClosePanel`).  Its inputs for setting
a policy are made after the row they belong to has been filled, so they never appear,
and reading and setting is done by clients that follow the protocol (`Ask`,
`Choose`, `Done`), which are outside this repository.

Some definitions come in pairs: the one in use, which translates the code, and
just before it a deliberately mistaken one, which no action uses.  Putting the
mistaken one in place of the other must break the property named in
`PROJECT.json`, so each property is known to depend on the code.

## 3. Runs

| run | question | result |
|---|---|---|
| `host_safety` | 2 logins, 2 slots, 2 tiles, both peers may hang up: do slots, index and coordinates agree, is an input lost to a racing update, and does the host implement `SlotPool`? | holds, 535 thousand states up to symmetry |
| `host_live` | does a started frame end, does `stop` exit (unless the list of players holds a null)? | holds under `FairSpec`, 174 thousand states |
| `host_overlap` | are two entities ever on one tile? | violated: both logins pass the spawn test first |
| `host_frozen` | is there always another frame? | violated: `Locker` stays locked after a failed join |
| `stream` | a dog, a player and two items in a corridor; two players who may meet on the spawn tile of a walled level, be kicked, edit a tile: types, index, every client's copy in what events tell, its direction of error in what they do not, number of items; is the host a `Broadcast`? | holds, 216 thousand states up to symmetry |
| `js_host` | 3 players, 2 from one address, a dog, joins between and hang-ups during frames: is the count right, does what players know follow the level, does a frame fit the buffer, keep its entities and end, is the host a `Broadcast` to the listed players? | holds, 384 thousand states |
| `js_host_wrong_place` | does everyone who plays get frames? | violated: who leaves takes the place of another player from its address |
| `nsocket` | two programs that bundle, flush, write, read and end in any order: does each byte arrive once and in order, does a connection end only after its last byte, are reads resolved, does an `end` on a full buffer end the connection? | holds, 107 thousand states |
| `secrets` | both hosts, 2 servers of which one knows the host, 3 updates, a server that crashes, a login: do host and server agree after an update that nothing disturbed, are logins made then accepted, do updates end? | holds, 166 thousand states |
| `secrets_overtaken` | do host and server agree whenever no update is under way? | violated: the Java host starts the next update before the server has stored the last one |
| `management` | 2 connections, 2 policies: do the keystreams stay in step, is a policy only what somebody asked for, is every request answered, does every loop end? | holds, 76 thousand states |
| `management_hasty` | is the byte that ends a connection understood? | violated: the page may send it while the list is on its way, at another position than the server reads it at |

What the explored behaviours also show, beside the properties.  Where a document of the
repository says otherwise:

- in the Java host a row is clamped to the *width* less one and the column test looks at
  `x > 0` only, so on a board wider than high a player may leave it; a push doubles
  a vector and may leave even a small square board (`fault`: the exception ends the host).
  `procedure-gameplay.txt:30-31` has "Change the desired location to the location in
  bounds which is closest to the desired location";
- the JavaScript host never refuses a spawn (a `typeof` is compared with `undefined`):
  who joins overwrites what stands on the spawn tile, so players share one entity there.
  `procedure-gameplay.txt:45-50` has 'Kick with reason "Spawn blocked!"';
- a dog of the JavaScript host only ever moves up and to the left: `randomInt(-1, 2)`
  gives -4 to -1, as it multiplies by a negative difference.  `procedure-gameplay.txt:63-76`
  gives it steps in every direction.  The mistake is also what makes a
  frame end: with such steps `forEach` could follow a dog until the buffer is full;
- an entity of the JavaScript host that finds another in its way stays
  (`procedure-gameplay.txt:28-41` has it hurt, give and push; a comment in the code leaves
  that to do);
- no event tells a client that health has changed (`game.txt:102` has one).

Where none does:

- a peer that connects and closes before its operation byte, and a login when all
  slots are reserved, end the host (`exit3`); rejected claims reserve slots for good;
- a write that fails in a frame after the player was already removed ends the host
  (`exit6`), as does a null in the list of players;
- a session that is kicked late marks whoever holds its slot by then, a session whose
  player was removed while it waited for the monitor updates that one, too, without
  holding its monitor, and a kick
  that falls between the two halves of `data &= ~0x43f` is lost, leaving the player
  in the level without a session;
- of two entities on the spawn tile the first is in `ent` but no longer in the
  index: it is never animated, pushed or removed;
- an update of the JavaScript host that meets a server which refuses or ignores it
  never ends: the management connection that asked for it waits for ever;
- a client of the management loop that goes away in the middle of a request, or
  resets its connection, ends the JavaScript server for everybody;
- the Java input loop takes the -1 it reads at the end of a stream for a movement byte,
  so a player whose client closed its connection moves on for ever;
- a player's bytes after the version are never read; one that sends any has no `end`
  event, so it is listed for good;
- a level that outgrows the 1024 bytes of the snapshot ends the JavaScript host at the next
  join, as does a peer that ends its side in the middle of the handshake;
- `NSocket.end` waits for `drain` unless node has already closed the side, and `drain` comes
  only when a write has filled the buffer (16384 bytes): after small writes neither side
  ends the connection, whatever the comment at `defs.js:183` hopes;
- an emptied item entity stays until its own turn, and gives a stack of zero to
  whoever meets it before.

What the passing properties leave out on purpose, because the code does it:

- `PoolSpec` lets a login `Abandon` its slot, which is the leak of rejected claims;
- `UpdatesApart` speaks of a session whose player is still in its slot; `FrameSafe` of the
  animation, not of a write that fails later in the frame;
- `StopExits` allows a null in the list of players, which ends the process otherwise
  (with `exit6`), and says nothing of the level file, which may be torn (`save`);
- `Agreement` and `CalmLogins` speak of updates that began alone and met no crash and no
  error (`clean`, `calm`); what crashes, errors and overlaps leave behind is real, and
  `secrets_overtaken` shows the case without any crash or error;
- `UpdateEnds` counts an update whose connection a server refuses or breaks (`hung`) or
  leaves unanswered (`ignored`) as ended: it says that there is no other reason to wait;
- `OnlyChosen` speaks of a server that runs: a request cut off in the middle sets a policy
  to 0 just before the answer to it ends the process.

`host_frozen` needs the write of the level to throw.  It goes through a `BufferedOutputStream`
of 8192 bytes and is not flushed before `players.add`, so that takes a level larger than
the buffer; the model lets every such write throw.

### Bounds

| constant | value | in the code | why it is enough |
|---|---|---|---|
| `Conns`, `NumSlots` | 2, 2 | any, 1024 | contention for a slot, its reuse, a lost entry of the list and a mark on another session's entity need two logins; three on a full level are left to the proofs, which bound neither |
| `Places` | 2 (1) | the board | spawn free, taken, and left again |
| `MayHangUp`, `MayStop` | one or both peers; FALSE but in `host_live` | any | a bound on the interleavings; the proofs have none |
| `MaxDepth` | 3 | 15 | the longest chain of pushes on these boards, back to the pusher |
| `MaxStack` | 2 | 127 | a stack that is full, half full, or cannot take the whole item |
| `MinHealth`, `MaxHealth`, `Weak` | 0, 1, 1 | -30000, 10, 5 | a dog is hurt, heals and dies |
| `Tiles`, `MaxEdits` | 2, at most 1 edit | 6 tile kinds, no limit | a tile that blocks and one that does not |
| boards | 3x3: 4 tiles of it in a row, 4 in a square | up to 2^31 | chains of four entities; two players who meet |
| `Slots` (stream) | 4 | 1024 | one more than the entities |
| `Conns`, `Address` (js_host) | 3, two from one address | any | the place of another is taken, before or after one's own; the last one's when nobody has the address |
| `Width`, `Height` | 3, 4 | 10, 10 by default | the least board with the dog's tile; a dog that moves twice in a frame and stops in the corner; the proofs have no bound |
| `BufSize`, `SnapSize` | 164, 1024 | 4096, 1024 | one join and the most a frame can move fit, three joins and it do not, so the buffer does overflow |
| `Chatty`, `Askers` | one connection of the three | any | a player whose end is never seen; a status request beside joins |
| `Mark`, `Room` | 2, 1 | 16384, the network's | a buffer below the mark, at it and above; bytes in every buffer at once |
| `MaxBytes`, `MaxReply`, `MaxWrite`, `MaxRead` | 3, 2, 2, 2 | any | a read that asks for less, as much and more than there is; a write that passes the mark |
| `Bundlers` | the client | both | a bundle at one end that is flushed, or left at the end |
| `NumAuths`, `Known` | 2, {1} | any | a server that stores and one that refuses, in the order of the loop |
| `Managers`, `MaxDraws` | the start and 2 connections; 3 secrets | any | two updates at once and one after them |
| `MayCrash`, `Users`, `Near` | {1} (none), 1, the same | any | a crash at every step of an update; a login may banish the host's address |
| `Clients`, `NumPolicies`, `MaxValue` | 2, 2, 1 | any, 2, 2 kinds of value | two loops interleaved on one table; a policy another client touches and one it does not; a default and another value |
| `MaxRequests` | 1, besides the list and the quit | any | a request after, before or between those of the other client |

With `MayStop` FALSE the host never exits with status 0 in that run, and `host_live`
covers it.  On a square board the mistake in `ClampY` cannot show.

### Fairness

`FairSpec` assumes that each session thread (what it does without waiting for
its peer), the timer and the stopping thread take a step if they can infinitely
often: the JVM schedules its threads, and `ReentrantLock` and monitors, though
not fair, are released again and again by code that does not wait for others.
Strong fairness is needed because a lock is free only now and then.  Nothing is
assumed of peers: they may never send a byte or finish a login.  A write to a
socket is taken to return or throw, so a peer that stops reading without closing
is outside the model.

`SecretUpdate` assumes weak fairness of each update of the host and of each server's
storing of a secret: threads and event loops that are not blocked go on.  A server that crashed need
not come back, an address need not be forgiven, and nobody need log in.
`ManagementLoop` assumes it of the loop of each connection; the event loop of Node
serves them all.  It assumes nothing of clients, and nothing of the update a loop
waits for (`UpdateDone`), which `SecretUpdate` shows may never end.  Its runs do
not check for deadlock: when every client has gone, or the process has ended, there
is nothing left to do.  `SecretUpdate` stutters explicitly where only a new
login or update could go on.

`JsHost` assumes weak fairness of the frames, which a timer starts, and of the handler
of a stream's end, and nothing of peers.  `NSocket` assumes it of node (`Transmit`, `SendFin`, `EmitEnd`),
of the network (`Deliver`, `DeliverFin`) and of the timer that repeats a read (`Poll`);
programs need not call anything.  Fair delivery means that the peer's node goes on
reading: `inbuf` has no bound, while node stops at a mark of its own when its program does not
read.  Against such a peer a `drain` may never come, and `EndAtMark` says nothing.
`DeliverFin` is fair without a read of the program, as node's own `read(0)` comes to
`NSocket.read(0)`, which polls (`defs.js:257-297`).  Both may come to rest, the one when its process has
ended, the other when both programs have nothing more to say: their runs do not check
for deadlock.

## 4. Proofs

Every theorem is about the specification of a module for all values of its constants
that its assumptions allow (`ConstantsOK`; in `Movement` and `FrameStream` `BoardOK`, `BoundsOK`,
`SpawnOK` and `ScenesOK`); TLC evaluates them in the runs.  The
properties are those of the runs above.  Every safety property of a passing run is
proved, but `NeverUnderstated`.

| module | theorem | says |
|---|---|---|
| `HostSessionsProofs` | `TypeCorrect` | `Spec => []TypeOK` |
| | `SlotsAreOwned` | `Spec => []SlotOwnership` |
| | `IndexAgrees` | `Spec => []IndexAgreement` |
| | `FramesAreSafe` | `Spec => []FrameSafe` |
| | `InputsAreKept` | `Spec => []UpdatesApart` |
| | `HostImplementsSlotPool` | `Spec => PoolSpec`: every step of the host is a step of `SlotPool` or leaves its variables alone |
| `JsHostProofs` | `TypeCorrect` | `Spec => []TypeOK` |
| | `FramesFit` | `Spec => []FrameFits` |
| | `CountsAgree` | `Spec => []CountAgrees` |
| | `FramesKeep` | `Spec => FrameKeeps`, an action property |
| | `MirrorsAgree` | `Spec => []Mirror` |
| | `HostBroadcasts` | `Spec => BroadcastSpec`: every step is one of `Broadcast`, seen from the listed players |
| `FrameStreamProofs` | `TypeCorrect`, `IndexAgrees` | `Spec => []TypeOK`, `Spec => []IndexAgreement` |
| | `ClientsMirror` | `Spec => []Mirror` |
| | `ItemsAreConserved` | `Spec => ItemsConserved`, an action property |
| | `HostBroadcasts` | `Spec => BroadcastSpec`: every step is one of `Broadcast`, seen from the clients |
| | `MoveByEvolves` | what `moveBy` leaves of a sound level, and tells, for any board and any depth |
| `NSocketProofs` | `TypeCorrect` | `Spec => []TypeOK` |
| | `BytesInOrder`, `EndIsWhole` | `Spec => []Stream`, `Spec => []NothingCutOff` |
| | `ShortReadsAreLast` | `Spec => ReadsWhole`, an action property |
| `SecretUpdateProofs` | `TypeCorrect` | `Spec => []TypeOK` |
| | `ServersAgree`, `CalmAccepted` | `Spec => []Agreement`, `Spec => []CalmLogins` |
| `ManagementLoopProofs` | `TypeCorrect` | `Spec => []TypeOK` |
| | `StaysInStep`, `PoliciesAreChosen` | `Spec => []InStep`, `Spec => []OnlyChosen` |

**HostSessions.**  None of the invariants is inductive alone; their conjunction with two
more is (`IInv`):

- `HasSlot`: a session past its reservation has a slot number in `Slots`, so
  that `ent[EID[c]]` means something in every later step;
- `LockInv`: who holds `Locker` is where its holder is allowed to be: a session
  between `spawn` and `adding` (or ended there by an exception), the timer
  outside `idle`.  This is what makes a join and a frame exclude each other, and
  `FrameSafe` rests on it: a slot copied at the start of a frame can leave the
  index only in its own turn, because a join, the only other writer of the index,
  needs the lock.

`SlotOwnership` supports `IndexAgreement` (a reserved slot is not an indexed one)
and the refinement (a slot is vacated only by its own player's turn).  The proof
of the step has one case per action; the refinement maps each action to `Take`,
`Return`, `Occupy`, `Abandon`, `TurnedAway`, `Vacate` or a stutter.

`UpdatesApart` follows from `RaceInv`: one thread at a time is inside an entity's monitor,
the timer included, and as long as a session inside the monitor has its player in its
slot, the object it evaluated first, the one it locked and the one it loaded are all that
player: a session spawns once, so a player that has left its slot never comes back to it.

**JsHost.**  A frame may visit what it has moved, so its length is bounded only because
a dog never moves down or to the right.  `FInv` says so with numbers: `OneDog` (there is
at most one, so no two dogs spend the budget) and `Budget` (the bytes used are those of the joins
plus those of the moves the dog has made, and what the dog can still move is the sum of
its coordinates).  The lists are counted separately: `CountInv` relates the number of places of an
address in `connected` to the number of its players; a `Splice` takes one place
and `Close` one player of the same address, whichever they are.  `Mirror` needs `Quiet`:
between frames the buffer holds nothing but joins, all of them at the place where players
enter, which is taken.  A player who joins gets a level that already contains them, and applying them
to it changes nothing.

**FrameStream.**  The proof is about the operations first.  A level *evolves* (`Evolves`) into
another when that one is sound (its type, and index, slots and coordinates agree), the kinds are the same,
whoever was indexed where it stands still is, a client that has the first level when
it has applied the first buffer has the second with the second, and both hold as many items.
This is reflexive and transitive.  Giving a stack, relocating an entity to a free place,
setting a tile, losing health and raising an exception each do it, so `Give`, `Dig` and
`Cycle` do; and one level of `moveBy` does if the next one does (`Deep`, `AttemptEvolves`),
whatever it pushes and whether or not it comes back to the pusher.  The mover is
indexed where it stands *after* the push because `Evolves` says so of every entity: that is why the
position the code computed before the push is still the right one to leave.
Removals and joins change kinds, so they only keep soundness and the
clients' copies, and the places of the other entities.
`SInv` is then inductive: `TypeOK`, `Agrees`, `Copies` (`Mirror`, also after an exception),
`Waiting` (a slot that waits for its turn is indexed, and waits once, so that a removal never concerns another
one that waits) and `Arrivals`, the counterpart of `Quiet`.

**Broadcast.**  The two refinements rest on these invariants.  `FrameEnd` is `Publish` because `Copies`
(`Mirror`) says what a copy becomes when the buffer is applied to it, and a join is `Come`.  Every
other step leaves the copies of those who stay and brings nobody in, so it is `Change`
(`HostChanges`); in `JsHost` that includes the end of the process and a `Close` that
takes another player's place in the list (`CloseUnlists`: it lists nobody new).

**Recursion.**  `ApplyAll`, `Sum`, `FillStacks`, `Applied` and `move` are recursive functions,
and neither TLA+ nor the library's induction theorems, whose parameter is an
operator, give tlapm a way to their values.  `Recursion` does: induction up to `n` comes from the least element of a
set of naturals (`WFMin` of the library), with the induction hypothesis as a set; and as the step of
a recursion is a constant operator of the module, `INSTANCE Recursion WITH Step <- ...` gives
each of the five its own lemmas: the function exists, one more input takes one step more, what every
step keeps the result has.

**NSocket.**  `CInv` is `TypeOK` with two parts: `Row`, that the bytes written are those
read followed by those in each buffer on the way, and `Closing`, how far the end of a
connection has come: a bundle is empty when it is not in use and after `end`, a FIN
follows the last byte of the buffer and arrives behind those of the network, and the `end`
event waits until the readable buffer is empty.

**SecretUpdate.**  `AInv`: as long as the last update began alone and nothing disturbed
it (`clean`), either it is `Settled` (no update is at work; a server has the host's secret or
one is still on its way to it) or one update is at work `Alone`: the servers
before its place have its secret or will store it, and no other secret is on its way.
`CalmInv` adds that a login vouched for in calm holds the host's secret until the next
update begins.

**ManagementLoop.**  `MInv` relates both ends of each connection.  While the client takes
turns (`Good`), only one end speaks at a time, so the two positions differ by just what
is under way (`Duplex`); what the loop still has to read fits the place where it waits
(`Script`); and what the client waits for is on its way or will be (`Turns`).  A client
that closed the page too early (`hasty`) is `Astray`: it said no more than the request for
the list and the closing byte, so whatever the server takes that byte for, its loop never
comes to the value of a policy.

Only model-checked: `NeverUnderstated`, and all liveness (`FrameCompletes`, `StopExits`, `FramesGoOn`,
`EndAtMark`, `ReadsResolve`, `UpdateEnds`, `Answered`, `LoopsEnd`), which is out of the
prover's reach.  The counterexamples (`host_overlap`, `host_frozen`, `js_host_wrong_place`,
`secrets_overtaken`, `management_hasty`) are TLC's.

## 5. Not modelled

- Plugins (loaded by reflection, or resolvers and deniers in JavaScript) and level generation.
- Rendering, menus and pages.  `js/index.js` cannot load, the status request of
  `js/common.js` sends nothing and waits five seconds, the test drivers are written for an
  older server; there is nothing to check them against.
- The exchange of keys and the hashes themselves (who knows a secret or a password is
  given), accounts and their registration, the nonces of a login.
- Lengths of messages, and in the Java host the 4096-byte buffer and the writing to a
  socket whose peer does not read; conversions between strings, numbers and bytes.
- Of what a client is given when it joins, the age of the level, an entity's `data` word
  (in it a player's cooldown), color and face.
- The raw bits of `data` other than the sign and the movement bits; icons; more than one
  kind of item; slot numbers inside the client, and its choice of its own entity.
- `ManCLI` and `Sec`: a prompt, a request, an answer.  `Sec.crypt` of a single byte does not
  advance the keystream, that of an array does; whether both ends always use the same
  one for the same bytes has not been checked.
- The parts of the JavaScript host are not composed with each other: `JsHost`, `SecretUpdate` and
  `ManagementLoop` share no state but the process, whose end is in each of them.

## 6. Where it could go on

In order of what it would add: a proof of `NeverUnderstated`; the client's slots and its choice of its own entity in
`FrameStream`; `Login`, with nonces and banished addresses, composed with `SecretUpdate`;
`AuthAccounts`, registration at the JavaScript server; sockets that block a writer in
`HostSessions`; that the frames of `HostSessions` and those of `FrameStream` are the same ones,
as a refinement of one by the other.

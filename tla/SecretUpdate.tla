---------------------------- MODULE SecretUpdate ----------------------------
(***************************************************************************)
(* The secret a game host shares with its authentication servers: the      *)
(* update a management connection asks for (and the host makes when it     *)
(* starts), in the Java host (ConnectedPlayer.updateSecret) and in the     *)
(* JavaScript host (Host.regenerateSecret), which differ in when the host  *)
(* changes its own secret and in whether it waits for answers; the servers'*)
(* side; and the logins, whose claims are hashed with the server's copy    *)
(* and checked with the host's.                                            *)
(***************************************************************************)
EXTENDS Naturals

CONSTANTS
    Impls,       \* the implementations considered, among "java" and "js"
    NumAuths,    \* how many servers the host updates, in this order
    Known,       \* those that know the host's ID and password
    Main,        \* the update made when the host starts
    Managers,    \* Main, and the management connections
    Users,       \* logins
    Near,        \* those that come from the host's own address
    MaxDraws,    \* bound: secrets drawn in a behaviour
    MayCrash     \* bound: the servers that may crash

Auths == 1..NumAuths

ASSUME ConstantsOK ==
    /\ Impls \subseteq {"java", "js"}
    /\ NumAuths \in Nat /\ Known \subseteq Auths /\ MayCrash \subseteq Auths
    /\ Main \in Managers /\ Near \subseteq Users /\ MaxDraws \in Nat \ {0}

VARIABLES
    impl,      \* which host this is
    running,   \* the host process runs
    secret,    \* the host's secret, by the number of its draw
    drawn,     \* how many secrets have been drawn
    up,        \* whether each server runs
    table,     \* the secret each server has for the host
    wire,      \* secrets sent to each server and not yet stored
    banned,    \* whether each server ignores the host's address
    job,       \* where each update is: pc, the secret drawn, the server's turn
    clean,     \* history: the last update began alone and nothing disturbed it
    login      \* stage, claimed secret, and whether no update came between

vars == <<impl, running, secret, drawn, up, table, wire, banned, job, clean, login>>

-----------------------------------------------------------------------------
\* (The mutant counts the servers from zero.)
JobFromZero(pc, own, next) == [pc |-> pc, own |-> own, next |-> next - 1]
Job(pc, own, next) == [pc |-> pc, own |-> own, next |-> next]

\* The Java host has a secret compiled in, number 0, which its servers also
\* start with; the JavaScript host draws one at once.
Init ==
    /\ impl \in Impls /\ running = TRUE
    /\ secret = (IF impl = "js" THEN 1 ELSE 0) /\ drawn = 1
    /\ up = [a \in Auths |-> TRUE] /\ table = [a \in Auths |-> 0]
    /\ wire = [a \in Auths |-> {}] /\ banned = [a \in Auths |-> FALSE]
    /\ job = [m \in Managers |-> IF m = Main THEN Job("dial", 1, 1) ELSE Job("idle", 0, 1)]
    /\ clean = TRUE
    /\ login = [u \in Users |-> [stage |-> "new", claim |-> 0, calm |-> FALSE]]

\* The Java host accepts connections once its first update has ended.
Open == running /\ (impl = "java" => job[Main].pc = "over")

\* No update is under way: those that wait for ever do nothing any more.
Quiet ==
    /\ \A m \in Managers : job[m].pc \in {"idle", "over", "hung"}
    /\ \A a \in Auths : wire[a] = {}

To(m, pc) == job' = [job EXCEPT ![m].pc = pc]

\* The update goes on to the next server (the mutant stays where it is).
SameServer(m) == job' = [job EXCEPT ![m].pc = "dial"]
NextServer(m) == job' = [job EXCEPT ![m].pc = "dial", ![m].next = @ + 1]

Turn(m, pc) == running /\ job[m].pc = pc /\ job[m].next \in Auths

-----------------------------------------------------------------------------
(* The host                                                                 *)

\* What the JavaScript host changes when it draws.
StoreAtDraw(n) == IF impl = "js" THEN n ELSE secret

Begin(m) ==
    /\ Open /\ m # Main /\ job[m].pc = "idle" /\ drawn < MaxDraws
    /\ drawn' = drawn + 1 /\ secret' = StoreAtDraw(drawn + 1)
    /\ job' = [job EXCEPT ![m] = Job("dial", drawn + 1, 1)]
    /\ clean' = Quiet
    /\ login' = [u \in Users |-> [login[u] EXCEPT !.calm = FALSE]]
    /\ UNCHANGED <<impl, running, up, table, wire, banned>>

\* The JavaScript server leaves a banished address without an answer.
Dial(m) ==
    /\ Turn(m, "dial") /\ up[job[m].next]
    /\ To(m, IF impl = "js" /\ banned[job[m].next] THEN "ignored" ELSE "ask")
    /\ UNCHANGED <<impl, running, secret, drawn, up, table, wire, banned, clean, login>>

\* An exception ends the update, and with it the management connection or, if
\* the host was starting, the host.
Abort(m) ==
    /\ impl = "java" /\ To(m, "over") /\ running' = (m # Main)
    /\ clean' = FALSE
    /\ UNCHANGED <<impl, secret, drawn, up, table, wire, banned, login>>

\* The promise of the update is never resolved.
Hang(m) ==
    /\ impl = "js" /\ To(m, "hung") /\ clean' = FALSE
    /\ UNCHANGED <<impl, running, secret, drawn, up, table, wire, banned, login>>

Refused(m) == Turn(m, "dial") /\ ~up[job[m].next] /\ (Abort(m) \/ Hang(m))

\* 0x55: the server does not know the ID, or the password is wrong.
Deny(m) ==
    /\ Turn(m, "ask") /\ job[m].next \notin Known
    /\ NextServer(m)
    /\ UNCHANGED <<impl, running, secret, drawn, up, table, wire, banned, clean, login>>

\* The JavaScript host sends what this.secret holds now, the Java host its draw
\* (the mutant sends the secret in use).
InUse(m) == secret
Outgoing(m) == IF impl = "js" THEN secret ELSE job[m].own

\* The secret goes out under the server's key.  The JavaScript host waits for
\* the answer; the Java host goes on.
Send(m) ==
    /\ Turn(m, "ask") /\ job[m].next \in Known
    /\ wire' = [wire EXCEPT ![job[m].next] = @ \cup
                  {[by |-> m, sec |-> Outgoing(m)]}]
    /\ IF impl = "js" THEN To(m, "sent") ELSE NextServer(m)
    /\ UNCHANGED <<impl, running, secret, drawn, up, table, banned, clean, login>>

\* The server is gone in the middle.  Java: an exception, unless the secret
\* could still be written.  JavaScript: the end of the stream reads as 0x00,
\* which is no key (the process ends) and no 0x55 (the update counts); after
\* a reset nothing is ever read.
CutOff(m) ==
    /\ Turn(m, "cut") \/ Turn(m, "dropped")
    /\ \/ Abort(m) \/ Hang(m)
       \/ /\ job[m].pc = "cut" /\ NextServer(m)
          /\ UNCHANGED <<impl, running, secret, drawn, up, table, wire, banned, clean, login>>
       \/ /\ impl = "js" /\ running' = FALSE
          /\ UNCHANGED <<impl, secret, drawn, up, table, wire, banned, job, clean, login>>

Unanswered(m) ==
    /\ Turn(m, "lost")
    /\ \/ Hang(m)
       \/ /\ NextServer(m)
          /\ UNCHANGED <<impl, running, secret, drawn, up, table, wire, banned, clean, login>>

Confirmed(m) ==
    /\ Turn(m, "answered") /\ NextServer(m)
    /\ UNCHANGED <<impl, running, secret, drawn, up, table, wire, banned, clean, login>>

\* What the Java host changes at the end of its update (the mutant forgets).
Forgotten(m) == secret
StoreAtEnd(m) == IF impl = "java" THEN job[m].own ELSE secret

Finish(m) ==
    /\ running /\ job[m].pc = "dial" /\ job[m].next \notin Auths
    /\ To(m, IF m = Main THEN "over" ELSE "idle")
    /\ secret' = StoreAtEnd(m)
    /\ UNCHANGED <<impl, running, drawn, up, table, wire, banned, clean, login>>

-----------------------------------------------------------------------------
(* The authentication servers                                               *)

\* The answer to a stored secret: only the JavaScript host reads it.
Answer(m) == IF impl = "js" THEN To(m, "answered") ELSE UNCHANGED job

\* Auth.updateSecret, Auth.updateSecretConnection: each connection by itself.
Install(a) ==
    /\ up[a]
    /\ \E w \in wire[a] :
          /\ wire' = [wire EXCEPT ![a] = @ \ {w}]
          /\ table' = [table EXCEPT ![a] = w.sec]
          /\ Answer(w.by)
    /\ UNCHANGED <<impl, running, secret, drawn, up, banned, clean, login>>

Severed(m) ==
    CASE job[m].pc = "ask" -> "cut"
      [] job[m].pc = "ignored" -> "dropped"
      [] job[m].pc = "sent" -> "lost"
      [] OTHER -> job[m].pc

\* Secrets are kept in memory only: a server comes back with its first ones.
Crash(a) ==
    /\ a \in MayCrash /\ up[a]
    /\ up' = [up EXCEPT ![a] = FALSE] /\ table' = [table EXCEPT ![a] = 0]
    /\ wire' = [wire EXCEPT ![a] = {}] /\ banned' = [banned EXCEPT ![a] = FALSE]
    /\ job' = [m \in Managers |-> IF job[m].next = a THEN [job[m] EXCEPT !.pc = Severed(m)]
                                                     ELSE job[m]]
    /\ clean' = FALSE
    /\ UNCHANGED <<impl, running, secret, drawn, login>>

Restart(a) ==
    /\ ~up[a] /\ up' = [up EXCEPT ![a] = TRUE]
    /\ UNCHANGED <<impl, running, secret, drawn, table, wire, banned, job, clean, login>>

-----------------------------------------------------------------------------
(* Logins                                                                   *)

Reaches(u, a) ==
    /\ Open /\ login[u].stage = "new" /\ up[a]
    /\ ~(impl = "js" /\ banned[a] /\ u \in Near)

\* What the server puts into its hash: the secret it has for the host.
Claim(a) == table[a]

\* The user and the host are known, and the user's password was right.
Vouch(u, a) ==
    /\ Reaches(u, a) /\ a \in Known
    /\ login' = [login EXCEPT ![u] = [stage |-> "vouched", claim |-> Claim(a),
                                      calm |-> Quiet /\ clean]]
    /\ UNCHANGED <<impl, running, secret, drawn, up, table, wire, banned, job, clean>>

\* No such account, wrong password or no such host: the JavaScript server
\* banishes the address for a while.
Refuse(u, a) ==
    /\ Reaches(u, a)
    /\ login' = [login EXCEPT ![u].stage = "refused"]
    /\ banned' = [banned EXCEPT ![a] = @ \/ (impl = "js" /\ u \in Near)]
    /\ UNCHANGED <<impl, running, secret, drawn, up, table, wire, job, clean>>

Forgive(a) ==
    /\ banned[a] /\ banned' = [banned EXCEPT ![a] = FALSE]
    /\ UNCHANGED <<impl, running, secret, drawn, up, table, wire, job, clean, login>>

\* The host hashes the claim's parts with its own secret.
Check(u) ==
    /\ running /\ login[u].stage = "vouched"
    /\ login' = [login EXCEPT ![u].stage = IF login[u].claim = secret THEN "accepted"
                                                                     ELSE "rejected"]
    /\ UNCHANGED <<impl, running, secret, drawn, up, table, wire, banned, job, clean>>

-----------------------------------------------------------------------------
Update(m) ==
    \/ Dial(m) \/ Refused(m) \/ Deny(m) \/ Send(m) \/ CutOff(m)
    \/ Unanswered(m) \/ Confirmed(m) \/ Finish(m)

Idle == UNCHANGED vars

Next ==
    \/ \E m \in Managers : Begin(m) \/ Update(m)
    \/ \E a \in Auths : Install(a) \/ Crash(a) \/ Restart(a) \/ Forgive(a)
    \/ \E u \in Users : Check(u) \/ \E a \in Auths : Vouch(u, a) \/ Refuse(u, a)
    \/ Idle

Spec == Init /\ [][Next]_vars

\* The host's threads and the servers that run do what they can; servers need
\* not come back, and nobody need log in or ask for an update.
FairSpec ==
    /\ Spec
    /\ \A m \in Managers : WF_vars(Update(m))
    /\ \A a \in Auths : WF_vars(Install(a))

-----------------------------------------------------------------------------
Secrets == 0..MaxDraws

TypeOK ==
    /\ impl \in Impls /\ running \in BOOLEAN /\ clean \in BOOLEAN
    /\ secret \in Secrets /\ drawn \in Secrets
    /\ up \in [Auths -> BOOLEAN] /\ banned \in [Auths -> BOOLEAN]
    /\ table \in [Auths -> Secrets]
    /\ wire \in [Auths -> SUBSET [by : Managers, sec : Secrets]]
    /\ job \in [Managers ->
          [pc : {"idle", "dial", "ask", "ignored", "sent", "answered", "cut", "dropped",
                 "lost", "hung", "over"},
           own : Secrets, next : 1..(NumAuths + 1)]]
    /\ login \in [Users -> [stage : {"new", "vouched", "refused", "accepted", "rejected"},
                            claim : Secrets, calm : BOOLEAN]]

\* Whatever went wrong before, an update that runs alone and meets neither a
\* crash nor an exception leaves the host and every server that knows it with
\* the same secret, in both implementations.
Agreement == running /\ Quiet /\ clean => \A a \in Known : table[a] = secret

\* What the protocol takes for granted: when no update is under way, a server
\* that knows the host has the host's secret.  (It does not hold: two updates
\* of the Java host may reach a server in one order and end in the other.)
SettledAgreement == running /\ Quiet => \A a \in Known : table[a] = secret

\* A claim that a server made after such an update, and before the next one
\* began, is accepted whenever it arrives.
CalmLogins == \A u \in Users : login[u].calm => login[u].stage # "rejected"

\* A job that waits for nobody in particular ends: an update of the Java host
\* always does, by an answer or by an exception; one of the JavaScript host
\* does unless it waits for a server that refused, was reset or ignores it.
UpdateEnds ==
    \A m \in Managers :
        job[m].pc \in {"dial", "ask", "sent", "answered", "cut", "dropped", "lost"}
          ~> job[m].pc \in {"idle", "over", "hung", "ignored"} \/ ~running
=============================================================================

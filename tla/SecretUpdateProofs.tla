------------------------- MODULE SecretUpdateProofs -------------------------
(***************************************************************************)
(* Machine-checked proofs about SecretUpdate, for any number of servers,   *)
(* updates, crashes and logins, in both implementations of the host.       *)
(***************************************************************************)
EXTENDS SecretUpdate, TLAPS

Pcs == {"idle", "dial", "ask", "ignored", "sent", "answered", "cut", "dropped",
        "lost", "hung", "over"}
Jobs == [pc : Pcs, own : Secrets, next : 1..(NumAuths + 1)]
Messages == [by : Managers, sec : Secrets]

-----------------------------------------------------------------------------
(* Types                                                                    *)

\* What the steps of an update do to its job.
LEMMA JobMoves ==
    ASSUME TypeOK, NEW m \in Managers
    PROVE  /\ \A pc \in Pcs : To(m, pc) => job' \in [Managers -> Jobs]
           /\ job[m].next \in Auths /\ NextServer(m) => job' \in [Managers -> Jobs]
<1>1. job[m] \in Jobs /\ job \in [Managers -> Jobs]
  BY DEF TypeOK, Jobs, Pcs
<1>2. ASSUME NEW pc \in Pcs, To(m, pc) PROVE job' \in [Managers -> Jobs]
  <2>1. [job[m] EXCEPT !.pc = pc] \in Jobs
    BY <1>1 DEF Jobs
  <2> QED
    BY <1>1, <1>2, <2>1 DEF To
<1>3. ASSUME job[m].next \in Auths, NextServer(m) PROVE job' \in [Managers -> Jobs]
  <2>1. job[m].next + 1 \in 1..(NumAuths + 1)
    BY <1>3, ConstantsOK DEF Auths
  <2>2. [job[m] EXCEPT !.pc = "dial", !.next = @ + 1] \in Jobs
    BY <1>1, <2>1 DEF Jobs, Pcs
  <2> QED
    BY <1>1, <1>3, <2>2 DEF NextServer
<1> QED
  BY <1>2, <1>3

\* The host and the servers start with values of these types.
LEMMA TypeInit == Init => TypeOK
<1> SUFFICES ASSUME Init PROVE TypeOK
  OBVIOUS
<1>1. 0 \in Secrets /\ 1 \in Secrets /\ 1 \in 1..(NumAuths + 1)
  BY ConstantsOK DEF Secrets
<1>2. Job("dial", 1, 1) \in Jobs /\ Job("idle", 0, 1) \in Jobs
  BY <1>1 DEF Job, Jobs, Pcs
<1>3. job \in [Managers -> Jobs]
  BY <1>2 DEF Init
<1> QED
  BY <1>1, <1>3 DEF Init, TypeOK, Jobs, Pcs

\* Every step keeps the types.
LEMMA TypeStep == TypeOK /\ [Next]_vars => TypeOK'
<1> SUFFICES ASSUME TypeOK, [Next]_vars PROVE TypeOK'
  OBVIOUS
<1>0. job' \in [Managers -> Jobs] => job' \in
        [Managers -> [pc : {"idle", "dial", "ask", "ignored", "sent", "answered", "cut", "dropped",
                            "lost", "hung", "over"},
                      own : Secrets, next : 1..(NumAuths + 1)]]
  BY DEF Jobs, Pcs
<1> USE ConstantsOK
<1>1. ASSUME NEW m \in Managers, Begin(m) PROVE TypeOK'
  <2>1. drawn + 1 \in Secrets /\ StoreAtDraw(drawn + 1) \in Secrets
    BY <1>1 DEF Begin, TypeOK, Secrets, StoreAtDraw
  <2>2. Job("dial", drawn + 1, 1) \in Jobs
    BY <2>1 DEF Job, Jobs, Pcs
  <2>3. job' \in [Managers -> Jobs]
    BY <1>1, <2>2 DEF Begin, TypeOK, Jobs, Pcs
  <2>4. login' \in [Users -> [stage : {"new", "vouched", "refused", "accepted", "rejected"},
                              claim : Secrets, calm : BOOLEAN]]
    BY <1>1 DEF Begin, TypeOK
  <2>5. clean' \in BOOLEAN
    BY <1>1 DEF Begin, Quiet
  <2> QED
    BY <1>0, <1>1, <2>1, <2>3, <2>4, <2>5 DEF Begin, TypeOK
<1>2. ASSUME NEW m \in Managers, Dial(m) PROVE TypeOK'
  <2>1. job' \in [Managers -> Jobs]
    BY <1>2, JobMoves DEF Dial, Pcs
  <2> QED
    BY <1>0, <1>2, <2>1 DEF Dial, TypeOK
<1>3. ASSUME NEW m \in Managers, Abort(m) PROVE TypeOK'
  <2>1. job' \in [Managers -> Jobs]
    BY <1>3, JobMoves DEF Abort, Pcs
  <2> QED
    BY <1>0, <1>3, <2>1 DEF Abort, TypeOK
<1>4. ASSUME NEW m \in Managers, Hang(m) PROVE TypeOK'
  <2>1. job' \in [Managers -> Jobs]
    BY <1>4, JobMoves DEF Hang, Pcs
  <2> QED
    BY <1>0, <1>4, <2>1 DEF Hang, TypeOK
<1>5. ASSUME NEW m \in Managers, job[m].next \in Auths, NextServer(m),
             UNCHANGED <<impl, running, secret, drawn, up, table, wire, banned, clean, login>>
      PROVE  TypeOK'
  <2>1. job' \in [Managers -> Jobs]
    BY <1>5, JobMoves
  <2> QED
    BY <1>0, <1>5, <2>1 DEF TypeOK
<1>6. ASSUME NEW m \in Managers, Send(m) PROVE TypeOK'
  <2>1. job' \in [Managers -> Jobs]
    BY <1>6, JobMoves DEF Send, Turn, Pcs
  <2>2. Outgoing(m) \in Secrets
    BY DEF Outgoing, TypeOK
  <2>3. wire' \in [Auths -> SUBSET Messages]
    BY <1>6, <2>2 DEF Send, TypeOK, Messages
  <2> QED
    BY <1>0, <1>6, <2>1, <2>3 DEF Send, TypeOK, Messages
<1>7. ASSUME NEW m \in Managers, CutOff(m) PROVE TypeOK'
  <2>1. CASE Abort(m) \/ Hang(m)
    BY <1>3, <1>4, <2>1
  <2>2. CASE NextServer(m) /\ UNCHANGED <<impl, running, secret, drawn, up, table, wire, banned, clean, login>>
    BY <1>5, <1>7, <2>2 DEF CutOff, Turn
  <2>3. CASE running' = FALSE
             /\ UNCHANGED <<impl, secret, drawn, up, table, wire, banned, job, clean, login>>
    BY <2>3 DEF TypeOK
  <2> QED
    BY <1>7, <2>1, <2>2, <2>3 DEF CutOff
<1>8. ASSUME NEW m \in Managers, Finish(m) PROVE TypeOK'
  <2>1. job' \in [Managers -> Jobs]
    BY <1>8, JobMoves DEF Finish, Pcs
  <2>2. StoreAtEnd(m) \in Secrets
    BY DEF StoreAtEnd, TypeOK
  <2> QED
    BY <1>0, <1>8, <2>1, <2>2 DEF Finish, TypeOK
<1>9. ASSUME NEW m \in Managers, Update(m) PROVE TypeOK'
  BY <1>2, <1>3, <1>4, <1>5, <1>6, <1>7, <1>8, <1>9
  DEF Update, Refused, Deny, Unanswered, Confirmed, Turn
<1>10. ASSUME NEW a \in Auths, Install(a) PROVE TypeOK'
  <2>1. PICK w \in wire[a] :
          /\ wire' = [wire EXCEPT ![a] = @ \ {w}] /\ table' = [table EXCEPT ![a] = w.sec]
          /\ Answer(w.by)
    BY <1>10 DEF Install
  <2>2. w \in Messages
    BY <2>1 DEF TypeOK, Messages
  <2>3. job' \in [Managers -> Jobs]
    <3>1. CASE UNCHANGED job
      BY <3>1 DEF TypeOK, Jobs, Pcs
    <3>2. CASE To(w.by, "answered")
      BY <2>2, <3>2, JobMoves DEF Pcs, Messages
    <3> QED
      BY <2>1, <3>1, <3>2 DEF Answer
  <2>4. wire' \in [Auths -> SUBSET Messages]
    BY <2>1 DEF TypeOK, Messages
  <2>5. table' \in [Auths -> Secrets]
    BY <2>1, <2>2 DEF TypeOK, Messages
  <2> QED
    BY <1>0, <1>10, <2>3, <2>4, <2>5 DEF Install, TypeOK, Messages
<1>11. ASSUME NEW a \in Auths, Crash(a) PROVE TypeOK'
  <2>1. \A m \in Managers : Severed(m) \in Pcs
    BY DEF Severed, TypeOK, Pcs
  <2>2. \A m \in Managers : job[m] \in Jobs /\ [job[m] EXCEPT !.pc = Severed(m)] \in Jobs
    BY <2>1 DEF TypeOK, Jobs, Pcs
  <2>3. job' \in [Managers -> Jobs]
    BY <1>11, <2>2 DEF Crash
  <2>4. 0 \in Secrets
    BY DEF Secrets
  <2> QED
    BY <1>0, <1>11, <2>3, <2>4 DEF Crash, TypeOK
<1>12. ASSUME NEW a \in Auths, Restart(a) \/ Forgive(a) PROVE TypeOK'
  BY <1>12 DEF Restart, Forgive, TypeOK
<1>13. ASSUME NEW u \in Users, Check(u) PROVE TypeOK'
  BY <1>13 DEF Check, TypeOK
<1>14. ASSUME NEW u \in Users, NEW a \in Auths, Vouch(u, a) PROVE TypeOK'
  <2>1. Claim(a) \in Secrets /\ (Quiet /\ clean) \in BOOLEAN
    BY DEF Claim, TypeOK
  <2> QED
    BY <1>14, <2>1 DEF Vouch, TypeOK
<1>15. ASSUME NEW u \in Users, NEW a \in Auths, Refuse(u, a) PROVE TypeOK'
  <2>1. (banned[a] \/ (impl = "js" /\ u \in Near)) \in BOOLEAN
    OBVIOUS
  <2>2. banned' \in [Auths -> BOOLEAN]
    BY <1>15, <2>1 DEF Refuse, TypeOK
  <2>3. login' \in [Users -> [stage : {"new", "vouched", "refused", "accepted", "rejected"},
                              claim : Secrets, calm : BOOLEAN]]
    BY <1>15 DEF Refuse, TypeOK
  <2> QED
    BY <1>15, <2>2, <2>3 DEF Refuse, TypeOK
<1>16. CASE UNCHANGED vars
  BY <1>16 DEF TypeOK, vars
<1> QED
  BY <1>1, <1>9, <1>10, <1>11, <1>12, <1>13, <1>14, <1>15, <1>16 DEF Next, Idle

\* Every variable keeps its type: no update ever passes the last server, and no
\* secret is sent or stored that the host has not drawn.
THEOREM TypeCorrect == Spec => []TypeOK
BY TypeInit, TypeStep, PTL DEF Spec

-----------------------------------------------------------------------------
(* Agreement                                                                *)

Rest == {"idle", "over", "hung"}
Under == {"dial", "ask", "ignored", "sent", "answered"}

\* Servers that update m has passed have its secret, or will have stored it when
\* nothing is on its way to them.
Passed(m, a) == a < job[m].next \/ (a = job[m].next /\ job[m].pc = "answered")

\* Nothing but update m is under way.
Alone(m) ==
    /\ job[m].pc \in Under
    /\ \A n \in Managers : n # m => job[n].pc \in Rest
    /\ impl = "js" => secret = job[m].own
    /\ \A a \in Auths : \A w \in wire[a] :
          /\ w.sec = job[m].own
          /\ impl = "js" => w.by = m /\ job[m].pc = "sent" /\ a = job[m].next
    /\ \A a \in Known : wire[a] = {} /\ Passed(m, a) => table[a] = job[m].own

\* No update is under way, but secrets of the last one may be.
Settled ==
    /\ \A n \in Managers : job[n].pc \in Rest
    /\ \A a \in Auths : \A w \in wire[a] : w.sec = secret /\ impl # "js"
    /\ \A a \in Known : wire[a] = {} => table[a] = secret

\* What "clean" says of the update that began last.
CleanInv == clean => Settled \/ \E m \in Managers : Alone(m)

\* A login that was vouched for in calm holds the host's secret until the next
\* update begins.
CalmInv ==
    \A u \in Users :
        login[u].calm => Quiet /\ login[u].claim = secret /\ login[u].stage # "rejected"

AInv == TypeOK /\ CleanInv /\ CalmInv

\* The invariant says of a settled host what Agreement does.
LEMMA AgreementHolds == AInv => Agreement
<1> SUFFICES ASSUME AInv, running, Quiet, clean, NEW a \in Known PROVE table[a] = secret
  BY DEF Agreement
<1>1. a \in Auths /\ wire[a] = {}
  BY ConstantsOK DEF Quiet
<1>2. \A m \in Managers : ~ Alone(m)
  BY DEF Quiet, Alone, Under
<1> QED
  BY <1>1, <1>2 DEF AInv, CleanInv, Settled

\* An undisturbed update: every step of it keeps it alone, or settles it.
LEMMA CleanStep == AInv /\ [Next]_vars => CleanInv'
<1> SUFFICES ASSUME AInv, [Next]_vars, clean' PROVE Settled' \/ \E m \in Managers : Alone(m)'
  BY DEF CleanInv
<1>0. TypeOK /\ Known \subseteq Auths /\ Auths = 1..NumAuths /\ NumAuths \in Nat
  BY ConstantsOK DEF AInv, Auths
<1> USE <1>0
<1>1. ASSUME NEW m \in Managers, Begin(m) PROVE Alone(m)'
  <2>1. Quiet /\ job' = [job EXCEPT ![m] = Job("dial", drawn + 1, 1)]
        /\ secret' = StoreAtDraw(drawn + 1)
        /\ UNCHANGED <<impl, wire, table>>
    BY <1>1 DEF Begin
  <2>2. job'[m] = Job("dial", drawn + 1, 1) /\ \A n \in Managers : n # m => job'[n] = job[n]
    BY <2>1 DEF TypeOK
  <2>3. \A a \in Auths : ~ Passed(m, a)'
    BY <2>2 DEF Passed, Job, Auths
  <2>4. impl' = "js" => secret' = job'[m].own
    BY <2>1, <2>2 DEF Job, StoreAtDraw
  <2>5. \A a \in Auths : wire'[a] = {}
    BY <2>1 DEF Quiet
  <2>6. job'[m].pc \in Under /\ \A n \in Managers : n # m => job'[n].pc \in Rest
    BY <2>1, <2>2 DEF Job, Under, Rest, Quiet
  <2> QED
    BY <2>3, <2>4, <2>5, <2>6 DEF Alone
<1>2. ASSUME clean, NEW m \in Managers, Alone(m), NEW pc \in {"ask", "ignored"},
             To(m, pc), job[m].pc = "dial",
             UNCHANGED <<impl, secret, table, wire>>
      PROVE  Alone(m)'
  <2>1. job'[m].pc = pc /\ job'[m].own = job[m].own /\ job'[m].next = job[m].next
        /\ \A n \in Managers : n # m => job'[n] = job[n]
    BY <1>2 DEF To, TypeOK
  <2> QED
    BY <1>2, <2>1 DEF Alone, Under, Passed
<1>3. ASSUME clean, NEW m \in Managers, Alone(m), NextServer(m), job[m].next \in Auths,
             \/ job[m].pc = "answered"
             \/ job[m].pc = "ask" /\ job[m].next \notin Known,
             UNCHANGED <<impl, secret, table, wire>>
      PROVE  Alone(m)'
  <2>1. job'[m].pc = "dial" /\ job'[m].own = job[m].own /\ job'[m].next = job[m].next + 1
        /\ \A n \in Managers : n # m => job'[n] = job[n]
    BY <1>3 DEF NextServer, TypeOK
  <2>2. \A a \in Known : Passed(m, a)' => Passed(m, a)
    <3> TAKE a \in Known
    <3>1. Passed(m, a)' => a < job[m].next + 1
      BY <2>1 DEF Passed
    <3>2. a \in Nat /\ job[m].next \in Nat
      BY DEF TypeOK
    <3>3. a < job[m].next + 1 => a < job[m].next \/ a = job[m].next
      BY <3>2
    <3> QED
      BY <1>3, <3>1, <3>3 DEF Passed
  <2>3. \A a \in Auths : \A w \in wire'[a] : w.sec = job'[m].own /\ impl' # "js"
    BY <1>3, <2>1 DEF Alone
  <2> QED
    BY <1>3, <2>1, <2>2, <2>3 DEF Alone, Under
<1>4. ASSUME clean, NEW m \in Managers, Alone(m), Send(m) PROVE Alone(m)'
  <2> DEFINE b == job[m].next
             r == [by |-> m, sec |-> Outgoing(m)]
  <2>1. job[m].pc = "ask" /\ b \in Known /\ b \in Auths
        /\ wire' = [wire EXCEPT ![b] = @ \cup {r}] /\ UNCHANGED <<impl, secret, table>>
    BY <1>4 DEF Send, Turn
  <2>2. r.sec = job[m].own /\ r.by = m
    BY <1>4 DEF Outgoing, Alone
  <2>3. wire'[b] = wire[b] \cup {r} /\ \A a \in Auths : a # b => wire'[a] = wire[a]
    BY <2>1 DEF TypeOK
  <2>4. CASE impl = "js"
    <3>1. job'[m].pc = "sent" /\ job'[m].own = job[m].own /\ job'[m].next = b
          /\ \A n \in Managers : n # m => job'[n] = job[n]
      BY <1>4, <2>4 DEF Send, To, TypeOK
    <3>2. \A a \in Auths : wire[a] = {}
      BY <1>4, <2>1, <2>4 DEF Alone
    <3>3. \A a \in Auths : \A w \in wire'[a] : w = r /\ a = b
      BY <2>3, <3>2
    <3>4. \A a \in Known : Passed(m, a)' => Passed(m, a)
      <4>1. job'[m].pc # "answered" /\ job'[m].next = job[m].next
        BY <3>1
      <4>2. \A a \in Known : a \in Nat /\ job[m].next \in Nat
        BY DEF TypeOK
      <4> QED
        BY <4>1, <4>2 DEF Passed
    <3>5. \A a \in Known : wire'[a] = {} /\ Passed(m, a)' => table'[a] = job'[m].own
      BY <1>4, <2>1, <3>1, <3>2, <3>4 DEF Alone
    <3> HIDE DEF r, b
    <3> QED
      BY <1>4, <2>1, <2>2, <3>1, <3>3, <3>5 DEF Alone, Under
  <2>5. CASE impl # "js"
    <3>1. job'[m].pc = "dial" /\ job'[m].own = job[m].own /\ job'[m].next = b + 1
          /\ \A n \in Managers : n # m => job'[n] = job[n]
      BY <1>4, <2>1, <2>5 DEF Send, NextServer, TypeOK
    <3>2. \A a \in Auths : \A w \in wire'[a] : w.sec = job'[m].own
      <4> TAKE a \in Auths
      <4> TAKE w \in wire'[a]
      <4>1. w \in wire[a] \/ w = r
        BY <2>3
      <4> HIDE DEF r
      <4> QED
        BY <1>4, <2>2, <3>1, <4>1 DEF Alone
    <3>3. \A a \in Known : wire'[a] = {} /\ Passed(m, a)' => wire[a] = {} /\ Passed(m, a)
      <4> TAKE a \in Known
      <4>1. a = b => wire'[a] # {}
        BY <2>3
      <4>2. a # b /\ Passed(m, a)' => Passed(m, a)
        BY <2>1, <3>1 DEF Passed, Auths
      <4>3. a # b => wire'[a] = wire[a]
        BY <2>3
      <4> QED
        BY <4>1, <4>2, <4>3
    <3> HIDE DEF r, b
    <3> QED
      BY <1>4, <2>1, <2>5, <3>1, <3>2, <3>3 DEF Alone, Under
  <2> QED
    BY <2>4, <2>5
<1>5. ASSUME clean, NEW m \in Managers, Alone(m), Finish(m) PROVE Settled'
  <2>1. \A n \in Managers : job'[n].pc \in Rest
    BY <1>5 DEF Finish, To, TypeOK, Alone, Rest
  <2>2. secret' = job[m].own
    BY <1>5, ConstantsOK DEF Finish, StoreAtEnd, Alone, TypeOK
  <2>3. \A a \in Known : Passed(m, a)
    <3>1. job[m].next \in 1..(NumAuths + 1) /\ job[m].next \notin Auths
      BY <1>5 DEF Finish, TypeOK
    <3> QED
      BY <3>1 DEF Passed, Auths
  <2>4. UNCHANGED <<impl, wire, table>> /\ job[m].pc = "dial"
    BY <1>5 DEF Finish
  <2> QED
    BY <1>5, <2>1, <2>2, <2>3, <2>4 DEF Settled, Alone
<1>6. ASSUME clean, Settled, UNCHANGED <<impl, secret, table, wire, job>> PROVE Settled'
  BY <1>6 DEF Settled
<1>7. ASSUME clean, NEW m \in Managers, Alone(m), UNCHANGED <<impl, secret, table, wire, job>>
      PROVE  Alone(m)'
  BY <1>7 DEF Alone, Passed
<1>8. clean => Settled \/ \E m \in Managers : Alone(m)
  BY DEF AInv, CleanInv
<1>9. ASSUME NEW m \in Managers, Update(m) PROVE Settled' \/ \E n \in Managers : Alone(n)'
  <2>1. clean /\ (job[m].pc \in Under => Alone(m)) /\ job[m].pc \in Under \cup Rest
        /\ (job[m].pc \notin Under => Settled \/ \E n \in Managers : Alone(n))
    <3>1. clean
      BY <1>9 DEF Update, Dial, Refused, Deny, Send, CutOff, Unanswered, Confirmed, Finish, Abort, Hang
    <3>2. CASE Settled
      BY <3>1, <3>2 DEF Settled, Under, Rest
    <3>3. ASSUME NEW n \in Managers, Alone(n)
          PROVE  (job[m].pc \in Under => Alone(m)) /\ job[m].pc \in Under \cup Rest
      BY <3>3 DEF Alone, Under, Rest
    <3> QED
      BY <1>8, <3>1, <3>2, <3>3
  <2>2. CASE Dial(m)
    <3>1. job[m].pc = "dial" /\ UNCHANGED <<impl, secret, table, wire>>
          /\ \E pc \in {"ask", "ignored"} : To(m, pc)
      BY <2>2 DEF Dial, Turn
    <3> QED
      BY <1>2, <2>1, <3>1 DEF Under
  <2>3. CASE Deny(m) \/ Confirmed(m)
    BY <1>3, <2>1, <2>3 DEF Deny, Confirmed, Turn, Under
  <2>4. CASE Send(m)
    BY <1>4, <2>1, <2>4 DEF Send, Turn, Under
  <2>5. CASE Finish(m)
    BY <1>5, <2>1, <2>5 DEF Finish, Under
  <2>6. CASE Refused(m)
    BY <2>6 DEF Refused, Abort, Hang
  <2>7. CASE CutOff(m) \/ Unanswered(m)
    BY <2>1, <2>7 DEF CutOff, Unanswered, Turn, Under, Rest
  <2> QED
    BY <1>9, <2>2, <2>3, <2>4, <2>5, <2>6, <2>7 DEF Update
<1>10. ASSUME NEW a \in Auths, Install(a) PROVE Settled' \/ \E m \in Managers : Alone(m)'
  <2>1. PICK w \in wire[a] :
          /\ wire' = [wire EXCEPT ![a] = @ \ {w}] /\ table' = [table EXCEPT ![a] = w.sec]
          /\ Answer(w.by)
    BY <1>10 DEF Install
  <2>2. clean /\ UNCHANGED <<impl, secret>>
    BY <1>10 DEF Install
  <2>3. /\ \A b \in Auths : wire'[b] \subseteq wire[b] /\ (b # a => wire'[b] = wire[b])
        /\ table'[a] = w.sec /\ \A b \in Auths : b # a => table'[b] = table[b]
    BY <2>1 DEF TypeOK
  <2>4. CASE Settled
    <3>1. impl # "js" /\ w.sec = secret
      BY <2>1, <2>4 DEF Settled
    <3>2. UNCHANGED job
      BY <2>1, <3>1 DEF Answer
    <3>3. \A b \in Known : wire'[b] = {} => table'[b] = secret
      BY <2>3, <2>4, <3>1 DEF Settled
    <3> QED
      BY <2>2, <2>3, <2>4, <3>1, <3>2, <3>3 DEF Settled
  <2>5. ASSUME NEW m \in Managers, Alone(m) PROVE Alone(m)'
    <3>1. w.sec = job[m].own
      BY <2>1, <2>5 DEF Alone
    <3>2. CASE impl # "js"
      <4>1. UNCHANGED job
        BY <2>1, <3>2 DEF Answer
      <4>2. \A b \in Known : wire'[b] = {} /\ Passed(m, b) => table'[b] = job[m].own
        BY <2>3, <2>5, <3>1 DEF Alone
      <4>3. \A b \in Known : Passed(m, b)' <=> Passed(m, b)
        BY <4>1 DEF Passed
      <4> QED
        BY <2>2, <2>3, <2>5, <3>2, <4>1, <4>2, <4>3 DEF Alone
    <3>3. CASE impl = "js"
      <4>1. w.by = m /\ job[m].pc = "sent" /\ a = job[m].next
        BY <2>1, <2>5, <3>3 DEF Alone
      <4>2. job'[m].pc = "answered" /\ job'[m].own = job[m].own /\ job'[m].next = a
            /\ \A n \in Managers : n # m => job'[n] = job[n]
        BY <2>1, <3>3, <4>1 DEF Answer, To, TypeOK
      <4>3. \A b \in Auths : b # a => wire[b] = {}
        BY <2>5, <3>3, <4>1 DEF Alone
      <4>4. \A b \in Known : wire'[b] = {} /\ Passed(m, b)' => table'[b] = job'[m].own
        <5> TAKE b \in Known
        <5>1. b # a /\ Passed(m, b)' => Passed(m, b)
          BY <4>1, <4>2 DEF Passed
        <5> QED
          BY <2>3, <2>5, <3>1, <4>2, <4>3, <5>1 DEF Alone
      <4>5. \A b \in Auths : wire'[b] = {}
        <5>1. \A v \in wire[a] : v = w
          <6> TAKE v \in wire[a]
          <6>1. v \in Messages /\ w \in Messages
            BY <2>1 DEF TypeOK, Messages
          <6>2. v.sec = w.sec /\ v.by = w.by
            BY <2>5, <3>1, <3>3, <4>1 DEF Alone
          <6> QED
            BY <6>1, <6>2 DEF Messages
        <5>2. wire'[a] = {}
          BY <2>1, <5>1 DEF TypeOK
        <5> QED
          BY <2>3, <4>3, <5>2
      <4> QED
        BY <2>2, <2>5, <4>2, <4>4, <4>5 DEF Alone, Under
    <3> QED
      BY <3>2, <3>3
  <2> QED
    BY <1>8, <2>2, <2>4, <2>5
<1>11. ASSUME UNCHANGED <<clean, impl, secret, table, wire, job>>
       PROVE  Settled' \/ \E m \in Managers : Alone(m)'
  BY <1>6, <1>7, <1>8, <1>11
<1>12. ASSUME NEW a \in Auths, Crash(a) PROVE FALSE
  BY <1>12 DEF Crash
<1>13. ASSUME NEW a \in Auths, Restart(a) \/ Forgive(a)
       PROVE  UNCHANGED <<clean, impl, secret, table, wire, job>>
  BY <1>13 DEF Restart, Forgive
<1>14. ASSUME NEW u \in Users, Check(u) \/ \E a \in Auths : Vouch(u, a) \/ Refuse(u, a)
       PROVE  UNCHANGED <<clean, impl, secret, table, wire, job>>
  BY <1>14 DEF Check, Vouch, Refuse
<1>15. CASE UNCHANGED vars
  BY <1>11, <1>15 DEF vars
<1> QED
  BY <1>1, <1>9, <1>10, <1>11, <1>12, <1>13, <1>14, <1>15 DEF Next, Idle

\* Nothing but a new update ends the quiet, or changes the host's secret in it.
LEMMA QuietStep ==
    ASSUME TypeOK, Quiet, Next, \A m \in Managers : ~ Begin(m)
    PROVE  Quiet' /\ secret' = secret
<1>1. ASSUME NEW m \in Managers PROVE ~ Update(m)
  BY DEF Quiet, Update, Turn, Dial, Refused, Deny, Send, CutOff, Unanswered, Confirmed, Finish
<1>2. ASSUME NEW a \in Auths PROVE ~ Install(a)
  BY DEF Quiet, Install
<1>3. ASSUME UNCHANGED <<job, wire, secret>> PROVE Quiet' /\ secret' = secret
  BY <1>3 DEF Quiet
<1>4. ASSUME NEW a \in Auths, Crash(a) PROVE Quiet' /\ secret' = secret
  <2>1. \A m \in Managers : Severed(m) = job[m].pc
    BY DEF Quiet, Severed
  <2>2. \A m \in Managers : job'[m].pc = job[m].pc
    BY <1>4, <2>1 DEF Crash, TypeOK
  <2>3. \A b \in Auths : wire'[b] = {}
    BY <1>4 DEF Crash, Quiet, TypeOK
  <2> QED
    BY <1>4, <2>2, <2>3 DEF Crash, Quiet
<1>5. ASSUME NEW a \in Auths, Restart(a) \/ Forgive(a) PROVE UNCHANGED <<job, wire, secret>>
  BY <1>5 DEF Restart, Forgive
<1>6. ASSUME NEW u \in Users, Check(u) \/ \E a \in Auths : Vouch(u, a) \/ Refuse(u, a)
      PROVE  UNCHANGED <<job, wire, secret>>
  BY <1>6 DEF Check, Vouch, Refuse
<1>7. Idle => UNCHANGED <<job, wire, secret>>
  BY DEF Idle, vars
<1> QED
  BY <1>1, <1>2, <1>3, <1>4, <1>5, <1>6, <1>7 DEF Next

\* Every step keeps what is known of calm logins.
LEMMA CalmStep == AInv /\ [Next]_vars => CalmInv'
<1> SUFFICES ASSUME AInv, [Next]_vars, NEW u \in Users, login'[u].calm
             PROVE  Quiet' /\ login'[u].claim = secret' /\ login'[u].stage # "rejected"
  BY DEF CalmInv
<1>0. TypeOK /\ Agreement
      /\ (login[u].calm => Quiet /\ login[u].claim = secret /\ login[u].stage # "rejected")
  BY AgreementHolds DEF AInv, CalmInv
<1>1. CASE UNCHANGED vars
  BY <1>0, <1>1 DEF vars, Quiet
<1>2. ASSUME NEW m \in Managers PROVE ~ Begin(m)
  BY <1>0 DEF Begin, TypeOK
<1>3. ASSUME Next, Quiet PROVE Quiet' /\ secret' = secret
  BY <1>0, <1>2, <1>3, QuietStep
<1>4. CASE Next /\ login'[u] = login[u]
  BY <1>0, <1>3, <1>4
<1>5. ASSUME NEW v \in Users, NEW a \in Auths, Vouch(v, a), Next, login'[u] # login[u]
      PROVE  Quiet' /\ login'[u].claim = secret' /\ login'[u].stage # "rejected"
  <2>1. u = v /\ login'[u] = [stage |-> "vouched", claim |-> table[a], calm |-> Quiet /\ clean]
    BY <1>0, <1>5 DEF Vouch, Claim, TypeOK
  <2>2. Quiet /\ clean
    <3> SUFFICES ASSUME ~ (Quiet /\ clean) PROVE FALSE
      OBVIOUS
    <3>1. (Quiet /\ clean) = FALSE
      OBVIOUS
    <3>2. login'[u] = [stage |-> "vouched", claim |-> table[a], calm |-> FALSE]
      BY <2>1, <3>1
    <3> QED
      BY <3>2
  <2>3. table[a] = secret
    BY <1>0, <1>5, <2>2 DEF Agreement, Vouch, Reaches, Open
  <2> QED
    BY <1>3, <1>5, <2>1, <2>2, <2>3
<1>6. ASSUME NEW v \in Users, NEW a \in Auths, Refuse(v, a), Next, login'[u] # login[u]
      PROVE  Quiet' /\ login'[u].claim = secret' /\ login'[u].stage # "rejected"
  <2>1. login' = [login EXCEPT ![v].stage = "refused"]
    BY <1>6 DEF Refuse
  <2>2. login \in [Users -> [stage : {"new", "vouched", "refused", "accepted", "rejected"},
                             claim : Secrets, calm : BOOLEAN]]
    BY <1>0 DEF TypeOK
  <2>3. u = v
    BY <1>6, <2>1, <2>2
  <2>4. login'[u].stage = "refused" /\ login'[u].claim = login[u].claim
        /\ login'[u].calm = login[u].calm
    BY <2>1, <2>2, <2>3
  <2> QED
    BY <1>0, <1>3, <1>6, <2>4
<1>7. ASSUME NEW v \in Users, Check(v), Next, login'[u] # login[u]
      PROVE  Quiet' /\ login'[u].claim = secret' /\ login'[u].stage # "rejected"
  <2>1. u = v
    BY <1>0, <1>7 DEF Check, TypeOK
  <2>2. login'[u] = [login[u] EXCEPT !.stage = IF login[u].claim = secret THEN "accepted"
                                                                      ELSE "rejected"]
    BY <1>0, <1>7, <2>1 DEF Check, TypeOK
  <2>3. login'[u].claim = login[u].claim /\ login'[u].calm = login[u].calm
        /\ (login[u].claim = secret => login'[u].stage = "accepted")
    BY <1>0, <2>2 DEF TypeOK
  <2> QED
    BY <1>0, <1>3, <1>7, <2>3
<1>8. ASSUME Next, login'[u] # login[u]
      PROVE  \E v \in Users : Check(v) \/ \E a \in Auths : Vouch(v, a) \/ Refuse(v, a)
  <2>1. ASSUME NEW m \in Managers, Update(m) PROVE login' = login
    BY <2>1 DEF Update, Dial, Refused, Deny, Send, CutOff, Unanswered, Confirmed, Finish,
                Abort, Hang
  <2>2. ASSUME NEW a \in Auths, Install(a) \/ Crash(a) \/ Restart(a) \/ Forgive(a)
        PROVE  login' = login
    BY <2>2 DEF Install, Crash, Restart, Forgive
  <2>3. Idle => login' = login
    BY DEF Idle, vars
  <2> QED
    BY <1>2, <1>8, <2>1, <2>2, <2>3 DEF Next
<1> QED
  BY <1>1, <1>4, <1>5, <1>6, <1>7, <1>8

\* No update is at work at the start.
LEMMA AgreementInit == Init => AInv
<1> SUFFICES ASSUME Init PROVE CleanInv /\ CalmInv
  BY TypeInit DEF AInv
<1>1. Alone(Main)
  <2>1. Main \in Managers /\ NumAuths \in Nat /\ Known \subseteq Auths
    BY ConstantsOK
  <2>2. job[Main] = Job("dial", 1, 1)
        /\ \A n \in Managers : n # Main => job[n] = Job("idle", 0, 1)
    BY <2>1 DEF Init
  <2>3. \A a \in Known : ~ Passed(Main, a)
    BY <2>1, <2>2 DEF Passed, Job, Auths
  <2>4. \A a \in Auths : wire[a] = {}
    BY DEF Init
  <2>5. impl = "js" => secret = 1
    BY DEF Init
  <2> QED
    BY <2>2, <2>3, <2>4, <2>5 DEF Alone, Job, Under, Rest
<1>2. \A u \in Users : ~ login[u].calm
  BY DEF Init
<1> QED
  BY <1>1, <1>2, ConstantsOK DEF CleanInv, CalmInv

\* The invariant holds for ever.
LEMMA AgreementAlways == Spec => []AInv
<1>1. AInv /\ [Next]_vars => AInv'
  BY TypeStep, CleanStep, CalmStep DEF AInv
<1> QED
  BY <1>1, AgreementInit, PTL DEF Spec

\* Agreement for any number of servers, managers, draws and crashes: an update
\* that ran alone and undisturbed leaves the host and all servers that know it
\* with one secret (Host.regenerateSecret, ConnectedPlayer.updateSecret).
THEOREM ServersAgree == Spec => []Agreement
BY AgreementAlways, AgreementHolds, PTL

\* A claim made after such an update is accepted until the next one begins.
THEOREM CalmAccepted == Spec => []CalmLogins
<1>1. AInv => CalmLogins
  BY DEF AInv, CalmInv, CalmLogins
<1> QED
  BY <1>1, AgreementAlways, PTL
=============================================================================

--------------------------- MODULE ManagementLoop ---------------------------
(***************************************************************************)
(* Management connections of a JavaScript server, game host or             *)
(* authentication server, once the keys are exchanged: the loop that       *)
(* serves each connection (Host.socketManagementLoop, Auth.manConnection), *)
(* the policies all of them share, the cipher at each end, whose one       *)
(* keystream position counts what is written and what is read, and the     *)
(* reader's answer to the end of a stream, a zero byte.                    *)
(*                                                                         *)
(* Clients are the management page (manage.js), which lists the policies   *)
(* and may close its panel while the list is on its way, and others that   *)
(* follow the protocol to read and set a policy.                           *)
(***************************************************************************)
EXTENDS Naturals, Sequences

CONSTANTS
    Kinds,        \* the servers considered, among "host" and "auth"
    Clients,      \* connections
    NumPolicies,  \* the policies are numbered from 0
    MaxValue,     \* values are numbered from 0, which false and 0 stand for
    MaxRequests   \* bound: requests a client makes after the list

Policies == 0..(NumPolicies - 1)
Values == 0..MaxValue
NoPolicy == NumPolicies   \* an ID no policy has

ASSUME ConstantsOK ==
    /\ Kinds \subseteq {"host", "auth"}
    /\ NumPolicies \in Nat \ {0} /\ MaxValue \in Nat /\ MaxRequests \in Nat

VARIABLES
    kind, up,        \* which server this is, and whether it runs
    policies,        \* server_policies, shared by all connections
    srv,             \* where the loop of each connection is, and its policy
    sKey, cKey,      \* keystream positions of the two ends
    toSrv, toCli,    \* what is under way: values and the positions used for them
    cli,             \* where each client is, its policy, its requests so far
    asked,           \* history: the values clients asked for
    hasty            \* history: clients that closed while the list was under way

vars == <<kind, up, policies, srv, sKey, cKey, toSrv, toCli, cli, asked, hasty>>
serverVars == <<kind, up, policies, srv, sKey>>
clientVars == <<cKey, cli, asked, hasty>>

-----------------------------------------------------------------------------
Init ==
    /\ kind \in Kinds /\ up = TRUE
    /\ policies = [p \in Policies |-> MaxValue]
    /\ srv = [c \in Clients |-> [pc |-> "op", policy |-> NoPolicy]]
    /\ sKey = [c \in Clients |-> 0] /\ cKey = [c \in Clients |-> 0]
    /\ toSrv = [c \in Clients |-> <<>>] /\ toCli = [c \in Clients |-> <<>>]
    /\ cli = [c \in Clients |-> [pc |-> "away", policy |-> NoPolicy, left |-> MaxRequests]]
    /\ asked = {} /\ hasty = {}

\* Values written in this order from a position on.
Crypted(values, at) == [i \in DOMAIN values |-> [at |-> at + i - 1, val |-> values[i]]]

\* How far reading one value moves the position (the mutant forgets to, as
\* Sec.crypt(byte) does).
Fixed == 0
Advance == 1

\* What is written in one piece is a sequence of numbers.
Number(n) == <<n>>
Yes == Number(99)   \* 0x63
No == Number(85)    \* 0x55
Other == Number(255)
Op(n) == Number(n)

-----------------------------------------------------------------------------
(* The server                                                               *)

Ended(c) == cli[c].pc = "left" /\ toSrv[c] = <<>>

\* What read resolves to at the end of a stream (the mutant: what it does in Java).
Minus1 == Other
Default == Number(0)

\* The values the next read may resolve to: what was written if both ends are
\* in step, anything if they are not.
Readable(c, any) ==
    IF Ended(c) THEN {Default}
    ELSE IF toSrv[c] = <<>> THEN {}
    ELSE IF Head(toSrv[c]).at = sKey[c] THEN {Head(toSrv[c]).val} ELSE any

\* One turn of a loop: a value is read, answers are written, the loop goes on.
\* Nothing is decrypted at the end of a stream, and writing after it throws,
\* which ends the process.
Turn(c, answers, pc, policy) ==
    LET at == IF Ended(c) THEN sKey[c] ELSE sKey[c] + Advance IN
    /\ toSrv' = [toSrv EXCEPT ![c] = IF Ended(c) THEN @ ELSE Tail(@)]
    /\ toCli' = [toCli EXCEPT ![c] = @ \o Crypted(answers, at)]
    /\ sKey' = [sKey EXCEPT ![c] = at + Len(answers)]
    /\ srv' = [srv EXCEPT ![c] = [pc |-> pc, policy |-> policy]]
    /\ up' = (Ended(c) => answers = <<>>)
    /\ UNCHANGED kind /\ UNCHANGED clientVars

At(c, pc) == up /\ cli[c].pc # "away" /\ srv[c].pc = pc

Quit(c) ==
    /\ At(c, "op") /\ Op(0) \in Readable(c, {Op(0)})
    /\ Turn(c, <<>>, "closed", NoPolicy) /\ UNCHANGED policies

PolicyOp(c) ==
    /\ At(c, "op") /\ Op(1) \in Readable(c, {Op(1)})
    /\ Turn(c, <<>>, "policy", NoPolicy) /\ UNCHANGED policies

\* Host: new secret.  Authentication server: new account.
OwnOp(c) ==
    /\ At(c, "op") /\ Op(2) \in Readable(c, {Op(2)})
    /\ Turn(c, <<>>, IF kind = "host" THEN "update" ELSE "account", NoPolicy)
    /\ UNCHANGED policies

\* What leaves the socket of a bundle, which ends with flush (the mutant has
\* no flush).
Unflushed(bundle) == <<>>
Flushed(bundle) == <<bundle>>

\* All the policies, in their order.
Listing == [i \in 1..NumPolicies |-> policies[i - 1]]

ListOp(c) ==
    /\ At(c, "op") /\ Op(3) \in Readable(c, {Op(3)})
    /\ Turn(c, Flushed(Listing), "op", NoPolicy)
    /\ UNCHANGED policies

\* The authentication server says so, the host ignores it.
UnknownOp(c) ==
    /\ At(c, "op") /\ Other \in Readable(c, {Other})
    /\ Turn(c, IF kind = "auth" THEN <<Other>> ELSE <<>>, "op", NoPolicy)
    /\ UNCHANGED policies

\* regenerateSecret has come back; its answer throws if the client has gone.
UpdateDone(c) ==
    /\ At(c, "update") /\ srv' = [srv EXCEPT ![c].pc = "op"]
    /\ up' = ~Ended(c)
    /\ toCli' = [toCli EXCEPT ![c] = @ \o Crypted(<<Yes>>, sKey[c])]
    /\ sKey' = [sKey EXCEPT ![c] = @ + 1]
    /\ UNCHANGED <<kind, policies, toSrv>> /\ UNCHANGED clientVars

\* The 72 bytes of an account: no client sends them, and only the end of the
\* stream lets the loop go on, to an answer that throws.
Account(c) ==
    /\ At(c, "account") /\ Ended(c)
    /\ Turn(c, <<Yes>>, "op", NoPolicy) /\ UNCHANGED policies

\* (The mutant lets every ID pass.)
AnyID(p) == TRUE
Found(p) == p \in Policies

FindPolicy(c) ==
    /\ At(c, "policy")
    /\ \E p \in Policies \cup {NoPolicy} :
          /\ Number(p) \in Readable(c, {Number(p)})
          /\ IF Found(p) THEN Turn(c, <<Yes>>, "mode", p) ELSE Turn(c, <<No>>, "op", NoPolicy)
    /\ UNCHANGED policies

\* GET is 0x01; all else is SET (the mutant has them the other way round).
IsNotGet(v) == v # Op(1)
IsGet(v) == v = Op(1)

GetPolicy(c) ==
    /\ At(c, "mode") /\ \E v \in Readable(c, {Op(1)}) : IsGet(v)
    /\ Turn(c, Flushed(Number(policies[srv[c].policy])), "op", NoPolicy) /\ UNCHANGED policies

SetMode(c) ==
    /\ At(c, "mode") /\ \E v \in Readable(c, {Op(2)}) : ~IsGet(v)
    /\ Turn(c, <<>>, "value", srv[c].policy) /\ UNCHANGED policies

\* 0x02 is true, 0x01 is false (the mutant swaps them).
Swapped(v) == MaxValue - v
Decoded(v) == v

\* A value read at the end of the stream is set, too, before the answer throws.
SetPolicy(c) ==
    /\ At(c, "value")
    /\ \E v \in Values :
          /\ Number(v) \in Readable(c, {Number(v)})
          /\ policies' = [policies EXCEPT ![srv[c].policy] = Decoded(v)]
    /\ Turn(c, <<Yes>>, "op", NoPolicy)

\* Nobody listens to the errors of a connection: the process ends when one is
\* reset.
Reset(c) ==
    /\ up /\ cli[c].pc # "away" /\ up' = FALSE
    /\ UNCHANGED <<kind, policies, srv, sKey, toSrv, toCli>> /\ UNCHANGED clientVars

-----------------------------------------------------------------------------
(* The clients                                                              *)

\* What a client does next, having read an answer or not.
Say(c, read, values, pc, policy) ==
    LET at == IF read THEN cKey[c] + 1 ELSE cKey[c] IN
    /\ read => toCli[c] # <<>> /\ Head(toCli[c]).at = cKey[c]
    /\ toCli' = [toCli EXCEPT ![c] = IF read THEN Tail(@) ELSE @]
    /\ toSrv' = [toSrv EXCEPT ![c] = @ \o Crypted(values, at)]
    /\ cKey' = [cKey EXCEPT ![c] = at + Len(values)]
    /\ cli' = [cli EXCEPT ![c].pc = pc, ![c].policy = policy,
                          ![c].left = IF pc \in {"asked", "update"} THEN @ - 1 ELSE @]
    /\ UNCHANGED serverVars

\* The page asks for the list as soon as it has a key.
Open(c) ==
    /\ up /\ cli[c].pc = "away" /\ Say(c, FALSE, <<Op(3)>>, "list", NoPolicy)
    /\ UNCHANGED <<asked, hasty>>

ListShown(c) ==
    /\ cli[c].pc = "list" /\ Say(c, TRUE, <<>>, "idle", NoPolicy)
    /\ UNCHANGED <<asked, hasty>>

Ask(c) ==
    /\ cli[c].pc = "idle" /\ cli[c].left > 0
    /\ \/ \E p \in Policies \cup {NoPolicy} : Say(c, FALSE, <<Op(1), Number(p)>>, "asked", p)
       \/ kind = "host" /\ Say(c, FALSE, <<Op(2)>>, "update", NoPolicy)
    /\ UNCHANGED <<asked, hasty>>

\* The server knows the policy: the client reads it or sets it.
Choose(c) ==
    /\ cli[c].pc = "asked" /\ toCli[c] # <<>> /\ Head(toCli[c]).val = Yes
    /\ \/ Say(c, TRUE, <<Op(1)>>, "sent", NoPolicy) /\ UNCHANGED asked
       \/ \E v \in Values :
             /\ Say(c, TRUE, <<Op(2), Number(v)>>, "sent", NoPolicy)
             /\ asked' = asked \cup {<<cli[c].policy, v>>}
    /\ UNCHANGED hasty

Done(c) ==
    /\ \/ cli[c].pc \in {"sent", "update"}
       \/ cli[c].pc = "asked" /\ toCli[c] # <<>> /\ Head(toCli[c]).val # Yes
    /\ Say(c, TRUE, <<>>, "idle", NoPolicy)
    /\ UNCHANGED <<asked, hasty>>

\* The page's panel can be closed at any time, also while it waits for the list.
ClosePanel(c) ==
    /\ cli[c].pc \in {"list", "idle"} /\ Say(c, FALSE, <<Op(0)>>, "closed", NoPolicy)
    /\ hasty' = IF cli[c].pc = "list" THEN hasty \cup {c} ELSE hasty
    /\ UNCHANGED asked

\* The client's process ends, in whatever it was doing.
Leave(c) ==
    /\ cli[c].pc \notin {"away", "left"} /\ cli' = [cli EXCEPT ![c].pc = "left"]
    /\ UNCHANGED <<serverVars, cKey, toSrv, toCli, asked, hasty>>

-----------------------------------------------------------------------------
Serve(c) ==
    \/ Quit(c) \/ PolicyOp(c) \/ OwnOp(c) \/ ListOp(c) \/ UnknownOp(c) \/ Account(c)
    \/ FindPolicy(c) \/ GetPolicy(c) \/ SetMode(c) \/ SetPolicy(c)

Act(c) ==
    \/ Open(c) \/ ListShown(c) \/ Ask(c) \/ Choose(c) \/ Done(c)
    \/ ClosePanel(c) \/ Leave(c)

Next == \E c \in Clients : Serve(c) \/ UpdateDone(c) \/ Reset(c) \/ Act(c)

Spec == Init /\ [][Next]_vars

\* The server's event loop comes round to every connection.  Clients and the
\* secret's update need not go on.
FairSpec == Spec /\ \A c \in Clients : WF_vars(Serve(c))

-----------------------------------------------------------------------------
TypeOK ==
    /\ kind \in Kinds /\ up \in BOOLEAN
    /\ policies \in [Policies -> Values]
    /\ srv \in [Clients ->
          [pc : {"op", "policy", "mode", "value", "update", "account", "closed"},
           policy : Policies \cup {NoPolicy}]]
    /\ \A c \in Clients : srv[c].pc \in {"mode", "value"} => srv[c].policy \in Policies
    /\ sKey \in [Clients -> Nat] /\ cKey \in [Clients -> Nat]
    /\ cli \in [Clients ->
          [pc : {"away", "list", "idle", "asked", "sent", "update", "closed", "left"},
           policy : Policies \cup {NoPolicy}, left : 0..MaxRequests]]
    /\ asked \subseteq Policies \X Values /\ hasty \subseteq Clients

\* Each value on its way will be read at the position it was written at,
\* in both directions, unless the panel was closed while the list was under
\* way: the one counter at each end then counts in different orders.
InStep ==
    \A c \in Clients \ hasty :
        /\ \A i \in DOMAIN toSrv[c] : toSrv[c][i].at = sKey[c] + i - 1
        /\ \A i \in DOMAIN toCli[c] : toCli[c][i].at = cKey[c] + i - 1

Chosen(p) == {MaxValue} \cup {v \in Values : <<p, v>> \in asked}

\* Whatever other clients do, and whoever is out of step or gone in the middle
\* of a request, a policy of a running server has a value some client chose for
\* it: what the end of a stream sets is gone with the process before it is read.
OnlyChosen == up => \A p \in Policies : policies[p] \in Chosen(p)

\* What the protocol says of 0x00.  (It does not hold: the byte is read at
\* another position if the list was under way, and taken for any other.)
CloseIsHeard ==
    \A c \in Clients :
        up /\ cli[c].pc = "closed" /\ toSrv[c] = <<>> => srv[c].pc = "closed"

\* A client in step that waits for the list, for a policy or for a SET is answered.
Answered ==
    \A c \in Clients : \A pc \in {"list", "asked", "sent"} :
        cli[c].pc = pc ~> cli[c].pc # pc \/ toCli[c] # <<>> \/ ~up

\* When a client has gone, whatever it left behind, in step or not, the loop
\* that served it ends, unless it waits for the update of the host's secret.
LoopsEnd ==
    \A c \in Clients :
        cli[c].pc = "left" ~> srv[c].pc \in {"closed", "update"} \/ ~up
=============================================================================

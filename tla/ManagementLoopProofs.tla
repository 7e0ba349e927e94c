------------------------ MODULE ManagementLoopProofs ------------------------
(***************************************************************************)
(* Machine-checked proofs about ManagementLoop, for any number of          *)
(* connections, policies, values and requests.                             *)
(***************************************************************************)
EXTENDS ManagementLoop, SequenceTheorems, TLAPS

Msg == [at : Nat, val : Seq(Nat)]
SrvPcs == {"op", "policy", "mode", "value", "update", "account", "closed"}
CliPcs == {"away", "list", "idle", "asked", "sent", "update", "closed", "left"}
IDs == Policies \cup {NoPolicy}

WireOK ==
    /\ toSrv \in [Clients -> Seq(Msg)] /\ toCli \in [Clients -> Seq(Msg)]

Types == TypeOK /\ WireOK

\* What is written at a time: nothing, one value, or two.
Pieces == {<<>>} \cup {<<v>> : v \in Seq(Nat)} \cup {<<v, w>> : v \in Seq(Nat), w \in Seq(Nat)}

-----------------------------------------------------------------------------
(* What goes over a wire                                                    *)

\* A number is one piece, and different numbers are different pieces.
LEMMA Numbers ==
    /\ \A n \in Nat : Number(n) \in Seq(Nat)
    /\ \A m, n \in Nat : Number(m) = Number(n) => m = n
BY DEF Number

\* r is q with these values appended, or without its first one.
Grown(q, r, values, at) ==
    /\ Len(r) = Len(q) + Len(values)
    /\ \A i \in 1..Len(q) : r[i] = q[i]
    /\ \A i \in 1..Len(values) : r[Len(q) + i] = [at |-> at + i - 1, val |-> values[i]]

Shrunk(q, r) ==
    /\ Len(r) = Len(q) - 1
    /\ \A i \in 1..Len(r) : r[i] = q[i + 1]

\* What is written follows what is under way, at the positions that follow.
LEMMA Written ==
    ASSUME NEW q \in Seq(Msg), NEW at \in Nat, NEW values \in Pieces
    PROVE  LET r == q \o Crypted(values, at) IN
           r \in Seq(Msg) /\ Len(values) \in Nat /\ Grown(q, r, values, at)
<1> DEFINE x == Crypted(values, at)
           r == q \o x
<1>1. values \in Seq(Seq(Nat)) /\ Len(values) \in Nat
  <2>1. CASE values = <<>>
    BY <2>1
  <2>2. CASE \E v \in Seq(Nat) : values = <<v>>
    BY <2>2
  <2>3. CASE \E v, w \in Seq(Nat) : values = <<v, w>>
    BY <2>3
  <2> QED
    BY <2>1, <2>2, <2>3 DEF Pieces
<1>2. DOMAIN values = 1..Len(values)
  BY <1>1
<1>3. \A i \in 1..Len(values) : [at |-> at + i - 1, val |-> values[i]] \in Msg
  BY <1>1 DEF Msg
<1>4. x \in [1..Len(values) -> Msg]
  BY <1>2, <1>3 DEF Crypted
<1>5. x \in Seq(Msg) /\ Len(x) = Len(values)
  <2>1. x \in Seq(Msg)
    <3>1. x \in UNION {[1..n -> Msg] : n \in Nat}
      BY <1>1, <1>4
    <3>2. Seq(Msg) = UNION {[1..n -> Msg] : n \in Nat}
      BY SeqDef
    <3> QED
      BY <3>1, <3>2
  <2>2. Len(x) \in Nat /\ 1..Len(x) = 1..Len(values)
    BY <1>4, <2>1, LenProperties
  <2> HIDE DEF x
  <2> QED
    BY <1>1, <2>1, <2>2
<1>6. \A i \in 1..Len(values) : x[i] = [at |-> at + i - 1, val |-> values[i]]
  BY <1>2 DEF Crypted
<1> HIDE DEF x
<1>7. r \in Seq(Msg) /\ Len(r) = Len(q) + Len(x)
      /\ (\A i \in 1..Len(q) : r[i] = q[i])
      /\ \A i \in 1..Len(x) : r[Len(q) + i] = x[i]
  BY <1>5
<1> QED
  BY <1>1, <1>5, <1>6, <1>7 DEF x, Grown

\* What is read leaves the rest under way, in order.
LEMMA TakenOff ==
    ASSUME NEW q \in Seq(Msg), q # <<>>
    PROVE  /\ Tail(q) \in Seq(Msg) /\ Shrunk(q, Tail(q)) /\ Len(q) > 0
           /\ Head(q) = q[1] /\ q[1] \in Msg
BY DEF Shrunk

\* The short messages of the protocol.
LEMMA Short ==
    /\ <<>> \in Pieces /\ Len(<<>>) = 0
    /\ \A v \in Seq(Nat) : <<v>> \in Pieces /\ Len(<<v>>) = 1 /\ <<v>>[1] = v /\ <<v>> # <<>>
    /\ \A v, w \in Seq(Nat) : <<v, w>> \in Pieces /\ Len(<<v, w>>) = 2
                              /\ <<v, w>>[1] = v /\ <<v, w>>[2] = w
BY DEF Pieces

\* What a turn of the server's loop does to its connection, and to no other.
LEMMA TurnMoves ==
    ASSUME Types, NEW c \in Clients, NEW answers \in Pieces, NEW pc, NEW policy,
           Turn(c, answers, pc, policy)
    PROVE  LET at == IF Ended(c) THEN sKey[c] ELSE sKey[c] + 1 IN
           /\ toSrv' \in [Clients -> Seq(Msg)] \/ toSrv[c] = <<>>
           /\ toCli' \in [Clients -> Seq(Msg)] /\ sKey' \in [Clients -> Nat]
           /\ Ended(c) => toSrv' = toSrv
           /\ ~Ended(c) /\ toSrv[c] # <<>> => Shrunk(toSrv[c], toSrv'[c])
           /\ Grown(toCli[c], toCli'[c], answers, at) /\ sKey'[c] = at + Len(answers)
           /\ srv'[c] = [pc |-> pc, policy |-> policy] /\ up' = (Ended(c) => answers = <<>>)
           /\ \A d \in Clients \ {c} :
                 /\ toSrv'[d] = toSrv[d] /\ toCli'[d] = toCli[d]
                 /\ sKey'[d] = sKey[d] /\ srv'[d] = srv[d]
<1> DEFINE at == IF Ended(c) THEN sKey[c] ELSE sKey[c] + 1
<1>1. /\ toSrv \in [Clients -> Seq(Msg)] /\ toCli \in [Clients -> Seq(Msg)]
      /\ sKey \in [Clients -> Nat] /\ at \in Nat /\ DOMAIN srv = Clients
  BY DEF Types, TypeOK, WireOK
<1>2. /\ toSrv' = [toSrv EXCEPT ![c] = IF Ended(c) THEN @ ELSE Tail(@)]
      /\ toCli' = [toCli EXCEPT ![c] = @ \o Crypted(answers, at)]
      /\ sKey' = [sKey EXCEPT ![c] = at + Len(answers)]
      /\ srv' = [srv EXCEPT ![c] = [pc |-> pc, policy |-> policy]]
      /\ up' = (Ended(c) => answers = <<>>)
  BY DEF Turn, Advance
<1> HIDE DEF at
<1>3. toCli[c] \o Crypted(answers, at) \in Seq(Msg) /\ Len(answers) \in Nat
      /\ Grown(toCli[c], toCli[c] \o Crypted(answers, at), answers, at)
  BY <1>1, Written
<1>4. toCli' \in [Clients -> Seq(Msg)] /\ sKey' \in [Clients -> Nat]
      /\ Grown(toCli[c], toCli'[c], answers, at) /\ sKey'[c] = at + Len(answers)
  BY <1>1, <1>2, <1>3
<1>5. Ended(c) => toSrv' = toSrv
  BY <1>1, <1>2
<1>6. ~Ended(c) => toSrv'[c] = Tail(toSrv[c])
  BY <1>1, <1>2
<1>7. ~Ended(c) /\ toSrv[c] # <<>> => Shrunk(toSrv[c], toSrv'[c]) /\ toSrv'[c] \in Seq(Msg)
  BY <1>1, <1>6, TakenOff
<1>8. toSrv' \in [Clients -> Seq(Msg)] \/ toSrv[c] = <<>>
  BY <1>1, <1>2, <1>5, <1>7
<1>9. \A d \in Clients \ {c} :
          /\ toSrv'[d] = toSrv[d] /\ toCli'[d] = toCli[d]
          /\ sKey'[d] = sKey[d] /\ srv'[d] = srv[d]
  BY <1>1, <1>2
<1> QED
  BY <1>1, <1>2, <1>4, <1>5, <1>7, <1>8, <1>9 DEF at

\* The same for what a client reads and says.
LEMMA SayMoves ==
    ASSUME Types, NEW c \in Clients, NEW read \in BOOLEAN, NEW values \in Pieces,
           NEW pc, NEW policy, Say(c, read, values, pc, policy)
    PROVE  LET at == IF read THEN cKey[c] + 1 ELSE cKey[c] IN
           /\ WireOK' /\ cKey' \in [Clients -> Nat]
           /\ read => toCli[c] # <<>> /\ Shrunk(toCli[c], toCli'[c])
           /\ ~read => toCli' = toCli
           /\ Grown(toSrv[c], toSrv'[c], values, at) /\ cKey'[c] = at + Len(values)
           /\ cli'[c].pc = pc /\ cli'[c].policy = policy
           /\ \A d \in Clients \ {c} :
                 /\ toSrv'[d] = toSrv[d] /\ toCli'[d] = toCli[d]
                 /\ cKey'[d] = cKey[d] /\ cli'[d] = cli[d]
           /\ UNCHANGED serverVars
<1> DEFINE at == IF read THEN cKey[c] + 1 ELSE cKey[c]
<1>1. /\ toSrv \in [Clients -> Seq(Msg)] /\ toCli \in [Clients -> Seq(Msg)]
      /\ cKey \in [Clients -> Nat] /\ at \in Nat
      /\ cli \in [Clients -> [pc : CliPcs, policy : IDs, left : 0..MaxRequests]]
  BY DEF Types, TypeOK, WireOK, CliPcs, IDs
<1>2. /\ read => toCli[c] # <<>>
      /\ toCli' = [toCli EXCEPT ![c] = IF read THEN Tail(@) ELSE @]
      /\ toSrv' = [toSrv EXCEPT ![c] = @ \o Crypted(values, at)]
      /\ cKey' = [cKey EXCEPT ![c] = at + Len(values)]
      /\ cli' = [cli EXCEPT ![c].pc = pc, ![c].policy = policy,
                            ![c].left = IF pc \in {"asked", "update"} THEN @ - 1 ELSE @]
      /\ UNCHANGED serverVars
  BY DEF Say
<1> HIDE DEF at
<1>3. toSrv[c] \o Crypted(values, at) \in Seq(Msg) /\ Len(values) \in Nat
      /\ Grown(toSrv[c], toSrv[c] \o Crypted(values, at), values, at)
  BY <1>1, Written
<1>4. toSrv' \in [Clients -> Seq(Msg)] /\ cKey' \in [Clients -> Nat]
      /\ Grown(toSrv[c], toSrv'[c], values, at) /\ cKey'[c] = at + Len(values)
  BY <1>1, <1>2, <1>3
<1>5. ~read => toCli' = toCli
  BY <1>1, <1>2
<1>6. read => toCli'[c] = Tail(toCli[c])
  BY <1>1, <1>2
<1>7. read => Shrunk(toCli[c], toCli'[c]) /\ toCli'[c] \in Seq(Msg)
  BY <1>1, <1>2, <1>6, TakenOff
<1>8. toCli' \in [Clients -> Seq(Msg)]
  BY <1>1, <1>2, <1>5, <1>7
<1>9. cli'[c].pc = pc /\ cli'[c].policy = policy
  BY <1>1, <1>2
<1>10. \A d \in Clients \ {c} :
          /\ toSrv'[d] = toSrv[d] /\ toCli'[d] = toCli[d]
          /\ cKey'[d] = cKey[d] /\ cli'[d] = cli[d]
  BY <1>1, <1>2
<1> QED
  BY <1>2, <1>4, <1>5, <1>7, <1>8, <1>9, <1>10 DEF at, WireOK

-----------------------------------------------------------------------------
(* Types                                                                    *)

\* The server starts with values of these types.
LEMMA TypesInit == Init => Types
<1> SUFFICES ASSUME Init PROVE Types
  OBVIOUS
<1>1. /\ NumPolicies \in Nat /\ MaxRequests \in Nat /\ MaxValue \in Nat
      /\ NoPolicy \in IDs /\ MaxValue \in Values /\ <<>> \in Seq(Msg)
  BY ConstantsOK DEF IDs, Values
<1> QED
  BY <1>1 DEF Init, Types, TypeOK, WireOK, IDs

\* A turn whose next place is one of the loop's keeps the types.
LEMMA TurnTypes ==
    ASSUME Types, NEW c \in Clients, NEW answers \in Pieces, NEW pc \in SrvPcs,
           NEW policy \in IDs, pc \in {"mode", "value"} => policy \in Policies,
           Turn(c, answers, pc, policy), toSrv[c] # <<>> \/ Ended(c),
           policies' \in [Policies -> Values]
    PROVE  Types'
<1>1. /\ UNCHANGED <<kind, cKey, cli, asked, hasty>>
      /\ srv' = [srv EXCEPT ![c] = [pc |-> pc, policy |-> policy]]
  BY DEF Turn, clientVars
<1>2. /\ toSrv' \in [Clients -> Seq(Msg)] /\ toCli' \in [Clients -> Seq(Msg)]
      /\ sKey' \in [Clients -> Nat]
  BY TurnMoves DEF Types, WireOK
<1>3. up' \in BOOLEAN
  BY DEF Turn
<1>4. srv' \in [Clients -> [pc : SrvPcs, policy : IDs]]
      /\ \A d \in Clients : srv'[d].pc \in {"mode", "value"} => srv'[d].policy \in Policies
  BY <1>1 DEF Types, TypeOK, SrvPcs, IDs
<1> QED
  BY <1>1, <1>2, <1>3, <1>4 DEF Types, TypeOK, WireOK, SrvPcs, IDs

\* A client speaks in good form, and only when it has a request left.
LEMMA SayTypes ==
    ASSUME Types, NEW c \in Clients, NEW read \in BOOLEAN, NEW values \in Pieces,
           NEW pc \in CliPcs, NEW policy \in IDs, Say(c, read, values, pc, policy),
           pc \in {"asked", "update"} => cli[c].left > 0,
           asked' \subseteq Policies \X Values, hasty' \subseteq Clients
    PROVE  Types'
<1>1. WireOK' /\ cKey' \in [Clients -> Nat] /\ UNCHANGED serverVars
  BY SayMoves
<1>2. /\ cli \in [Clients -> [pc : CliPcs, policy : IDs, left : 0..MaxRequests]]
      /\ cli' = [cli EXCEPT ![c].pc = pc, ![c].policy = policy,
                            ![c].left = IF pc \in {"asked", "update"} THEN @ - 1 ELSE @]
  BY DEF Say, Types, TypeOK, CliPcs, IDs
<1>3. (IF pc \in {"asked", "update"} THEN cli[c].left - 1 ELSE cli[c].left) \in 0..MaxRequests
  BY <1>2, ConstantsOK
<1>4. cli' \in [Clients -> [pc : CliPcs, policy : IDs, left : 0..MaxRequests]]
  BY <1>2, <1>3
<1> QED
  BY <1>1, <1>4 DEF Types, TypeOK, serverVars, CliPcs, IDs

\* The loop's next value, when there is one.
LEMMA ReadableHas ==
    ASSUME NEW c \in Clients, NEW any, NEW v \in Readable(c, any)
    PROVE  toSrv[c] # <<>> \/ Ended(c)
BY DEF Readable

\* The sets of the types contain each other as they should.
LEMMA Parts ==
    /\ Policies \subseteq Nat /\ NoPolicy \in IDs /\ Policies \subseteq IDs
    /\ IDs \subseteq Nat /\ Values \subseteq Nat
    /\ \A n \in Nat : Number(n) \in Seq(Nat)
BY Numbers, ConstantsOK DEF Policies, IDs, Values, NoPolicy

\* What is written as a list or a policy's value is a sequence of numbers.
LEMMA Bundles ==
    ASSUME Types, NEW c \in Clients
    PROVE  /\ Listing \in Seq(Nat)
           /\ GetPolicy(c) => Number(policies[srv[c].policy]) \in Seq(Nat)
<1>0. policies \in [Policies -> Values]
      /\ (srv[c].pc \in {"mode", "value"} => srv[c].policy \in Policies)
  BY DEF Types, TypeOK
<1>1. Listing \in Seq(Nat)
  <2>1. \A i \in 1..NumPolicies : policies[i - 1] \in Nat
    <3> TAKE i \in 1..NumPolicies
    <3>1. i - 1 \in Policies
      BY ConstantsOK DEF Policies
    <3> QED
      BY <1>0, <3>1, Parts
  <2>2. Listing \in [1..NumPolicies -> Nat]
    BY <2>1 DEF Listing
  <2>3. Seq(Nat) = UNION {[1..n -> Nat] : n \in Nat}
    BY SeqDef
  <2> QED
    BY <2>2, <2>3, ConstantsOK
<1>2. ASSUME GetPolicy(c) PROVE Number(policies[srv[c].policy]) \in Seq(Nat)
  <2>1. srv[c].policy \in Policies
    BY <1>0, <1>2 DEF GetPolicy, At
  <2> QED
    BY <1>0, <2>1, Parts
<1> QED
  BY <1>1, <1>2

\* The steps of a loop keep the types.
LEMMA ServeTypes ==
    ASSUME Types, NEW c \in Clients, Serve(c)
    PROVE  Types'
<1>0. policies \in [Policies -> Values] /\ srv[c] \in [pc : SrvPcs, policy : IDs]
      /\ (srv[c].pc \in {"mode", "value"} => srv[c].policy \in Policies)
  BY DEF Types, TypeOK, SrvPcs, IDs
<1>1. <<>> \in Pieces /\ <<Yes>> \in Pieces /\ <<No>> \in Pieces /\ <<Other>> \in Pieces
  BY Short, Numbers DEF Yes, No, Other
<1>2. NoPolicy \in IDs
  BY DEF IDs
<1>3. CASE Quit(c)
  BY <1>0, <1>1, <1>2, <1>3, TurnTypes, ReadableHas DEF Quit, SrvPcs
<1>4. CASE PolicyOp(c)
  BY <1>0, <1>1, <1>2, <1>4, TurnTypes, ReadableHas DEF PolicyOp, SrvPcs
<1>5. CASE OwnOp(c)
  BY <1>0, <1>1, <1>2, <1>5, TurnTypes, ReadableHas DEF OwnOp, SrvPcs
<1>6. CASE ListOp(c)
  <2>1. Listing \in Seq(Nat)
    BY Bundles
  <2>2. Flushed(Listing) \in Pieces
    BY <2>1, Short DEF Flushed
  <2> QED
    BY <1>0, <1>2, <1>6, <2>2, TurnTypes, ReadableHas DEF ListOp, SrvPcs
<1>7. CASE UnknownOp(c)
  BY <1>0, <1>1, <1>2, <1>7, TurnTypes, ReadableHas DEF UnknownOp, SrvPcs
<1>8. CASE Account(c)
  BY <1>0, <1>1, <1>2, <1>8, TurnTypes DEF Account, SrvPcs
<1>9. CASE FindPolicy(c)
  BY <1>0, <1>1, <1>2, <1>9, TurnTypes, ReadableHas DEF FindPolicy, SrvPcs, Found, IDs
<1>10. CASE GetPolicy(c)
  <2>2. Flushed(Number(policies[srv[c].policy])) \in Pieces
    BY <1>10, Bundles, Short DEF Flushed
  <2> QED
    BY <1>0, <1>2, <1>10, <2>2, TurnTypes, ReadableHas DEF GetPolicy, SrvPcs
<1>11. CASE SetMode(c)
  <2>1. srv[c].policy \in Policies
    BY <1>0, <1>11 DEF SetMode, At
  <2> QED
    BY <1>0, <1>1, <1>11, <2>1, TurnTypes, ReadableHas DEF SetMode, SrvPcs, IDs
<1>12. CASE SetPolicy(c)
  <2>1. policies' \in [Policies -> Values]
    BY <1>0, <1>12 DEF SetPolicy, Decoded
  <2> QED
    BY <1>1, <1>2, <1>12, <2>1, TurnTypes, ReadableHas DEF SetPolicy, SrvPcs
<1> QED
  BY <1>3, <1>4, <1>5, <1>6, <1>7, <1>8, <1>9, <1>10, <1>11, <1>12 DEF Serve

\* The steps of a client keep the types.
LEMMA ActTypes ==
    ASSUME Types, NEW c \in Clients, Act(c), Choose(c) => cli[c].policy \in Policies
    PROVE  Types'
<1>0. asked \subseteq Policies \X Values /\ hasty \subseteq Clients
      /\ cli[c].policy \in IDs
  BY DEF Types, TypeOK, IDs
<1>1. /\ NoPolicy \in IDs /\ <<>> \in Pieces /\ <<Op(0)>> \in Pieces /\ <<Op(1)>> \in Pieces
      /\ <<Op(2)>> \in Pieces /\ <<Op(3)>> \in Pieces
      /\ \A n \in Nat : <<Op(1), Number(n)>> \in Pieces /\ <<Op(2), Number(n)>> \in Pieces
  BY Short, Numbers DEF IDs, Op
<1>2. CASE Open(c)
  BY <1>0, <1>1, <1>2, SayTypes DEF Open, CliPcs
<1>3. CASE ListShown(c)
  BY <1>0, <1>1, <1>3, SayTypes DEF ListShown, CliPcs
<1>4. CASE Ask(c)
  <2>1. asked' \subseteq Policies \X Values /\ hasty' \subseteq Clients /\ cli[c].left > 0
    BY <1>0, <1>4 DEF Ask
  <2>2. CASE \E p \in IDs : Say(c, FALSE, <<Op(1), Number(p)>>, "asked", p)
    BY <1>1, <2>1, <2>2, SayTypes, Parts DEF CliPcs
  <2>3. CASE Say(c, FALSE, <<Op(2)>>, "update", NoPolicy)
    BY <1>1, <2>1, <2>3, SayTypes DEF CliPcs
  <2> QED
    BY <1>4, <2>2, <2>3 DEF Ask, IDs
<1>5. CASE Choose(c)
  <2>1. hasty' \subseteq Clients
    BY <1>0, <1>5 DEF Choose
  <2>2. CASE Say(c, TRUE, <<Op(1)>>, "sent", NoPolicy) /\ UNCHANGED asked
    BY <1>0, <1>1, <2>1, <2>2, SayTypes DEF CliPcs
  <2>3. ASSUME NEW v \in Values, Say(c, TRUE, <<Op(2), Number(v)>>, "sent", NoPolicy),
               asked' = asked \cup {<<cli[c].policy, v>>}
        PROVE  Types'
    <3>1. <<Op(2), Number(v)>> \in Pieces
      BY <1>1, Parts
    <3>2. asked' \subseteq Policies \X Values
      BY <1>0, <1>5, <2>3
    <3> QED
      BY <1>1, <2>1, <2>3, <3>1, <3>2, SayTypes DEF CliPcs
  <2> QED
    BY <1>5, <2>2, <2>3 DEF Choose
<1>6. CASE Done(c)
  BY <1>0, <1>1, <1>6, SayTypes DEF Done, CliPcs
<1>7. CASE ClosePanel(c)
  BY <1>0, <1>1, <1>7, SayTypes DEF ClosePanel, CliPcs
<1>8. CASE Leave(c)
  BY <1>8 DEF Leave, Types, TypeOK, WireOK, serverVars
<1> QED
  BY <1>2, <1>3, <1>4, <1>5, <1>6, <1>7, <1>8 DEF Act

-----------------------------------------------------------------------------
(* Connections in step                                                      *)

\* Only one end speaks at a time, so both counters say the same.
Duplex(c) ==
    /\ sKey[c] + Len(toSrv[c]) = cKey[c] + Len(toCli[c])
    /\ Len(toSrv[c]) = 0 \/ Len(toCli[c]) = 0
    /\ \A i \in 1..Len(toSrv[c]) : toSrv[c][i].at = sKey[c] + i - 1
    /\ \A i \in 1..Len(toCli[c]) : toCli[c][i].at = cKey[c] + i - 1

\* The value of a SET on its way is one that was asked for this policy.
Wanted(c, val) == \E v \in Values : val = Number(v) /\ <<srv[c].policy, v>> \in asked

\* What the loop has still to read fits the place where it is, and ends with
\* the next value that is answered.
Script(c) ==
    up => \/ Len(toSrv[c]) = 0
          \/ /\ srv[c].pc = "op" /\ Len(toSrv[c]) = 1
             /\ toSrv[c][1].val \in {Op(0), Op(2), Op(3)}
          \/ srv[c].pc = "op" /\ Len(toSrv[c]) = 2 /\ toSrv[c][1].val = Op(1)
          \/ srv[c].pc = "policy" /\ Len(toSrv[c]) = 1
          \/ srv[c].pc = "mode" /\ Len(toSrv[c]) = 1 /\ toSrv[c][1].val = Op(1)
          \/ /\ srv[c].pc = "mode" /\ Len(toSrv[c]) = 2
             /\ toSrv[c][1].val = Op(2) /\ Wanted(c, toSrv[c][2].val)
          \/ srv[c].pc = "value" /\ Len(toSrv[c]) = 1 /\ Wanted(c, toSrv[c][1].val)

Asks(c) == Len(toCli[c]) = 0 /\ Len(toSrv[c]) > 0
Hears(c) == Len(toCli[c]) = 1 /\ Len(toSrv[c]) = 0
Silent(c) == Len(toCli[c]) = 0 /\ Len(toSrv[c]) = 0

\* What a client waits for is on its way, or what it said is.
Turns(c) ==
    /\ cli[c].pc \in {"away", "idle"} => srv[c].pc = "op" /\ Silent(c)
    /\ cli[c].pc = "list" =>
          /\ srv[c].pc = "op"
          /\ \/ Asks(c) /\ Len(toSrv[c]) = 1 /\ toSrv[c][1].val = Op(3)
             \/ Hears(c)
    /\ cli[c].pc = "asked" =>
          \/ /\ srv[c].pc = "op" /\ Asks(c) /\ Len(toSrv[c]) = 2
             /\ toSrv[c][1].val = Op(1) /\ toSrv[c][2].val = Number(cli[c].policy)
          \/ /\ srv[c].pc = "policy" /\ Asks(c) /\ Len(toSrv[c]) = 1
             /\ toSrv[c][1].val = Number(cli[c].policy)
          \/ /\ srv[c].pc = "mode" /\ Hears(c) /\ toCli[c][1].val = Yes
             /\ srv[c].policy = cli[c].policy
          \/ srv[c].pc = "op" /\ Hears(c) /\ toCli[c][1].val # Yes
    /\ cli[c].pc = "sent" =>
          \/ srv[c].pc = "mode" /\ Asks(c)
          \/ srv[c].pc = "value" /\ Asks(c)
          \/ srv[c].pc = "op" /\ Hears(c)
    /\ cli[c].pc = "update" =>
          /\ kind = "host"
          /\ \/ /\ srv[c].pc = "op" /\ Asks(c) /\ Len(toSrv[c]) = 1
                /\ toSrv[c][1].val = Op(2)
             \/ srv[c].pc = "update" /\ Silent(c)
             \/ srv[c].pc = "op" /\ Hears(c)
    /\ cli[c].pc = "closed" =>
          \/ /\ srv[c].pc = "op" /\ Asks(c) /\ Len(toSrv[c]) = 1
             /\ toSrv[c][1].val = Op(0)
          \/ srv[c].pc = "closed" /\ Silent(c)

Good(c) == Duplex(c) /\ Script(c) /\ Turns(c)

\* A panel that was closed before the list came said only that, and its loop
\* never gets to a policy's value.
Astray(c) ==
    /\ cli[c].pc \in {"closed", "left"}
    /\ up => \/ /\ srv[c].pc = "op" /\ Len(toSrv[c]) = 2
                /\ toSrv[c][1].at = sKey[c] /\ toSrv[c][1].val = Op(3)
             \/ srv[c].pc = "op" /\ Len(toSrv[c]) = 1
             \/ /\ srv[c].pc \in {"op", "policy", "update", "account", "closed"}
                /\ Len(toSrv[c]) = 0

Connection(c) == IF c \in hasty THEN Astray(c) ELSE Good(c)

MInv == Types /\ OnlyChosen /\ \A c \in Clients : Connection(c)

\* What is under way is counted by naturals.
LEMMA Lengths ==
    ASSUME Types, NEW c \in Clients
    PROVE  /\ Len(toSrv[c]) \in Nat /\ Len(toCli[c]) \in Nat
           /\ sKey[c] \in Nat /\ cKey[c] \in Nat
           /\ toSrv[c] = <<>> <=> Len(toSrv[c]) = 0
           /\ toCli[c] = <<>> <=> Len(toCli[c]) = 0
           /\ toSrv[c] # <<>> => Head(toSrv[c]) = toSrv[c][1]
           /\ toCli[c] # <<>> => Head(toCli[c]) = toCli[c][1]
<1>1. toSrv[c] \in Seq(Msg) /\ toCli[c] \in Seq(Msg) /\ sKey[c] \in Nat /\ cKey[c] \in Nat
  BY DEF Types, TypeOK, WireOK
<1> QED
  BY <1>1

\* The bytes of the protocol differ from each other.
LEMMA Ops ==
    /\ Op(0) # Op(1) /\ Op(0) # Op(2) /\ Op(0) # Op(3) /\ Op(1) # Op(2) /\ Op(1) # Op(3)
    /\ Op(2) # Op(3) /\ Yes # No /\ Default = Op(0)
    /\ Other # Op(0) /\ Other # Op(1) /\ Other # Op(2) /\ Other # Op(3)
<1>1. \A m, n \in Nat : m # n => Number(m) # Number(n)
  BY Numbers
<1>2. Number(99) # Number(85) /\ Number(255) # Number(0) /\ Number(255) # Number(1)
      /\ Number(255) # Number(2) /\ Number(255) # Number(3)
  BY <1>1
<1>3. Number(0) # Number(1) /\ Number(0) # Number(2) /\ Number(0) # Number(3)
      /\ Number(1) # Number(2) /\ Number(1) # Number(3) /\ Number(2) # Number(3)
  BY <1>1
<1> QED
  BY <1>2, <1>3 DEF Op, Yes, No, Default, Other

\* A connection that a step does not touch stays as it was.
LEMMA Untouched ==
    ASSUME NEW d \in Clients, Connection(d), d \in hasty' <=> d \in hasty,
           srv'[d] = srv[d], sKey'[d] = sKey[d], cKey'[d] = cKey[d], cli'[d] = cli[d],
           toSrv'[d] = toSrv[d], toCli'[d] = toCli[d],
           kind' = kind, up' => up, asked \subseteq asked'
    PROVE  Connection(d)'
<1>1. \A val : Wanted(d, val) => Wanted(d, val)'
  BY DEF Wanted
<1>2. Duplex(d) => Duplex(d)'
  BY DEF Duplex
<1>3. Script(d) => Script(d)'
  BY <1>1 DEF Script
<1>4. Turns(d) => Turns(d)'
  BY DEF Turns, Asks, Hears, Silent
<1>5. Astray(d) => Astray(d)'
  BY DEF Astray
<1> QED
  BY <1>2, <1>3, <1>4, <1>5 DEF Connection, Good

\* What a turn writes.
Answer(answers) == answers = <<>> \/ \E v \in Seq(Nat) : answers = <<v>>

\* A turn that answers the last value, or the end, keeps both ends in step.
LEMMA TurnDuplex ==
    ASSUME Types, NEW c \in Clients, Duplex(c), NEW answers, NEW pc, NEW policy,
           Answer(answers), answers = <<>> \/ Len(toSrv[c]) < 2,
           Turn(c, answers, pc, policy), toSrv[c] # <<>> \/ Ended(c)
    PROVE  Duplex(c)'
<1>1. answers \in Pieces /\ (answers = <<>> => Len(answers) = 0)
      /\ (answers # <<>> => Len(answers) = 1)
  BY Short DEF Answer
<1>2. UNCHANGED cKey /\ (Ended(c) => toSrv[c] = <<>>)
  BY DEF Turn, clientVars, Ended
<1> DEFINE at == IF Ended(c) THEN sKey[c] ELSE sKey[c] + 1
<1>3. /\ Ended(c) => toSrv' = toSrv
      /\ ~Ended(c) => Shrunk(toSrv[c], toSrv'[c])
      /\ Grown(toCli[c], toCli'[c], answers, at) /\ sKey'[c] = at + Len(answers)
  BY <1>1, TurnMoves
<1>4. Len(toSrv[c]) \in Nat /\ Len(toCli[c]) \in Nat /\ sKey[c] \in Nat /\ cKey[c] \in Nat
      /\ (toSrv[c] = <<>> <=> Len(toSrv[c]) = 0)
  BY Lengths
<1> HIDE DEF Ended
<1> DEFINE m == Len(toSrv[c])
           n == Len(toCli[c])
           L == Len(answers)
<1>7. Len(toSrv'[c]) = (IF Ended(c) THEN 0 ELSE m - 1) /\ Len(toCli'[c]) = n + L /\ L \in 0..1
      /\ (L = 0 \/ m < 2) /\ (~Ended(c) => m > 0 /\ n = 0)
      /\ sKey[c] + m = cKey[c] + n /\ (Ended(c) => m = 0)
  <2>1. L \in 0..1 /\ (L = 0 \/ m < 2)
    BY <1>1
  <2>2. Len(toCli'[c]) = n + L
    BY <1>3 DEF Grown
  <2>3. sKey[c] + m = cKey[c] + n /\ (m = 0 \/ n = 0)
    BY DEF Duplex
  <2>4. CASE Ended(c)
    BY <1>2, <1>3, <1>4, <2>1, <2>2, <2>3, <2>4
  <2>5. CASE ~Ended(c)
    <3>1. m > 0 /\ n = 0
      BY <1>4, <2>3, <2>5
    <3>2. Len(toSrv'[c]) = m - 1
      BY <1>3, <2>5 DEF Shrunk
    <3> QED
      BY <2>1, <2>2, <2>3, <2>5, <3>1, <3>2
  <2> QED
    BY <2>4, <2>5
<1>12. m \in Nat /\ n \in Nat /\ L \in Nat /\ at \in Nat /\ sKey[c] \in Nat /\ cKey[c] \in Nat
  BY <1>4, <1>7
<1>13. at = (IF Ended(c) THEN sKey[c] ELSE sKey[c] + 1)
  OBVIOUS
<1>14. sKey'[c] = at + L
  BY <1>3
<1> HIDE DEF m, n, L, at
<1>8. sKey'[c] + Len(toSrv'[c]) = cKey'[c] + Len(toCli'[c])
  <2>1. cKey'[c] = cKey[c]
    BY <1>2
  <2>2. CASE Ended(c)
    BY <1>7, <1>12, <1>13, <1>14, <2>1, <2>2
  <2>3. CASE ~Ended(c)
    <3>1. sKey'[c] = sKey[c] + 1 + L /\ Len(toSrv'[c]) = m - 1
      BY <1>7, <1>13, <1>14, <2>3
    <3>2. (sKey[c] + 1 + L) + (m - 1) = (sKey[c] + m) + L
      BY <1>12
    <3>3. (cKey[c] + n) + L = cKey[c] + (n + L)
      BY <1>12
    <3> QED
      BY <1>7, <2>1, <3>1, <3>2, <3>3
  <2> QED
    BY <2>2, <2>3
<1>9. Len(toSrv'[c]) = 0 \/ Len(toCli'[c]) = 0
  BY <1>7, <1>12
<1>10. \A i \in 1..Len(toSrv'[c]) : toSrv'[c][i].at = sKey'[c] + i - 1
  <2> TAKE i \in 1..Len(toSrv'[c])
  <2>1. ~Ended(c) /\ i \in 1..(m - 1) /\ i + 1 \in 1..m /\ L = 0
    BY <1>7, <1>12
  <2>2. toSrv'[c][i] = toSrv[c][i + 1]
    BY <1>3, <2>1 DEF Shrunk, m
  <2>3. toSrv[c][i + 1].at = sKey[c] + (i + 1) - 1
    BY <2>1 DEF Duplex, m
  <2>4. sKey'[c] = sKey[c] + 1
    BY <1>12, <1>13, <1>14, <2>1
  <2>5. sKey[c] + (i + 1) - 1 = (sKey[c] + 1) + i - 1
    BY <1>12
  <2> QED
    BY <2>2, <2>3, <2>4, <2>5
<1>11. \A i \in 1..Len(toCli'[c]) : toCli'[c][i].at = cKey'[c] + i - 1
  <2> TAKE i \in 1..Len(toCli'[c])
  <2>1. CASE i \in 1..n
    BY <1>2, <1>3, <2>1 DEF Duplex, Grown, n
  <2>2. CASE i \notin 1..n
    <3>1. i = n + 1 /\ L = 1
      BY <1>7, <1>12, <2>2
    <3>2. toCli'[c][n + 1].at = at + 1 - 1
      BY <1>3, <3>1 DEF Grown, n, L
    <3>3. at = cKey[c] + n
      BY <1>7, <1>12, <1>13, <3>1
    <3> QED
      BY <1>2, <1>12, <3>1, <3>2, <3>3
  <2> QED
    BY <2>1, <2>2
<1> QED
  BY <1>8, <1>9, <1>10, <1>11 DEF Duplex

\* A client that speaks first, or after reading its answer, keeps both in step.
LEMMA SayDuplex ==
    ASSUME Types, NEW c \in Clients, Duplex(c), NEW read \in BOOLEAN, NEW values \in Pieces,
           NEW pc, NEW policy, Say(c, read, values, pc, policy),
           IF read THEN Hears(c) ELSE Silent(c)
    PROVE  Duplex(c)'
<1> DEFINE at == IF read THEN cKey[c] + 1 ELSE cKey[c]
<1>1. /\ read => Shrunk(toCli[c], toCli'[c])
      /\ ~read => toCli' = toCli
      /\ Grown(toSrv[c], toSrv'[c], values, at) /\ cKey'[c] = at + Len(values)
      /\ UNCHANGED sKey
  BY SayMoves DEF serverVars
<1>2. Len(toSrv[c]) \in Nat /\ Len(toCli[c]) \in Nat /\ sKey[c] \in Nat /\ cKey[c] \in Nat
  BY Lengths
<1>3. Len(values) \in Nat
  BY Written DEF Types, WireOK
<1>4. Len(toCli'[c]) = 0 /\ Len(toSrv[c]) = 0 /\ Len(toSrv'[c]) = Len(values)
      /\ sKey[c] = at
  <2>1. Len(toSrv'[c]) = Len(toSrv[c]) + Len(values)
    BY <1>1 DEF Grown
  <2>2. sKey[c] + Len(toSrv[c]) = cKey[c] + Len(toCli[c])
    BY DEF Duplex
  <2>3. CASE read
    <3>1. Len(toCli[c]) = 1 /\ Len(toSrv[c]) = 0 /\ Len(toCli'[c]) = Len(toCli[c]) - 1
      BY <1>1, <2>3 DEF Shrunk, Hears
    <3>2. sKey[c] = cKey[c] + 1
      BY <1>2, <2>2, <3>1
    <3> QED
      BY <1>3, <2>1, <2>3, <3>1, <3>2
  <2>4. CASE ~read
    BY <1>1, <1>2, <1>3, <2>1, <2>2, <2>4 DEF Silent
  <2> QED
    BY <2>3, <2>4
<1>5. \A i \in 1..Len(values) : toSrv'[c][i].at = at + i - 1
  <2> HIDE DEF at
  <2> TAKE i \in 1..Len(values)
  <2>1. Len(toSrv[c]) + i = i
    BY <1>3, <1>4
  <2>2. toSrv'[c][Len(toSrv[c]) + i] = [at |-> at + i - 1, val |-> values[i]]
    BY <1>1 DEF Grown
  <2> QED
    BY <2>1, <2>2
<1> QED
  BY <1>1, <1>2, <1>3, <1>4, <1>5 DEF Duplex

\* A turn that reads a value, and answers only the last.
Reads(c, answers, pc, policy) ==
    /\ Duplex(c) /\ Answer(answers) /\ (answers = <<>> \/ Len(toSrv[c]) < 2)
    /\ Turn(c, answers, pc, policy) /\ ~Ended(c) /\ Len(toSrv[c]) > 0

\* A loop that reads one value and answers leaves both ends in step.
LEMMA ReadOne ==
    ASSUME Types, NEW c \in Clients, NEW answers, NEW pc, NEW policy,
           Reads(c, answers, pc, policy)
    PROVE  /\ Duplex(c)'
           /\ Len(toSrv[c]) = 1 => Len(toSrv'[c]) = 0
           /\ Len(toSrv[c]) = 2 => Len(toSrv'[c]) = 1 /\ toSrv'[c][1] = toSrv[c][2]
           /\ srv'[c].pc = pc /\ srv'[c].policy = policy
           /\ Len(toCli[c]) = 0
           /\ answers = <<>> => Len(toCli'[c]) = 0
           /\ \A v \in Seq(Nat) : answers = <<v>> =>
                 Len(toCli'[c]) = 1 /\ toCli'[c][1].val = v
           /\ cli' = cli /\ kind' = kind /\ asked' = asked /\ hasty' = hasty
<1>0. Duplex(c) /\ Answer(answers) /\ Turn(c, answers, pc, policy) /\ ~Ended(c)
      /\ Len(toSrv[c]) > 0 /\ (answers = <<>> \/ Len(toSrv[c]) < 2)
  BY DEF Reads
<1>1. answers \in Pieces /\ (answers = <<>> => Len(answers) = 0)
      /\ (\A v \in Seq(Nat) : answers = <<v>> => Len(answers) = 1 /\ answers[1] = v)
  BY <1>0, Short DEF Answer
<1>2. Len(toSrv[c]) \in Nat /\ Len(toCli[c]) = 0 /\ toSrv[c] # <<>> /\ sKey[c] \in Nat
  BY <1>0, Lengths DEF Duplex
<1>3. /\ Shrunk(toSrv[c], toSrv'[c]) /\ srv'[c] = [pc |-> pc, policy |-> policy]
      /\ Grown(toCli[c], toCli'[c], answers, sKey[c] + 1)
  BY <1>0, <1>1, <1>2, TurnMoves
<1>4. Len(toSrv'[c]) = Len(toSrv[c]) - 1 /\ (Len(toSrv[c]) = 2 => toSrv'[c][1] = toSrv[c][2])
  BY <1>2, <1>3 DEF Shrunk
<1>5. Len(toCli'[c]) = Len(answers) /\ (Len(answers) = 1 => toCli'[c][1].val = answers[1])
  <2>1. Len(toCli'[c]) = 0 + Len(answers)
    BY <1>2, <1>3 DEF Grown
  <2>2. Len(answers) = 1 => toCli'[c][0 + 1] = [at |-> (sKey[c] + 1) + 1 - 1, val |-> answers[1]]
    BY <1>2, <1>3 DEF Grown
  <2> QED
    BY <1>0, <1>1, <2>1, <2>2 DEF Answer
<1>6. cli' = cli /\ kind' = kind /\ asked' = asked /\ hasty' = hasty
  BY <1>0 DEF Turn, clientVars
<1>7. Duplex(c)'
  BY <1>0, <1>2, TurnDuplex
<1>8. Len(toSrv[c]) = 1 => Len(toSrv'[c]) = 0
  BY <1>4
<1>9. Len(toSrv[c]) = 2 => Len(toSrv'[c]) = 1
  BY <1>4
<1> QED
  BY <1>1, <1>2, <1>3, <1>4, <1>5, <1>6, <1>7, <1>8, <1>9

\* At the end of the stream whatever the loop does stays in step: nobody reads.
LEMMA EndGood ==
    ASSUME Types, NEW c \in Clients, Good(c), NEW answers, NEW pc, NEW policy,
           Answer(answers), Turn(c, answers, pc, policy), Ended(c)
    PROVE  Good(c)'
<1>1. toSrv[c] = <<>> /\ cli[c].pc = "left" /\ Len(toSrv[c]) = 0
  BY Lengths DEF Ended
<1>2. Duplex(c)'
  BY <1>1, TurnDuplex DEF Good
<1>3. toSrv' = toSrv /\ cli' = cli
  BY TurnMoves, Short DEF Turn, clientVars, Answer
<1>4. Script(c)'
  BY <1>1, <1>3 DEF Script
<1>5. Turns(c)'
  BY <1>1, <1>3 DEF Turns
<1> QED
  BY <1>2, <1>4, <1>5 DEF Good

\* What the loop reads from a connection in step.
LEMMA InStepReads ==
    ASSUME Types, NEW c \in Clients, Good(c), ~Ended(c), NEW any, NEW v \in Readable(c, any)
    PROVE  Len(toSrv[c]) > 0 /\ v = toSrv[c][1].val
<1>1. Len(toSrv[c]) \in Nat /\ sKey[c] \in Nat
  BY Lengths
<1>2. Len(toSrv[c]) > 0 => toSrv[c][1].at = sKey[c]
  BY <1>1 DEF Good, Duplex
<1> QED
  BY <1>2, Lengths DEF Readable

\* The answers of a loop.
LEMMA Answers ==
    /\ Answer(<<>>) /\ Answer(<<Yes>>) /\ Answer(<<No>>) /\ Answer(<<Other>>)
    /\ Yes \in Seq(Nat) /\ No \in Seq(Nat)
    /\ \A v \in Seq(Nat) : Answer(<<v>>)
BY Numbers DEF Yes, No, Other, Answer

\* Quitting.
LEMMA QuitGood ==
    ASSUME Types, NEW c \in Clients, Good(c), Quit(c), ~Ended(c)
    PROVE  Good(c)'
<1>1. Turn(c, <<>>, "closed", NoPolicy) /\ up /\ srv[c].pc = "op" /\ cli[c].pc # "away"
  BY DEF Quit, At
<1>2. Len(toSrv[c]) > 0 /\ toSrv[c][1].val = Op(0)
  BY InStepReads DEF Quit
<1>3. Len(toSrv[c]) = 1
  BY <1>1, <1>2, Ops DEF Good, Script
<1>4. Reads(c, <<>>, "closed", NoPolicy)
  BY <1>1, <1>2, Answers DEF Reads, Good
<1>5. /\ Len(toSrv'[c]) = 0 /\ Len(toCli'[c]) = 0 /\ srv'[c].pc = "closed"
      /\ cli' = cli /\ Duplex(c)'
  BY <1>3, <1>4, ReadOne
<1>6. cli[c].pc \in {"closed", "left"}
  <2>1. cli[c].pc \in CliPcs
    BY DEF Types, TypeOK, CliPcs
  <2> QED
    BY <1>1, <1>2, <1>3, <2>1, Ops DEF Good, Turns, Silent, Hears, Asks, CliPcs
<1> QED
  BY <1>5, <1>6 DEF Good, Script, Turns, Silent

\* A request about a policy.
LEMMA PolicyOpGood ==
    ASSUME Types, NEW c \in Clients, Good(c), PolicyOp(c), ~Ended(c)
    PROVE  Good(c)'
<1>1. Turn(c, <<>>, "policy", NoPolicy) /\ up /\ srv[c].pc = "op" /\ cli[c].pc # "away"
  BY DEF PolicyOp, At
<1>2. Len(toSrv[c]) > 0 /\ toSrv[c][1].val = Op(1)
  BY InStepReads DEF PolicyOp
<1>3. Len(toSrv[c]) = 2
  BY <1>1, <1>2, Ops DEF Good, Script
<1>4. Reads(c, <<>>, "policy", NoPolicy)
  BY <1>1, <1>2, Answers DEF Reads, Good
<1>5. /\ Len(toSrv'[c]) = 1 /\ Len(toCli'[c]) = 0 /\ srv'[c].pc = "policy"
      /\ toSrv'[c][1] = toSrv[c][2] /\ cli' = cli /\ Duplex(c)'
  BY <1>3, <1>4, ReadOne
<1>6. \/ cli[c].pc = "left"
      \/ cli[c].pc = "asked" /\ toSrv[c][2].val = Number(cli[c].policy)
  <2>1. cli[c].pc \in CliPcs
    BY DEF Types, TypeOK, CliPcs
  <2> QED
    BY <1>1, <1>2, <1>3, <2>1, Ops DEF Good, Turns, Silent, Hears, Asks, CliPcs
<1> QED
  BY <1>5, <1>6 DEF Good, Script, Turns, Asks

\* A request for a new secret or an account.
LEMMA OwnOpGood ==
    ASSUME Types, NEW c \in Clients, Good(c), OwnOp(c), ~Ended(c)
    PROVE  Good(c)'
<1> DEFINE pc == IF kind = "host" THEN "update" ELSE "account"
<1>1. Turn(c, <<>>, pc, NoPolicy) /\ up /\ srv[c].pc = "op" /\ cli[c].pc # "away"
  BY DEF OwnOp, At
<1> HIDE DEF pc
<1>2. Len(toSrv[c]) > 0 /\ toSrv[c][1].val = Op(2)
  BY InStepReads DEF OwnOp
<1>3. Len(toSrv[c]) = 1
  BY <1>1, <1>2, Ops DEF Good, Script
<1>4. Reads(c, <<>>, pc, NoPolicy)
  BY <1>1, <1>2, Answers DEF Reads, Good
<1>5. /\ Len(toSrv'[c]) = 0 /\ Len(toCli'[c]) = 0 /\ srv'[c].pc = pc
      /\ cli' = cli /\ kind' = kind /\ Duplex(c)'
  BY <1>3, <1>4, ReadOne
<1>6. cli[c].pc = "left" \/ (cli[c].pc = "update" /\ kind = "host")
  <2>1. cli[c].pc \in CliPcs
    BY DEF Types, TypeOK, CliPcs
  <2> QED
    BY <1>1, <1>2, <1>3, <2>1, Ops DEF Good, Turns, Silent, Hears, Asks, CliPcs
<1> QED
  BY <1>5, <1>6 DEF Good, Script, Turns, Silent, pc

\* A request for the list.
LEMMA ListOpGood ==
    ASSUME Types, NEW c \in Clients, Good(c), ListOp(c), ~Ended(c), Listing \in Seq(Nat)
    PROVE  Good(c)'
<1>1. Turn(c, <<Listing>>, "op", NoPolicy) /\ up /\ srv[c].pc = "op" /\ cli[c].pc # "away"
  BY DEF ListOp, At, Flushed
<1>2. Len(toSrv[c]) > 0 /\ toSrv[c][1].val = Op(3)
  BY InStepReads DEF ListOp
<1>3. Len(toSrv[c]) = 1
  BY <1>1, <1>2, Ops DEF Good, Script
<1>4. Reads(c, <<Listing>>, "op", NoPolicy)
  BY <1>1, <1>2, <1>3, Answers DEF Reads, Good
<1>5. /\ Len(toSrv'[c]) = 0 /\ Len(toCli'[c]) = 1 /\ srv'[c].pc = "op"
      /\ cli' = cli /\ Duplex(c)'
  BY <1>3, <1>4, ReadOne
<1>6. cli[c].pc \in {"left", "list"}
  <2>1. cli[c].pc \in CliPcs
    BY DEF Types, TypeOK, CliPcs
  <2> QED
    BY <1>1, <1>2, <1>3, <2>1, Ops DEF Good, Turns, Silent, Hears, Asks, CliPcs
<1> QED
  BY <1>5, <1>6 DEF Good, Script, Turns, Hears

\* Looking up the policy that was asked for.
LEMMA FindPolicyGood ==
    ASSUME Types, NEW c \in Clients, Good(c), FindPolicy(c), ~Ended(c)
    PROVE  Good(c)'
<1>1. up /\ srv[c].pc = "policy" /\ cli[c].pc # "away"
  BY DEF FindPolicy, At
<1>2. PICK p \in IDs :
          /\ Number(p) \in Readable(c, {Number(p)})
          /\ IF p \in Policies THEN Turn(c, <<Yes>>, "mode", p)
                              ELSE Turn(c, <<No>>, "op", NoPolicy)
  BY DEF FindPolicy, Found, IDs
<1>3. Len(toSrv[c]) = 1 /\ toSrv[c][1].val = Number(p)
  <2>1. Len(toSrv[c]) > 0 /\ toSrv[c][1].val = Number(p)
    BY <1>2, InStepReads
  <2> QED
    BY <1>1, <2>1 DEF Good, Script
<1>4. \/ cli[c].pc = "left"
      \/ cli[c].pc = "asked" /\ cli[c].policy = p
  <2>1. cli[c].pc \in CliPcs /\ cli[c].policy \in IDs
    BY DEF Types, TypeOK, CliPcs, IDs
  <2>2. Number(cli[c].policy) = Number(p) => cli[c].policy = p
    BY <2>1, Numbers, Parts
  <2> QED
    BY <1>1, <1>3, <2>1, <2>2 DEF Good, Turns, Silent, Hears, Asks, CliPcs
<1>5. CASE p \in Policies
  <2>1. Reads(c, <<Yes>>, "mode", p)
    BY <1>2, <1>3, <1>5, Answers DEF Reads, Good
  <2>2. /\ Len(toSrv'[c]) = 0 /\ srv'[c].pc = "mode" /\ srv'[c].policy = p
        /\ cli' = cli /\ Duplex(c)'
    BY <1>3, <2>1, ReadOne
  <2>3. Len(toCli'[c]) = 1 /\ toCli'[c][1].val = Yes
    BY <2>1, ReadOne, Answers
  <2> QED
    BY <1>4, <2>2, <2>3 DEF Good, Script, Turns, Hears
<1>6. CASE p \notin Policies
  <2>1. Reads(c, <<No>>, "op", NoPolicy)
    BY <1>2, <1>3, <1>6, Answers DEF Reads, Good
  <2>2. /\ Len(toSrv'[c]) = 0 /\ srv'[c].pc = "op"
        /\ cli' = cli /\ Duplex(c)'
    BY <1>3, <2>1, ReadOne
  <2>3. Len(toCli'[c]) = 1 /\ toCli'[c][1].val # Yes
    BY <2>1, ReadOne, Answers, Ops
  <2> QED
    BY <1>4, <2>2, <2>3 DEF Good, Script, Turns, Hears
<1> QED
  BY <1>5, <1>6

\* Reading a policy.
LEMMA GetPolicyGood ==
    ASSUME Types, NEW c \in Clients, Good(c), GetPolicy(c), ~Ended(c),
           Number(policies[srv[c].policy]) \in Seq(Nat)
    PROVE  Good(c)'
<1> DEFINE a == Number(policies[srv[c].policy])
<1>1. Turn(c, <<a>>, "op", NoPolicy) /\ up /\ srv[c].pc = "mode" /\ cli[c].pc # "away"
  BY DEF GetPolicy, At, Flushed
<1> HIDE DEF a
<1>2. Len(toSrv[c]) > 0 /\ toSrv[c][1].val = Op(1)
  BY InStepReads DEF GetPolicy, IsGet
<1>3. Len(toSrv[c]) = 1
  BY <1>1, <1>2, Ops DEF Good, Script
<1>4. Reads(c, <<a>>, "op", NoPolicy)
  BY <1>1, <1>2, <1>3, Answers DEF Reads, Good, a
<1>5. /\ Len(toSrv'[c]) = 0 /\ Len(toCli'[c]) = 1 /\ srv'[c].pc = "op"
      /\ cli' = cli /\ Duplex(c)'
  BY <1>3, <1>4, ReadOne DEF a
<1>6. cli[c].pc \in {"left", "sent"}
  <2>1. cli[c].pc \in CliPcs
    BY DEF Types, TypeOK, CliPcs
  <2> QED
    BY <1>1, <1>2, <1>3, <2>1, Ops DEF Good, Turns, Silent, Hears, Asks, CliPcs
<1> QED
  BY <1>5, <1>6 DEF Good, Script, Turns, Hears

\* Asking to set a policy.
LEMMA SetModeGood ==
    ASSUME Types, NEW c \in Clients, Good(c), SetMode(c), ~Ended(c)
    PROVE  Good(c)'
<1>1. /\ Turn(c, <<>>, "value", srv[c].policy) /\ up /\ srv[c].pc = "mode"
      /\ cli[c].pc # "away"
  BY DEF SetMode, At
<1>2. Len(toSrv[c]) > 0 /\ toSrv[c][1].val # Op(1)
  BY InStepReads DEF SetMode, IsGet
<1>3. Len(toSrv[c]) = 2 /\ Wanted(c, toSrv[c][2].val)
  BY <1>1, <1>2, Ops DEF Good, Script
<1>4. Reads(c, <<>>, "value", srv[c].policy)
  BY <1>1, <1>2, Answers DEF Reads, Good
<1>5. /\ Len(toSrv'[c]) = 1 /\ Len(toCli'[c]) = 0 /\ srv'[c].pc = "value"
      /\ toSrv'[c][1] = toSrv[c][2] /\ cli' = cli /\ Duplex(c)'
  BY <1>3, <1>4, ReadOne
<1>6. srv'[c].policy = srv[c].policy /\ asked' = asked
  BY <1>4, ReadOne
<1>7. Wanted(c, toSrv[c][1].val)'
  BY <1>3, <1>5, <1>6 DEF Wanted
<1>8. cli[c].pc \in {"left", "sent"}
  <2>1. cli[c].pc \in CliPcs
    BY DEF Types, TypeOK, CliPcs
  <2> QED
    BY <1>1, <1>2, <1>3, <2>1, Ops DEF Good, Turns, Silent, Hears, Asks, CliPcs
<1>9. Script(c)'
  BY <1>5, <1>7 DEF Script
<1> QED
  BY <1>5, <1>8, <1>9 DEF Good, Turns, Asks

\* Setting a policy.
LEMMA SetPolicyGood ==
    ASSUME Types, NEW c \in Clients, Good(c), SetPolicy(c), ~Ended(c)
    PROVE  Good(c)'
<1>1. Turn(c, <<Yes>>, "op", NoPolicy) /\ up /\ srv[c].pc = "value" /\ cli[c].pc # "away"
  BY DEF SetPolicy, At
<1>2. Len(toSrv[c]) > 0
  BY InStepReads DEF SetPolicy
<1>3. Len(toSrv[c]) = 1
  BY <1>1, <1>2 DEF Good, Script
<1>4. Reads(c, <<Yes>>, "op", NoPolicy)
  BY <1>1, <1>2, <1>3, Answers DEF Reads, Good
<1>5. /\ Len(toSrv'[c]) = 0 /\ Len(toCli'[c]) = 1 /\ srv'[c].pc = "op"
      /\ cli' = cli /\ Duplex(c)'
  BY <1>3, <1>4, ReadOne, Answers
<1>6. cli[c].pc \in {"left", "sent"}
  <2>1. cli[c].pc \in CliPcs
    BY DEF Types, TypeOK, CliPcs
  <2> QED
    BY <1>1, <1>2, <1>3, <2>1, Ops DEF Good, Turns, Silent, Hears, Asks, CliPcs
<1> QED
  BY <1>5, <1>6 DEF Good, Script, Turns, Hears

\* Every turn of a loop in step keeps its connection in step.
LEMMA ServeGood ==
    ASSUME Types, NEW c \in Clients, Good(c), Serve(c)
    PROVE  Good(c)'
<1>1. CASE ~Ended(c)
  <2>1. ~UnknownOp(c)
    <3> SUFFICES ASSUME UnknownOp(c) PROVE FALSE
      OBVIOUS
    <3>1. Len(toSrv[c]) > 0 /\ toSrv[c][1].val = Other /\ up /\ srv[c].pc = "op"
      BY <1>1, InStepReads DEF UnknownOp, At
    <3> QED
      BY <3>1, Ops DEF Good, Script
  <2>2. ~Account(c)
    BY <1>1 DEF Account
  <2> QED
    BY <1>1, <2>1, <2>2, Bundles, QuitGood, PolicyOpGood, OwnOpGood, ListOpGood,
       FindPolicyGood, GetPolicyGood, SetModeGood, SetPolicyGood DEF Serve
<1>2. CASE Ended(c)
  <2>1. PICK answers, pc, policy : Answer(answers) /\ Turn(c, answers, pc, policy)
    <3>1. Quit(c) => Turn(c, <<>>, "closed", NoPolicy)
      BY DEF Quit
    <3>2. PolicyOp(c) => Turn(c, <<>>, "policy", NoPolicy)
      BY DEF PolicyOp
    <3>3. OwnOp(c) => Turn(c, <<>>, IF kind = "host" THEN "update" ELSE "account", NoPolicy)
      BY DEF OwnOp
    <3>4. ListOp(c) => Turn(c, <<Listing>>, "op", NoPolicy) /\ Answer(<<Listing>>)
      BY Bundles, Answers DEF ListOp, Flushed
    <3>5. UnknownOp(c) => Turn(c, IF kind = "auth" THEN <<Other>> ELSE <<>>, "op", NoPolicy)
      BY DEF UnknownOp
    <3>6. Account(c) => Turn(c, <<Yes>>, "op", NoPolicy)
      BY DEF Account
    <3>7. FindPolicy(c) => \E p : Turn(c, <<Yes>>, "mode", p) \/ Turn(c, <<No>>, "op", NoPolicy)
      BY DEF FindPolicy
    <3>8. GetPolicy(c) => /\ Turn(c, <<Number(policies[srv[c].policy])>>, "op", NoPolicy)
                         /\ Answer(<<Number(policies[srv[c].policy])>>)
      BY Bundles, Answers DEF GetPolicy, Flushed
    <3>9. SetMode(c) => Turn(c, <<>>, "value", srv[c].policy)
      BY DEF SetMode
    <3>10. SetPolicy(c) => Turn(c, <<Yes>>, "op", NoPolicy)
      BY DEF SetPolicy
    <3>11. Answer(IF kind = "auth" THEN <<Other>> ELSE <<>>)
      BY Answers
    <3> QED
      BY <3>1, <3>2, <3>3, <3>4, <3>5, <3>6, <3>7, <3>8, <3>9, <3>10, <3>11, Answers DEF Serve
  <2> QED
    BY <1>2, <2>1, EndGood
<1> QED
  BY <1>1, <1>2

\* The answer after an update.
LEMMA UpdateGood ==
    ASSUME Types, NEW c \in Clients, Good(c), UpdateDone(c)
    PROVE  Good(c)'
<1>1. /\ up /\ srv[c].pc = "update" /\ srv' = [srv EXCEPT ![c].pc = "op"]
      /\ toCli' = [toCli EXCEPT ![c] = @ \o Crypted(<<Yes>>, sKey[c])]
      /\ sKey' = [sKey EXCEPT ![c] = @ + 1]
      /\ toSrv' = toSrv /\ cli' = cli /\ kind' = kind /\ cKey' = cKey
  BY DEF UpdateDone, At, clientVars
<1>2. Len(toSrv[c]) = 0
  BY <1>1 DEF Good, Script
<1>3. /\ toCli[c] \in Seq(Msg) /\ sKey[c] \in Nat /\ cKey[c] \in Nat /\ Len(toCli[c]) \in Nat
      /\ DOMAIN srv = Clients /\ DOMAIN toCli = Clients /\ DOMAIN sKey = Clients
  BY Lengths DEF Types, TypeOK, WireOK
<1>4. <<Yes>> \in Pieces /\ Len(<<Yes>>) = 1
  BY Answers, Short
<1>5. Grown(toCli[c], toCli'[c], <<Yes>>, sKey[c])
  BY <1>1, <1>3, <1>4, Written
<1>6. /\ Len(toCli'[c]) = Len(toCli[c]) + 1
      /\ \A i \in 1..Len(toCli[c]) : toCli'[c][i] = toCli[c][i]
      /\ toCli'[c][Len(toCli[c]) + 1].at = sKey[c] + 1 - 1
  <2>1. toCli'[c][Len(toCli[c]) + 1] = [at |-> sKey[c] + 1 - 1, val |-> <<Yes>>[1]]
    BY <1>4, <1>5 DEF Grown
  <2> QED
    BY <1>4, <1>5, <2>1 DEF Grown
<1>7. sKey[c] = cKey[c] + Len(toCli[c]) /\ sKey'[c] = sKey[c] + 1
  BY <1>1, <1>2, <1>3 DEF Good, Duplex
<1>8. Duplex(c)'
  <2>1. \A i \in 1..Len(toCli'[c]) : toCli'[c][i].at = cKey'[c] + i - 1
    <3> TAKE i \in 1..Len(toCli'[c])
    <3>1. i \in 1..Len(toCli[c]) \/ i = Len(toCli[c]) + 1
      BY <1>3, <1>6
    <3>2. i \in 1..Len(toCli[c]) => toCli[c][i].at = cKey[c] + i - 1
      BY DEF Good, Duplex
    <3>3. sKey[c] + 1 - 1 = cKey[c] + (Len(toCli[c]) + 1) - 1
      BY <1>3, <1>7
    <3> QED
      BY <1>1, <1>6, <3>1, <3>2, <3>3
  <2>2. sKey'[c] + Len(toSrv'[c]) = cKey'[c] + Len(toCli'[c])
    BY <1>1, <1>2, <1>3, <1>6, <1>7
  <2> QED
    BY <1>1, <1>2, <2>1, <2>2 DEF Duplex
<1>9. Script(c)'
  BY <1>1, <1>2 DEF Script
<1>10. cli[c].pc = "left" \/ (cli[c].pc = "update" /\ kind = "host" /\ Len(toCli[c]) = 0)
  <2>1. cli[c].pc \in CliPcs
    BY DEF Types, TypeOK, CliPcs
  <2> QED
    BY <1>1, <1>2, <2>1 DEF Good, Turns, Silent, Hears, Asks, CliPcs
<1>11. srv'[c].pc = "op"
  BY <1>1, <1>3 DEF Types, TypeOK
<1>12. cli[c].pc = "update" => Len(toCli'[c]) = 1
  BY <1>6, <1>10
<1>13. Turns(c)'
  BY <1>1, <1>2, <1>10, <1>11, <1>12 DEF Turns, Hears
<1> QED
  BY <1>8, <1>9, <1>13 DEF Good

\* A client that speaks in its turn.
Speaks(c, values, pc, policy) ==
    /\ Duplex(c)
    /\ \/ Hears(c) /\ Say(c, TRUE, values, pc, policy)
       \/ Silent(c) /\ Say(c, FALSE, values, pc, policy)

\* A client that speaks in its turn leaves both ends in step.
LEMMA SpeakOne ==
    ASSUME Types, NEW c \in Clients, NEW values \in Pieces,
           NEW pc, NEW policy, Speaks(c, values, pc, policy)
    PROVE  /\ Duplex(c)'
           /\ Len(toCli'[c]) = 0 /\ Len(toSrv'[c]) = Len(values)
           /\ \A i \in 1..Len(values) : toSrv'[c][i].val = values[i]
           /\ cli'[c].pc = pc /\ cli'[c].policy = policy
           /\ srv' = srv /\ kind' = kind /\ up' = up
<1>0. PICK read \in BOOLEAN :
          Duplex(c) /\ Say(c, read, values, pc, policy) /\ (IF read THEN Hears(c) ELSE Silent(c))
  BY DEF Speaks
<1>1. /\ read => Shrunk(toCli[c], toCli'[c])
      /\ ~read => toCli' = toCli
      /\ Grown(toSrv[c], toSrv'[c], values, IF read THEN cKey[c] + 1 ELSE cKey[c])
      /\ cli'[c].pc = pc /\ cli'[c].policy = policy /\ UNCHANGED serverVars
  BY <1>0, SayMoves
<1>2. Len(values) \in Nat
  BY Written DEF Types, WireOK
<1>3. Len(toSrv[c]) = 0
  BY <1>0 DEF Hears, Silent
<1>4. Len(toCli'[c]) = 0
  <2>1. CASE read
    <3>1. Len(toCli[c]) = 1 /\ Len(toCli'[c]) = Len(toCli[c]) - 1
      BY <1>0, <1>1, <2>1 DEF Hears, Shrunk
    <3> QED
      BY <3>1
  <2>2. CASE ~read
    BY <1>0, <1>1, <2>2 DEF Silent
  <2> QED
    BY <2>1, <2>2
<1>5. Len(toSrv'[c]) = Len(values)
  <2>1. Len(toSrv'[c]) = 0 + Len(values)
    BY <1>1, <1>3 DEF Grown
  <2> QED
    BY <1>2, <2>1
<1>6. \A i \in 1..Len(values) : toSrv'[c][i].val = values[i]
  <2> TAKE i \in 1..Len(values)
  <2> DEFINE at == IF read THEN cKey[c] + 1 ELSE cKey[c]
  <2> HIDE DEF at
  <2>1. Grown(toSrv[c], toSrv'[c], values, at)
    BY <1>1 DEF at
  <2>2. toSrv'[c][0 + i] = [at |-> at + i - 1, val |-> values[i]]
    BY <1>3, <2>1 DEF Grown
  <2>3. 0 + i = i
    BY <1>2
  <2> QED
    BY <2>2, <2>3
<1>7. Duplex(c)'
  BY <1>0, SayDuplex
<1> QED
  BY <1>1, <1>4, <1>5, <1>6, <1>7 DEF serverVars

\* It may say one value ...
LEMMA SpeakValue ==
    ASSUME Types, NEW c \in Clients, NEW v \in Seq(Nat), NEW pc, NEW policy,
           Speaks(c, <<v>>, pc, policy)
    PROVE  Len(toCli'[c]) = 0 /\ Len(toSrv'[c]) = 1 /\ toSrv'[c][1].val = v
<1>1. <<v>> \in Pieces /\ Len(<<v>>) = 1 /\ <<v>>[1] = v
  BY Short
<1> QED
  BY <1>1, SpeakOne

\* ... or two.
LEMMA SpeakPair ==
    ASSUME Types, NEW c \in Clients, NEW v \in Seq(Nat), NEW w \in Seq(Nat), NEW pc,
           NEW policy, Speaks(c, <<v, w>>, pc, policy)
    PROVE  /\ Len(toCli'[c]) = 0 /\ Len(toSrv'[c]) = 2
           /\ toSrv'[c][1].val = v /\ toSrv'[c][2].val = w
<1>1. <<v, w>> \in Pieces /\ Len(<<v, w>>) = 2 /\ <<v, w>>[1] = v /\ <<v, w>>[2] = w
  BY Short
<1> QED
  BY <1>1, SpeakOne

\* What a client says.
LEMMA Sayings ==
    /\ <<>> \in Pieces /\ Op(0) \in Seq(Nat) /\ Op(1) \in Seq(Nat) /\ Op(2) \in Seq(Nat)
    /\ Op(3) \in Seq(Nat) /\ (\A n \in Nat : Number(n) \in Seq(Nat))
    /\ \A v \in Seq(Nat) : <<v>> \in Pieces
    /\ \A v, w \in Seq(Nat) : <<v, w>> \in Pieces
BY Short, Numbers DEF Op

\* Every step of a client in step keeps its connection in step, or leaves it
\* astray by closing the panel too early.
LEMMA OpenGood ==
    ASSUME Types, NEW c \in Clients, Good(c), Open(c) PROVE Good(c)'
<1>1. Silent(c) /\ srv[c].pc = "op" /\ Say(c, FALSE, <<Op(3)>>, "list", NoPolicy)
  BY DEF Open, Good, Turns
<1>2. Speaks(c, <<Op(3)>>, "list", NoPolicy) /\ <<Op(3)>> \in Pieces
  BY <1>1, Sayings DEF Speaks, Good
<1>3. Duplex(c)' /\ cli'[c].pc = "list" /\ srv' = srv
  BY <1>2, SpeakOne
<1>4. Len(toCli'[c]) = 0 /\ Len(toSrv'[c]) = 1 /\ toSrv'[c][1].val = Op(3)
  BY <1>2, SpeakValue, Sayings
<1> QED
  BY <1>1, <1>3, <1>4 DEF Good, Script, Turns, Asks

\* A client that reads its answer.
LEMMA ReadGood ==
    ASSUME Types, NEW c \in Clients, Good(c), ListShown(c) \/ Done(c) PROVE Good(c)'
<1>1. Say(c, TRUE, <<>>, "idle", NoPolicy) /\ toCli[c] # <<>>
  BY DEF ListShown, Done, Say
<1>2. Len(toCli[c]) # 0 /\ toCli[c][1] = Head(toCli[c])
  BY <1>1, Lengths
<1>3. Hears(c) /\ srv[c].pc = "op"
  <2>1. cli[c].pc \in {"list", "sent", "update"} \/ (cli[c].pc = "asked" /\ toCli[c][1].val # Yes)
    BY <1>2 DEF ListShown, Done
  <2> QED
    BY <1>2, <2>1 DEF Good, Turns, Asks, Hears, Silent
<1>4. Speaks(c, <<>>, "idle", NoPolicy)
  BY <1>1, <1>3 DEF Speaks, Good
<1>5. Duplex(c)' /\ cli'[c].pc = "idle" /\ srv' = srv
  BY <1>4, SpeakOne, Sayings
<1>6. Len(toCli'[c]) = 0 /\ Len(toSrv'[c]) = 0
  BY <1>4, SpeakOne, Short
<1> QED
  BY <1>3, <1>5, <1>6 DEF Good, Script, Turns, Silent

\* A client that asks.
LEMMA AskGood ==
    ASSUME Types, NEW c \in Clients, Good(c), Ask(c) PROVE Good(c)'
<1>1. Silent(c) /\ srv[c].pc = "op" /\ Duplex(c)
  BY DEF Ask, Good, Turns
<1>2. CASE \E p \in IDs : Say(c, FALSE, <<Op(1), Number(p)>>, "asked", p)
  <2>1. PICK p \in IDs : Say(c, FALSE, <<Op(1), Number(p)>>, "asked", p)
    BY <1>2
  <2>2. Number(p) \in Seq(Nat) /\ <<Op(1), Number(p)>> \in Pieces
    BY Sayings, Parts
  <2>3. Speaks(c, <<Op(1), Number(p)>>, "asked", p)
    BY <1>1, <2>1 DEF Speaks
  <2>4. Duplex(c)' /\ cli'[c].pc = "asked" /\ cli'[c].policy = p /\ srv' = srv
    BY <2>2, <2>3, SpeakOne
  <2>5. /\ Len(toCli'[c]) = 0 /\ Len(toSrv'[c]) = 2
        /\ toSrv'[c][1].val = Op(1) /\ toSrv'[c][2].val = Number(p)
    BY <2>2, <2>3, SpeakPair, Sayings
  <2> QED
    BY <1>1, <2>4, <2>5 DEF Good, Script, Turns, Asks
<1>3. CASE kind = "host" /\ Say(c, FALSE, <<Op(2)>>, "update", NoPolicy)
  <2>1. Speaks(c, <<Op(2)>>, "update", NoPolicy) /\ <<Op(2)>> \in Pieces
    BY <1>1, <1>3, Sayings DEF Speaks
  <2>2. Duplex(c)' /\ cli'[c].pc = "update" /\ srv' = srv /\ kind' = kind
    BY <2>1, SpeakOne
  <2>3. Len(toCli'[c]) = 0 /\ Len(toSrv'[c]) = 1 /\ toSrv'[c][1].val = Op(2)
    BY <2>1, SpeakValue, Sayings
  <2> QED
    BY <1>1, <1>3, <2>2, <2>3 DEF Good, Script, Turns, Asks
<1> QED
  BY <1>2, <1>3 DEF Ask, IDs

\* The client heard that the server has found its policy.
LEMMA ChooseFound ==
    ASSUME Types, NEW c \in Clients, Good(c), Choose(c)
    PROVE  /\ Hears(c) /\ srv[c].pc = "mode" /\ srv[c].policy = cli[c].policy
           /\ cli[c].policy \in Policies
<1>1. cli[c].pc = "asked" /\ Len(toCli[c]) # 0 /\ toCli[c][1].val = Yes
  BY Lengths DEF Choose
<1>2. Hears(c) /\ srv[c].pc = "mode" /\ srv[c].policy = cli[c].policy
  BY <1>1 DEF Good, Turns, Asks, Hears
<1> QED
  BY <1>2 DEF Types, TypeOK

\* A client that chooses a value.
LEMMA ChooseGood ==
    ASSUME Types, NEW c \in Clients, Good(c), Choose(c) PROVE Good(c)'
<1>1. Hears(c) /\ srv[c].pc = "mode" /\ srv[c].policy = cli[c].policy /\ Duplex(c)
  BY ChooseFound DEF Good
<1>2. CASE Say(c, TRUE, <<Op(1)>>, "sent", NoPolicy)
  <2>1. Speaks(c, <<Op(1)>>, "sent", NoPolicy) /\ <<Op(1)>> \in Pieces
    BY <1>1, <1>2, Sayings DEF Speaks
  <2>2. Duplex(c)' /\ cli'[c].pc = "sent" /\ srv' = srv
    BY <2>1, SpeakOne
  <2>3. Len(toCli'[c]) = 0 /\ Len(toSrv'[c]) = 1 /\ toSrv'[c][1].val = Op(1)
    BY <2>1, SpeakValue, Sayings
  <2> QED
    BY <1>1, <2>2, <2>3 DEF Good, Script, Turns, Asks
<1>3. ASSUME NEW v \in Values, Say(c, TRUE, <<Op(2), Number(v)>>, "sent", NoPolicy),
             asked' = asked \cup {<<cli[c].policy, v>>}
      PROVE  Good(c)'
  <2>1. Number(v) \in Seq(Nat) /\ <<Op(2), Number(v)>> \in Pieces
    BY Sayings, Parts
  <2>2. Speaks(c, <<Op(2), Number(v)>>, "sent", NoPolicy)
    BY <1>1, <1>3 DEF Speaks
  <2>3. Duplex(c)' /\ cli'[c].pc = "sent" /\ srv' = srv
    BY <2>1, <2>2, SpeakOne
  <2>4. /\ Len(toCli'[c]) = 0 /\ Len(toSrv'[c]) = 2
        /\ toSrv'[c][1].val = Op(2) /\ toSrv'[c][2].val = Number(v)
    BY <2>1, <2>2, SpeakPair, Sayings
  <2>5. Wanted(c, toSrv[c][2].val)'
    BY <1>1, <1>3, <2>3, <2>4 DEF Wanted
  <2>6. Script(c)'
    BY <1>1, <2>3, <2>4, <2>5 DEF Script
  <2> QED
    BY <1>1, <2>3, <2>4, <2>6 DEF Good, Turns, Asks
<1> QED
  BY <1>2, <1>3 DEF Choose

\* A page that is closed, in its turn or too early.
LEMMA CloseConnection ==
    ASSUME Types, NEW c \in Clients, c \notin hasty, Good(c), ClosePanel(c)
    PROVE  Connection(c)'
<1>0. Say(c, FALSE, <<Op(0)>>, "closed", NoPolicy) /\ cli[c].pc \in {"list", "idle"}
      /\ hasty' = IF cli[c].pc = "list" THEN hasty \cup {c} ELSE hasty
  BY DEF ClosePanel
<1>1. CASE cli[c].pc = "idle"
  <2>1. Silent(c) /\ srv[c].pc = "op"
    BY <1>1 DEF Good, Turns
  <2>2. Speaks(c, <<Op(0)>>, "closed", NoPolicy) /\ <<Op(0)>> \in Pieces
    BY <1>0, <2>1, Sayings DEF Speaks, Good
  <2>3. Duplex(c)' /\ cli'[c].pc = "closed" /\ srv' = srv
    BY <2>2, SpeakOne
  <2>4. Len(toCli'[c]) = 0 /\ Len(toSrv'[c]) = 1 /\ toSrv'[c][1].val = Op(0)
    BY <2>2, SpeakValue, Sayings
  <2>5. Good(c)'
    BY <2>1, <2>3, <2>4 DEF Good, Script, Turns, Asks
  <2>6. c \notin hasty'
    BY <1>0, <1>1
  <2> QED
    BY <2>5, <2>6 DEF Connection
<1>2. CASE cli[c].pc = "list"
  <2>1. /\ srv[c].pc = "op"
        /\ \/ Len(toSrv[c]) = 1 /\ toSrv[c][1].val = Op(3)
           \/ Len(toSrv[c]) = 0
    BY <1>2 DEF Good, Turns, Hears
  <2>2. /\ Grown(toSrv[c], toSrv'[c], <<Op(0)>>, cKey[c]) /\ cli'[c].pc = "closed"
        /\ srv' = srv /\ sKey' = sKey
    <3>1. <<Op(0)>> \in Pieces
      BY Sayings
    <3>2. Grown(toSrv[c], toSrv'[c], <<Op(0)>>, cKey[c])
      BY <1>0, <3>1, SayMoves
    <3>3. cli'[c].pc = "closed"
      BY <1>0 DEF Say, Types, TypeOK
    <3>4. srv' = srv /\ sKey' = sKey
      BY <1>0 DEF Say, serverVars
    <3> QED
      BY <3>2, <3>3, <3>4
  <2>3. Len(toSrv'[c]) = Len(toSrv[c]) + 1 /\ \A i \in 1..Len(toSrv[c]) : toSrv'[c][i] = toSrv[c][i]
    BY <2>2, Short, Sayings DEF Grown
  <2>4. CASE Len(toSrv[c]) = 0
    <3>1. Len(toSrv'[c]) = 1
      BY <2>3, <2>4
    <3> QED
      BY <1>0, <1>2, <2>1, <2>2, <3>1 DEF Connection, Astray
  <2>5. CASE Len(toSrv[c]) = 1 /\ toSrv[c][1].val = Op(3)
    <3>1. Len(toSrv'[c]) = 2 /\ toSrv'[c][1] = toSrv[c][1]
      BY <2>3, <2>5
    <3>2. toSrv[c][1].at = sKey[c]
      <4>1. toSrv[c][1].at = sKey[c] + 1 - 1
        BY <2>5 DEF Good, Duplex
      <4> QED
        BY <4>1, Lengths
    <3> QED
      BY <1>0, <1>2, <2>1, <2>2, <2>5, <3>1, <3>2 DEF Connection, Astray
  <2> QED
    BY <2>1, <2>4, <2>5
<1> QED
  BY <1>0, <1>1, <1>2

\* A client that goes away.
LEMMA LeaveConnection ==
    ASSUME Types, NEW c \in Clients, Connection(c), Leave(c)
    PROVE  Connection(c)'
<1>1. /\ cli'[c].pc = "left" /\ srv' = srv /\ sKey' = sKey /\ cKey' = cKey /\ up' = up
      /\ toSrv' = toSrv /\ toCli' = toCli /\ asked' = asked /\ hasty' = hasty
  BY DEF Leave, serverVars, Types, TypeOK
<1>2. Good(c) => Good(c)'
  <2>1. Duplex(c) => Duplex(c)'
    BY <1>1 DEF Duplex
  <2>2. Script(c) => Script(c)'
    BY <1>1 DEF Script, Wanted
  <2>3. Turns(c)'
    BY <1>1 DEF Turns
  <2> QED
    BY <2>1, <2>2, <2>3 DEF Good
<1>3. Astray(c) => Astray(c)'
  BY <1>1 DEF Astray
<1> QED
  BY <1>1, <1>2, <1>3 DEF Connection

-----------------------------------------------------------------------------
(* Connections out of step                                                  *)

\* What a loop makes of bytes it cannot understand.
LEMMA AstrayTurn ==
    ASSUME Types, NEW c \in Clients, NEW answers \in Pieces, NEW pc, NEW policy,
           Turn(c, answers, pc, policy), Astray(c),
           up' => \/ pc = "op" /\ Len(toSrv[c]) = 2 /\ ~Ended(c)
                  \/ /\ pc \in {"op", "policy", "update", "account", "closed"}
                     /\ \/ Len(toSrv[c]) = 1 /\ ~Ended(c)
                        \/ Len(toSrv[c]) = 0 /\ Ended(c)
    PROVE  Astray(c)'
<1>1. cli' = cli /\ srv'[c].pc = pc /\ (Ended(c) => toSrv' = toSrv)
      /\ (~Ended(c) /\ toSrv[c] # <<>> => Shrunk(toSrv[c], toSrv'[c]))
  <2>1. srv'[c] = [pc |-> pc, policy |-> policy] /\ (Ended(c) => toSrv' = toSrv)
    BY TurnMoves
  <2>2. ~Ended(c) /\ toSrv[c] # <<>> => Shrunk(toSrv[c], toSrv'[c])
    BY TurnMoves
  <2>3. cli' = cli
    BY DEF Turn, clientVars
  <2> QED
    BY <2>1, <2>2, <2>3
<1>2. Len(toSrv[c]) \in Nat /\ (toSrv[c] = <<>> <=> Len(toSrv[c]) = 0)
  BY Lengths
<1>3. CASE Len(toSrv[c]) = 2 /\ ~Ended(c) /\ pc = "op"
  <2>1. Len(toSrv'[c]) = 2 - 1
    BY <1>1, <1>2, <1>3 DEF Shrunk
  <2> QED
    BY <1>1, <1>3, <2>1 DEF Astray
<1>4. CASE /\ pc \in {"op", "policy", "update", "account", "closed"}
           /\ Len(toSrv[c]) = 1 /\ ~Ended(c)
  <2>1. Len(toSrv'[c]) = 1 - 1
    BY <1>1, <1>2, <1>4 DEF Shrunk
  <2> QED
    BY <1>1, <1>4, <2>1 DEF Astray
<1>5. CASE /\ pc \in {"op", "policy", "update", "account", "closed"}
           /\ Len(toSrv[c]) = 0 /\ Ended(c)
  BY <1>1, <1>5 DEF Astray
<1>6. CASE ~up'
  BY <1>1, <1>6 DEF Astray
<1> QED
  BY <1>3, <1>4, <1>5, <1>6

\* Out of step the loop may take the zero for any operation, but the end of the
\* stream stops it, or the process, before it sets a policy.
LEMMA ServeAstray ==
    ASSUME Types, NEW c \in Clients, Astray(c), Serve(c)
    PROVE  Astray(c)'
<1>1. up
  BY DEF Serve, Quit, PolicyOp, OwnOp, ListOp, UnknownOp, Account, FindPolicy, GetPolicy,
         SetMode, SetPolicy, At
<1>2. srv[c].pc \notin {"mode", "value"}
  BY <1>1 DEF Astray
<1>3. /\ <<>> \in Pieces /\ <<Listing>> \in Pieces /\ <<Yes>> \in Pieces /\ <<No>> \in Pieces
      /\ (IF kind = "auth" THEN <<Other>> ELSE <<>>) \in Pieces
  <2>1. Other \in Seq(Nat)
    BY Numbers DEF Other
  <2> QED
    BY <2>1, Bundles, Sayings, Answers
<1>4. /\ Ended(c) => Len(toSrv[c]) = 0
      /\ ~Ended(c) /\ Len(toSrv[c]) = 2 => srv[c].pc = "op" /\ Head(toSrv[c]).at = sKey[c]
                                          /\ Head(toSrv[c]).val = Op(3) /\ toSrv[c] # <<>>
  BY <1>1, Lengths DEF Astray, Ended
<1>5. ASSUME NEW any, Readable(c, any) # {}
      PROVE  \/ Len(toSrv[c]) = 2 /\ ~Ended(c) /\ Readable(c, any) = {Op(3)} /\ srv[c].pc = "op"
             \/ Len(toSrv[c]) = 1 /\ ~Ended(c) /\ srv[c].pc = "op"
             \/ Len(toSrv[c]) = 0 /\ Ended(c) /\ Readable(c, any) = {Op(0)}
  BY <1>1, <1>4, <1>5, Lengths, Ops DEF Readable, Astray
<1>6. CASE Quit(c)
  <2>1. Turn(c, <<>>, "closed", NoPolicy) /\ Op(0) \in Readable(c, {Op(0)})
    BY <1>6 DEF Quit
  <2>2. \/ Len(toSrv[c]) = 1 /\ ~Ended(c)
        \/ Len(toSrv[c]) = 0 /\ Ended(c)
    BY <1>5, <2>1, Ops
  <2> QED
    BY <1>3, <2>1, <2>2, AstrayTurn
<1>7. CASE PolicyOp(c)
  <2>1. Turn(c, <<>>, "policy", NoPolicy) /\ Op(1) \in Readable(c, {Op(1)})
    BY <1>7 DEF PolicyOp
  <2>2. Len(toSrv[c]) = 1 /\ ~Ended(c)
    BY <1>5, <2>1, Ops
  <2> QED
    BY <1>3, <2>1, <2>2, AstrayTurn
<1>8. CASE OwnOp(c)
  <2> DEFINE pc == IF kind = "host" THEN "update" ELSE "account"
  <2>1. Turn(c, <<>>, pc, NoPolicy) /\ Op(2) \in Readable(c, {Op(2)})
    BY <1>8 DEF OwnOp
  <2>2. Len(toSrv[c]) = 1 /\ ~Ended(c)
    BY <1>5, <2>1, Ops
  <2>3. pc \in {"op", "policy", "update", "account", "closed"}
    OBVIOUS
  <2> HIDE DEF pc
  <2> QED
    BY <1>3, <2>1, <2>2, <2>3, AstrayTurn
<1>9. CASE ListOp(c)
  <2>1. Turn(c, <<Listing>>, "op", NoPolicy) /\ Op(3) \in Readable(c, {Op(3)})
    BY <1>9 DEF ListOp, Flushed
  <2>2. ~Ended(c) /\ (Len(toSrv[c]) = 1 \/ Len(toSrv[c]) = 2)
    BY <1>5, <2>1, Ops
  <2> QED
    BY <1>3, <2>1, <2>2, AstrayTurn
<1>10. CASE UnknownOp(c)
  <2> DEFINE answers == IF kind = "auth" THEN <<Other>> ELSE <<>>
  <2>1. Turn(c, answers, "op", NoPolicy) /\ Other \in Readable(c, {Other})
    BY <1>10 DEF UnknownOp
  <2>2. Len(toSrv[c]) = 1 /\ ~Ended(c)
    BY <1>5, <2>1, Ops
  <2>3. answers \in Pieces
    BY <1>3
  <2> HIDE DEF answers
  <2> QED
    BY <2>1, <2>2, <2>3, AstrayTurn
<1>11. CASE Account(c)
  <2>1. Turn(c, <<Yes>>, "op", NoPolicy) /\ Ended(c)
    BY <1>11 DEF Account
  <2>2. Len(toSrv[c]) = 0
    BY <1>4, <2>1
  <2> QED
    BY <1>3, <2>1, <2>2, AstrayTurn
<1>12. CASE FindPolicy(c)
  <2>1. PICK p \in IDs :
            /\ Number(p) \in Readable(c, {Number(p)})
            /\ IF p \in Policies THEN Turn(c, <<Yes>>, "mode", p)
                                ELSE Turn(c, <<No>>, "op", NoPolicy)
    BY <1>12 DEF FindPolicy, Found, IDs
  <2>2. srv[c].pc = "policy"
    BY <1>12 DEF FindPolicy, At
  <2>3. Ended(c) /\ Len(toSrv[c]) = 0 /\ Number(p) = Op(0)
    BY <1>5, <2>1, <2>2
  <2>4. p = 0
    BY <2>3, Numbers, Parts DEF Op
  <2>5. Turn(c, <<Yes>>, "mode", p)
    BY <2>1, <2>4, ConstantsOK DEF Policies
  <2>6. ~up'
    BY <2>3, <2>5 DEF Turn
  <2> QED
    BY <1>3, <2>5, <2>6, AstrayTurn
<1>13. ~GetPolicy(c) /\ ~SetMode(c) /\ ~SetPolicy(c)
  BY <1>2 DEF GetPolicy, SetMode, SetPolicy, At
<1> QED
  BY <1>6, <1>7, <1>8, <1>9, <1>10, <1>11, <1>12, <1>13 DEF Serve

-----------------------------------------------------------------------------
(* All connections                                                          *)

\* No connection is open at the start.
LEMMA MInit == Init => MInv
<1> SUFFICES ASSUME Init PROVE OnlyChosen /\ \A c \in Clients : Good(c) /\ c \notin hasty
  BY TypesInit DEF MInv, Connection
<1>1. OnlyChosen
  BY DEF Init, OnlyChosen, Chosen
<1>2. ASSUME NEW c \in Clients PROVE Good(c) /\ c \notin hasty
  <2>1. /\ Len(toSrv[c]) = 0 /\ Len(toCli[c]) = 0 /\ sKey[c] = 0 /\ cKey[c] = 0
        /\ srv[c].pc = "op" /\ cli[c].pc = "away" /\ c \notin hasty
    BY DEF Init
  <2>2. Duplex(c)
    BY <2>1 DEF Duplex
  <2> QED
    BY <2>1, <2>2 DEF Good, Script, Turns, Silent
<1> QED
  BY <1>1, <1>2

\* A turn touches its own connection and no history.
LEMMA TurnOthers ==
    ASSUME Types, NEW c \in Clients, Serve(c) \/ UpdateDone(c), NEW d \in Clients \ {c}
    PROVE  /\ srv'[d] = srv[d] /\ sKey'[d] = sKey[d] /\ toSrv'[d] = toSrv[d]
           /\ toCli'[d] = toCli[d]
<1>1. ASSUME NEW answers, NEW pc, NEW policy, Turn(c, answers, pc, policy)
      PROVE  /\ srv'[d] = srv[d] /\ sKey'[d] = sKey[d] /\ toSrv'[d] = toSrv[d]
             /\ toCli'[d] = toCli[d]
  BY <1>1 DEF Turn, Types, TypeOK, WireOK
<1>2. CASE Serve(c)
  BY <1>1, <1>2 DEF Serve, Quit, PolicyOp, OwnOp, ListOp, UnknownOp, Account, FindPolicy,
                    GetPolicy, SetMode, SetPolicy
<1>3. CASE UpdateDone(c)
  BY <1>3 DEF UpdateDone, Types, TypeOK, WireOK
<1> QED
  BY <1>2, <1>3

\* The steps of a loop leave its client alone.
LEMMA ServerKeeps ==
    ASSUME NEW c, Serve(c) \/ UpdateDone(c)
    PROVE  cli' = cli /\ cKey' = cKey /\ asked' = asked /\ hasty' = hasty /\ kind' = kind /\ up
<1>1. ASSUME NEW answers, NEW pc, NEW policy, Turn(c, answers, pc, policy)
      PROVE  cli' = cli /\ cKey' = cKey /\ asked' = asked /\ hasty' = hasty /\ kind' = kind
  BY <1>1 DEF Turn, clientVars
<1>2. CASE Serve(c)
  BY <1>1, <1>2 DEF Serve, Quit, PolicyOp, OwnOp, ListOp, UnknownOp, Account, FindPolicy,
                    GetPolicy, SetMode, SetPolicy, At
<1>3. CASE UpdateDone(c)
  BY <1>3 DEF UpdateDone, At, clientVars
<1> QED
  BY <1>2, <1>3

\* The end of an update keeps the types.
LEMMA UpdateTypes ==
    ASSUME Types, NEW c \in Clients, UpdateDone(c)
    PROVE  Types'
<1>1. /\ toCli[c] \in Seq(Msg) /\ sKey[c] \in Nat /\ <<Yes>> \in Pieces
  BY Answers, Sayings DEF Types, TypeOK, WireOK
<1>2. toCli[c] \o Crypted(<<Yes>>, sKey[c]) \in Seq(Msg)
  BY <1>1, Written
<1>3. toCli' \in [Clients -> Seq(Msg)] /\ toSrv' \in [Clients -> Seq(Msg)]
      /\ sKey' \in [Clients -> Nat]
  BY <1>1, <1>2 DEF UpdateDone, Types, TypeOK, WireOK
<1>4. srv' \in [Clients -> [pc : SrvPcs, policy : IDs]]
      /\ \A d \in Clients : srv'[d].pc \in {"mode", "value"} => srv'[d].policy \in Policies
  BY DEF UpdateDone, Types, TypeOK, SrvPcs, IDs
<1> QED
  BY <1>3, <1>4 DEF UpdateDone, clientVars, Types, TypeOK, WireOK, SrvPcs, IDs

\* A policy is set only by a SET that a client in step asked for.
LEMMA PoliciesChosen ==
    ASSUME Types, OnlyChosen, NEW c \in Clients, Connection(c), Serve(c)
    PROVE  OnlyChosen'
<1>1. asked' = asked /\ up
  BY ServerKeeps
<1>2. CASE policies' = policies
  BY <1>1, <1>2 DEF OnlyChosen, Chosen
<1>3. CASE SetPolicy(c) /\ ~Ended(c)
  <2>1. up /\ srv[c].pc = "value"
    BY <1>3 DEF SetPolicy, At
  <2>2. Good(c)
    BY <2>1 DEF Connection, Astray
  <2>3. PICK v \in Values : /\ Number(v) \in Readable(c, {Number(v)})
                           /\ policies' = [policies EXCEPT ![srv[c].policy] = v]
    BY <1>3 DEF SetPolicy, Decoded
  <2>4. Len(toSrv[c]) > 0 /\ toSrv[c][1].val = Number(v)
    BY <1>3, <2>2, <2>3, InStepReads
  <2>5. Wanted(c, toSrv[c][1].val)
    BY <2>1, <2>2, <2>4 DEF Good, Script
  <2>6. <<srv[c].policy, v>> \in asked
    <3>1. PICK w \in Values : Number(v) = Number(w) /\ <<srv[c].policy, w>> \in asked
      BY <2>4, <2>5 DEF Wanted
    <3> QED
      BY <3>1, Numbers, Parts
  <2>7. \A p \in Policies : policies'[p] \in Chosen(p)
    <3> TAKE p \in Policies
    <3>1. policies \in [Policies -> Values]
      BY DEF Types, TypeOK
    <3>2. CASE p = srv[c].policy
      BY <2>3, <2>6, <3>1, <3>2 DEF Chosen
    <3>3. CASE p # srv[c].policy
      BY <1>1, <2>3, <3>1, <3>3 DEF OnlyChosen
    <3> QED
      BY <3>2, <3>3
  <2> QED
    BY <1>1, <2>7 DEF OnlyChosen, Chosen
<1>4. CASE SetPolicy(c) /\ Ended(c)
  <2>1. <<Yes>> # <<>>
    OBVIOUS
  <2>2. ~up'
    BY <1>4, <2>1 DEF SetPolicy, Turn
  <2> QED
    BY <2>2 DEF OnlyChosen
<1>5. policies' = policies \/ SetPolicy(c)
  BY DEF Serve, Quit, PolicyOp, OwnOp, ListOp, UnknownOp, Account, FindPolicy, GetPolicy,
         SetMode, SetPolicy
<1> QED
  BY <1>2, <1>3, <1>4, <1>5

\* The steps of a loop keep the invariant.
LEMMA ServeStep ==
    ASSUME MInv, NEW c \in Clients, Serve(c) \/ UpdateDone(c)
    PROVE  MInv'
<1>0. Types /\ OnlyChosen /\ Connection(c) /\ \A d \in Clients : Connection(d)
  BY DEF MInv
<1>1. cli' = cli /\ cKey' = cKey /\ asked' = asked /\ hasty' = hasty /\ kind' = kind /\ up
  BY ServerKeeps
<1>2. Types'
  BY <1>0, ServeTypes, UpdateTypes
<1>3. OnlyChosen'
  <2>1. CASE Serve(c)
    BY <1>0, <2>1, PoliciesChosen
  <2>2. CASE UpdateDone(c)
    BY <1>0, <1>1, <2>2 DEF UpdateDone, OnlyChosen, Chosen
  <2> QED
    BY <2>1, <2>2
<1>4. Connection(c)'
  <2>1. CASE c \notin hasty
    <3>1. Good(c)'
      BY <1>0, <2>1, ServeGood, UpdateGood DEF Connection
    <3> QED
      BY <1>1, <2>1, <3>1 DEF Connection
  <2>2. CASE c \in hasty
    <3>1. Astray(c)
      BY <1>0, <2>2 DEF Connection
    <3>2. CASE Serve(c)
      BY <1>0, <1>1, <2>2, <3>1, <3>2, ServeAstray DEF Connection
    <3>3. CASE UpdateDone(c)
      <4>1. srv[c].pc = "update" /\ toSrv' = toSrv /\ srv' = [srv EXCEPT ![c].pc = "op"]
        BY <3>3 DEF UpdateDone, At
      <4>2. srv'[c].pc = "op"
        BY <1>0, <4>1 DEF Types, TypeOK
      <4> QED
        BY <1>1, <2>2, <3>1, <4>1, <4>2 DEF Connection, Astray
    <3> QED
      BY <3>2, <3>3
  <2> QED
    BY <2>1, <2>2
<1>5. ASSUME NEW d \in Clients, d # c PROVE Connection(d)'
  <2>1. /\ srv'[d] = srv[d] /\ sKey'[d] = sKey[d] /\ toSrv'[d] = toSrv[d]
        /\ toCli'[d] = toCli[d]
    BY <1>0, <1>5, TurnOthers
  <2> QED
    BY <1>0, <1>1, <2>1, Untouched
<1> QED
  BY <1>2, <1>3, <1>4, <1>5 DEF MInv

\* A client touches its own connection only, and takes no wish back.
LEMMA ActOthers ==
    ASSUME Types, NEW c \in Clients, Act(c)
    PROVE  /\ srv' = srv /\ sKey' = sKey /\ kind' = kind /\ up' = up /\ policies' = policies
           /\ asked \subseteq asked' /\ hasty \subseteq hasty' /\ hasty' \subseteq hasty \cup {c}
           /\ \A d \in Clients \ {c} :
                 /\ toSrv'[d] = toSrv[d] /\ toCli'[d] = toCli[d]
                 /\ cKey'[d] = cKey[d] /\ cli'[d] = cli[d]
<1> DEFINE Mine == /\ srv' = srv /\ sKey' = sKey /\ kind' = kind /\ up' = up /\ policies' = policies
                   /\ \A d \in Clients \ {c} :
                         /\ toSrv'[d] = toSrv[d] /\ toCli'[d] = toCli[d]
                         /\ cKey'[d] = cKey[d] /\ cli'[d] = cli[d]
<1>1. ASSUME NEW read, NEW values, NEW pc, NEW policy, Say(c, read, values, pc, policy)
      PROVE  Mine
  BY <1>1 DEF Say, serverVars, Types, TypeOK, WireOK
<1>2. CASE Leave(c)
  BY <1>2 DEF Leave, serverVars, Types, TypeOK
<1>3. CASE Act(c) /\ ~Leave(c)
  <2>1. Mine
    <3> HIDE DEF Mine
    <3> QED
      BY <1>1, <1>3 DEF Act, Open, ListShown, Ask, Choose, Done, ClosePanel
  <2>2. asked \subseteq asked' /\ hasty \subseteq hasty' /\ hasty' \subseteq hasty \cup {c}
    BY <1>3 DEF Act, Open, ListShown, Ask, Choose, Done, ClosePanel
  <2> QED
    BY <2>1, <2>2
<1> QED
  BY <1>2, <1>3

\* The steps of a client keep the invariant.
LEMMA ActStep ==
    ASSUME MInv, NEW c \in Clients, Act(c)
    PROVE  MInv'
<1>0. Types /\ OnlyChosen /\ Connection(c) /\ \A d \in Clients : Connection(d)
  BY DEF MInv
<1>1. /\ srv' = srv /\ sKey' = sKey /\ kind' = kind /\ up' = up /\ policies' = policies
      /\ asked \subseteq asked' /\ hasty \subseteq hasty' /\ hasty' \subseteq hasty \cup {c}
  BY <1>0, ActOthers
<1>2. c \in hasty => Astray(c) /\ cli[c].pc \in {"closed", "left"} /\ Leave(c)
  BY <1>0 DEF Connection, Astray, Act, Open, ListShown, Ask, Choose, Done, ClosePanel
<1>3. c \notin hasty => Good(c)
  BY <1>0 DEF Connection
<1>4. Types'
  <2>1. Choose(c) => cli[c].policy \in Policies
    <3> SUFFICES ASSUME Choose(c) PROVE cli[c].policy \in Policies
      OBVIOUS
    <3>1. cli[c].pc = "asked"
      BY DEF Choose
    <3>2. Good(c)
      BY <1>2, <1>3, <3>1
    <3> QED
      BY <1>0, <3>2, ChooseFound
  <2> QED
    BY <1>0, <2>1, ActTypes
<1>5. OnlyChosen'
  BY <1>0, <1>1 DEF OnlyChosen, Chosen
<1>6. Connection(c)'
  <2>1. CASE Leave(c)
    BY <1>0, <2>1, LeaveConnection
  <2>2. CASE ClosePanel(c) /\ ~Leave(c)
    BY <1>0, <1>2, <1>3, <2>2, CloseConnection
  <2>3. CASE ~Leave(c) /\ ~ClosePanel(c)
    <3>1. c \notin hasty /\ Good(c)
      BY <1>2, <1>3, <2>3
    <3>2. Good(c)'
      BY <1>0, <2>3, <3>1, OpenGood, ReadGood, AskGood, ChooseGood DEF Act
    <3>3. hasty' = hasty
      BY <2>3 DEF Act, Open, ListShown, Ask, Choose, Done
    <3> QED
      BY <3>1, <3>2, <3>3 DEF Connection
  <2> QED
    BY <2>1, <2>2, <2>3
<1>7. ASSUME NEW d \in Clients, d # c PROVE Connection(d)'
  <2>1. /\ toSrv'[d] = toSrv[d] /\ toCli'[d] = toCli[d]
        /\ cKey'[d] = cKey[d] /\ cli'[d] = cli[d]
    BY <1>0, <1>7, ActOthers
  <2>2. d \in hasty' <=> d \in hasty
    BY <1>1, <1>7
  <2> QED
    BY <1>0, <1>1, <2>1, <2>2, Untouched
<1> QED
  BY <1>4, <1>5, <1>6, <1>7 DEF MInv

\* A step that changes nothing, or ends the process.
LEMMA StillStep ==
    ASSUME MInv, UNCHANGED vars \/ \E c \in Clients : Reset(c)
    PROVE  MInv'
<1>1. /\ policies' = policies /\ srv' = srv /\ sKey' = sKey /\ cKey' = cKey /\ kind' = kind
      /\ toSrv' = toSrv /\ toCli' = toCli /\ cli' = cli /\ asked' = asked /\ hasty' = hasty
      /\ (up' = up \/ up' = FALSE)
  BY DEF vars, Reset, clientVars
<1>2. Types' /\ OnlyChosen'
  <2>1. Types'
    BY <1>1 DEF MInv, Types, TypeOK, WireOK
  <2>2. up' => up
    BY <1>1 DEF MInv, Types, TypeOK
  <2>3. up => \A p \in Policies : policies[p] \in Chosen(p)
    BY DEF MInv, OnlyChosen
  <2>4. up' => \A p \in Policies : policies'[p] \in Chosen(p)'
    BY <1>1, <2>2, <2>3, Zenon DEF Chosen
  <2> QED
    BY <2>1, <2>4 DEF OnlyChosen
<1>3. ASSUME NEW d \in Clients PROVE Connection(d)'
  <2>1. Connection(d) /\ (up' => up)
    BY <1>1 DEF MInv
  <2> QED
    BY <1>1, <2>1, Untouched
<1> QED
  BY <1>2, <1>3 DEF MInv

\* The invariant holds for ever.
LEMMA Always == Spec => []MInv
<1>1. ASSUME MInv, [Next]_vars PROVE MInv'
  BY <1>1, ServeStep, ActStep, StillStep DEF Next
<1> QED
  BY <1>1, MInit, PTL DEF Spec

\* Every variable keeps its type: the loop's place for a policy is a policy,
\* and no client asks for more than it may.
THEOREM TypeCorrect == Spec => []TypeOK
<1>1. MInv => TypeOK
  BY DEF MInv, Types
<1> QED
  BY <1>1, Always, PTL

\* Both directions of a connection stay in step for any number of requests, as
\* long as its panel is not closed while the list is on its way (Sec.crypt).
THEOREM StaysInStep == Spec => []InStep
<1>1. MInv => InStep
  <2> SUFFICES ASSUME MInv, NEW c \in Clients \ hasty
               PROVE  /\ \A i \in DOMAIN toSrv[c] : toSrv[c][i].at = sKey[c] + i - 1
                      /\ \A i \in DOMAIN toCli[c] : toCli[c][i].at = cKey[c] + i - 1
    BY DEF InStep
  <2>1. DOMAIN toSrv[c] = 1..Len(toSrv[c]) /\ DOMAIN toCli[c] = 1..Len(toCli[c])
    BY LenProperties DEF MInv, Types, WireOK
  <2>2. Duplex(c)
    BY DEF MInv, Connection, Good
  <2> QED
    BY <2>1, <2>2 DEF Duplex
<1> QED
  BY <1>1, Always, PTL

\* Whatever is out of step or gone in the middle of a request, a policy has a
\* value that some client chose for it (the SET of Host.socketManagementLoop),
\* as long as the process runs.
THEOREM PoliciesAreChosen == Spec => []OnlyChosen
<1>1. MInv => OnlyChosen
  BY DEF MInv
<1> QED
  BY <1>1, Always, PTL
=============================================================================

---------------------------- MODULE NSocketProofs ----------------------------
(***************************************************************************)
(* Machine-checked proofs about NSocket, for every mark, every capacity of *)
(* the network and any number of bytes.                                    *)
(***************************************************************************)
EXTENDS NSocket, SequenceTheorems, TLAPS

\* Each end has the other for its peer.
LEMMA Peers == \A e \in Ends : Other(e) \in Ends /\ Other(e) # e /\ Other(Other(e)) = e
BY DEF Ends, Other

-----------------------------------------------------------------------------
(* Bytes in a row.  Cat is \o, kept folded where only its laws matter.      *)

Bytes == Seq(Nat)
Cat(s, t) == s \o t

\* Joining sequences is associative, and the empty one changes nothing.
LEMMA CatLaws ==
    /\ <<>> \in Bytes
    /\ \A s, t \in Bytes : Cat(s, t) \in Bytes
    /\ \A s, t, u \in Bytes : Cat(Cat(s, t), u) = Cat(s, Cat(t, u))
    /\ \A s \in Bytes : Cat(s, <<>>) = s /\ Cat(<<>>, s) = s
<1>1. ASSUME NEW s \in Seq(Nat), NEW t \in Seq(Nat), NEW u \in Seq(Nat)
      PROVE  s \o t \in Seq(Nat) /\ (s \o t) \o u = s \o (t \o u)
  <2>1. (s \o t) \o u = s \o (t \o u)
    BY ConcatAssociative
  <2> QED
    BY <2>1, ConcatProperties
<1>2. ASSUME NEW s \in Seq(Nat) PROVE s \o <<>> = s /\ <<>> \o s = s
  BY ConcatEmptySeq
<1> QED
  BY <1>1, <1>2 DEF Bytes, Cat

\* The first byte of a sequence, moved to the end of the one before it.
LEMMA HeadMoves ==
    ASSUME NEW s \in Bytes, NEW t \in Bytes, t # <<>>
    PROVE  /\ Append(s, Head(t)) \in Bytes /\ Tail(t) \in Bytes
           /\ Cat(Append(s, Head(t)), Tail(t)) = Cat(s, t)
<1>1. s \in Seq(Nat) /\ t \in Seq(Nat)
  BY DEF Bytes
<1>2. Head(t) \in Nat /\ Tail(t) \in Seq(Nat) /\ Len(t) \in Nat \ {0}
  BY <1>1, HeadTailProperties, EmptySeq
<1>3. Append(s, Head(t)) = s \o <<Head(t)>> /\ <<Head(t)>> \in Seq(Nat)
  BY <1>1, <1>2, AppendIsConcat
<1>4. <<Head(t)>> \o Tail(t) = t
  BY <1>1, <1>2
<1>5. Append(s, Head(t)) \in Seq(Nat)
  BY <1>1, <1>2, AppendProperties
<1> DEFINE h == <<Head(t)>>
<1>6. h \in Bytes /\ Tail(t) \in Bytes /\ Append(s, Head(t)) = Cat(s, h) /\ Cat(h, Tail(t)) = t
  BY <1>2, <1>3, <1>4 DEF Bytes, Cat
<1> HIDE DEF h
<1>7. Cat(Cat(s, h), Tail(t)) = Cat(s, Cat(h, Tail(t)))
  BY <1>6, CatLaws
<1> QED
  BY <1>5, <1>6, <1>7 DEF Bytes

\* What a read takes from the front, and what it leaves.
LEMMA FrontMoves ==
    ASSUME NEW i \in Bytes, NEW n \in 0..Len(i)
    PROVE  /\ SubSeq(i, 1, n) \in Bytes /\ SubSeq(i, n + 1, Len(i)) \in Bytes
           /\ Cat(SubSeq(i, 1, n), SubSeq(i, n + 1, Len(i))) = i
<1>0. i \in Seq(Nat)
  BY DEF Bytes
<1>1. Len(i) \in Nat /\ \A k \in 1..Len(i) : i[k] \in Nat
  BY <1>0, LenProperties, ElementOfSeq
<1>2. SubSeq(i, 1, n) \in Seq(Nat)
  BY <1>1, SubSeqProperties
<1>3. SubSeq(i, n + 1, Len(i)) \in Seq(Nat)
  BY <1>1, SubSeqProperties
<1>4. SubSeq(i, 1, n) \o SubSeq(i, n + 1, Len(i)) = SubSeq(i, 1, Len(i))
  <2>1. 1 \in 1..Len(i) + 1 /\ n \in (1 - 1)..Len(i) /\ Len(i) \in n..Len(i)
    BY <1>1
  <2> QED
    BY <1>0, <2>1, ConcatAdjacentSubSeq
<1>5. SubSeq(i, 1, Len(i)) = i
  BY <1>0, SubSeqFull
<1> QED
  BY <1>2, <1>3, <1>4, <1>5 DEF Bytes, Cat

\* One direction of the connection: what has been read, is in node's readable
\* buffer, on the wire, in the writable buffer, and in the bundle.
Line(g, i, w, o, b) == Cat(Cat(Cat(Cat(g, i), w), o), b)

\* Bytes that move on to the next buffer, or are added at the back, keep the line.
LEMMA LineMoves ==
    ASSUME NEW g \in Bytes, NEW i \in Bytes, NEW w \in Bytes, NEW o \in Bytes, NEW b \in Bytes,
           NEW x \in Bytes
    PROVE  /\ Line(g, i, w, Cat(o, b), <<>>) = Line(g, i, w, o, b)
           /\ Line(g, i, w, o, Cat(b, x)) = Cat(Line(g, i, w, o, b), x)
           /\ Line(g, i, w, Cat(o, x), <<>>) = Cat(Line(g, i, w, o, <<>>), x)
<1> DEFINE p == Cat(Cat(g, i), w)
<1>1. p \in Bytes /\ Cat(p, o) \in Bytes
  BY CatLaws
<1>2. \A q \in Bytes : Line(g, i, w, q, <<>>) = Cat(p, q)
  BY <1>1, CatLaws DEF Line
<1>3. \A q \in Bytes : Line(g, i, w, o, q) = Cat(Cat(p, o), q)
  BY DEF Line
<1> HIDE DEF p
<1>4. Line(g, i, w, Cat(o, b), <<>>) = Cat(p, Cat(o, b))
  BY <1>2, CatLaws
<1>5. Line(g, i, w, o, Cat(b, x)) = Cat(Cat(p, o), Cat(b, x))
  BY <1>3, CatLaws
<1>6. Line(g, i, w, Cat(o, x), <<>>) = Cat(p, Cat(o, x)) /\ Line(g, i, w, o, <<>>) = Cat(p, o)
  BY <1>2, CatLaws
<1>7. Cat(p, Cat(o, b)) = Cat(Cat(p, o), b) /\ Cat(p, Cat(o, x)) = Cat(Cat(p, o), x)
  BY <1>1, CatLaws
<1>8. Cat(Cat(p, o), Cat(b, x)) = Cat(Cat(Cat(p, o), b), x)
  BY <1>1, CatLaws
<1> QED
  BY <1>3, <1>4, <1>5, <1>6, <1>7, <1>8

\* A byte that leaves the writable buffer for the wire, or the wire for the
\* readable buffer, and bytes that are read, stay in their place.
LEMMA LineKeeps ==
    ASSUME NEW g \in Bytes, NEW i \in Bytes, NEW w \in Bytes, NEW o \in Bytes, NEW b \in Bytes
    PROVE  /\ o # <<>> => Line(g, i, Append(w, Head(o)), Tail(o), b) = Line(g, i, w, o, b)
           /\ w # <<>> => Line(g, Append(i, Head(w)), Tail(w), o, b) = Line(g, i, w, o, b)
           /\ \A n \in 0..Len(i) :
                Line(Cat(g, SubSeq(i, 1, n)), SubSeq(i, n + 1, Len(i)), w, o, b) = Line(g, i, w, o, b)
<1>1. ASSUME o # <<>>
      PROVE  Line(g, i, Append(w, Head(o)), Tail(o), b) = Line(g, i, w, o, b)
  <2>1. Append(w, Head(o)) \in Bytes /\ Tail(o) \in Bytes
        /\ Cat(Append(w, Head(o)), Tail(o)) = Cat(w, o)
    BY <1>1, HeadMoves
  <2> QED
    BY <2>1, CatLaws DEF Line
<1>2. ASSUME w # <<>>
      PROVE  Line(g, Append(i, Head(w)), Tail(w), o, b) = Line(g, i, w, o, b)
  <2>1. Append(i, Head(w)) \in Bytes /\ Tail(w) \in Bytes
        /\ Cat(Append(i, Head(w)), Tail(w)) = Cat(i, w)
    BY <1>2, HeadMoves
  <2> QED
    BY <2>1, CatLaws DEF Line
<1>3. ASSUME NEW n \in 0..Len(i)
      PROVE  Line(Cat(g, SubSeq(i, 1, n)), SubSeq(i, n + 1, Len(i)), w, o, b) = Line(g, i, w, o, b)
  <2> DEFINE f == SubSeq(i, 1, n)
             r == SubSeq(i, n + 1, Len(i))
  <2>1. f \in Bytes /\ r \in Bytes /\ Cat(f, r) = i
    BY FrontMoves
  <2> HIDE DEF f, r
  <2>2. Cat(Cat(g, f), r) = Cat(g, i)
    BY <2>1, CatLaws
  <2> QED
    BY <2>2 DEF Line, f, r
<1> QED
  BY <1>1, <1>2, <1>3

-----------------------------------------------------------------------------
(* Types                                                                    *)

\* A write to node keeps the types.
LEMMA OwriteType ==
    ASSUME TypeOK, NEW e \in Ends, NEW bytes \in Seq(Nat), Owrite(e, bytes)
    PROVE  out' \in [Ends -> Seq(Nat)] /\ needDrain' \in [Ends -> BOOLEAN]
<1>1. out[e] \o bytes \in Seq(Nat)
  BY ConcatProperties DEF TypeOK
<1>2. (needDrain[e] \/ Full(Len(out[e] \o bytes))) \in BOOLEAN
  OBVIOUS
<1>3. needDrain' \in [Ends -> BOOLEAN]
  BY <1>2 DEF TypeOK, Owrite
<1> QED
  BY <1>1, <1>3 DEF TypeOK, Owrite

\* What a flush does to the bundle and the writable buffer.
LEMMA FlushType ==
    ASSUME TypeOK, NEW e \in Ends, FlushBundle(e)
    PROVE  /\ do_flush' \in [Ends -> BOOLEAN] /\ bundled' \in [Ends -> Seq(Nat)]
           /\ out' \in [Ends -> Seq(Nat)] /\ needDrain' \in [Ends -> BOOLEAN]
<1>1. out[e] \o bundled[e] \in Seq(Nat) /\ <<>> \in Seq(Nat)
  BY ConcatProperties, EmptySeq DEF TypeOK
<1>2. do_flush' \in [Ends -> BOOLEAN] /\ bundled' \in [Ends -> Seq(Nat)]
  BY <1>1 DEF TypeOK, FlushBundle, Emptied
<1>3. out' \in [Ends -> Seq(Nat)] /\ needDrain' \in [Ends -> BOOLEAN]
  <2>1. bundled[e] \in Seq(Nat)
    BY DEF TypeOK
  <2> QED
    BY <2>1, OwriteType DEF TypeOK, FlushBundle, writeVars
<1> QED
  BY <1>2, <1>3

\* An end keeps the types.
LEMMA EndType ==
    ASSUME TypeOK, NEW e \in Ends, EndOf(e)
    PROVE  /\ do_flush' \in [Ends -> BOOLEAN] /\ bundled' \in [Ends -> Seq(Nat)]
           /\ out' \in [Ends -> Seq(Nat)] /\ needDrain' \in [Ends -> BOOLEAN]
           /\ ending' \in [Ends -> BOOLEAN] /\ waits' \in [Ends -> BOOLEAN]
           /\ closing' \in [Ends -> BOOLEAN]
           /\ \A d \in Ends : closing'[d] \/ waits'[d] => ending'[d]
<1>1. do_flush' \in [Ends -> BOOLEAN] /\ bundled' \in [Ends -> Seq(Nat)]
      /\ out' \in [Ends -> Seq(Nat)] /\ needDrain' \in [Ends -> BOOLEAN]
  BY FlushType DEF EndOf, CloseBundle, bundleVars, writeVars, TypeOK
<1>2. ending' \in [Ends -> BOOLEAN] /\ waits' \in [Ends -> BOOLEAN] /\ closing' \in [Ends -> BOOLEAN]
      /\ \A d \in Ends : closing'[d] \/ waits'[d] => ending'[d]
  BY DEF EndOf, Oend, TypeOK
<1> QED
  BY <1>1, <1>2

\* What is written is a sequence of numbers.
LEMMA BytesWritten ==
    ASSUME NEW n \in Nat, NEW k \in Nat
    PROVE  [i \in 1..n |-> k + i] \in Seq(Nat)
OBVIOUS

\* A poll takes no more than there is, and leaves nothing where it finds the end.
LEMMA TakenRange ==
    ASSUME TypeOK, NEW e \in Ends, NEW k \in Nat
    PROVE  /\ Taken(e, k) \in 0..Len(inbuf[e])
           /\ eof[e] /\ Taken(e, k) < k => Taken(e, k) = Len(inbuf[e])
<1>1. Len(inbuf[e]) \in Nat
  BY EmptySeq, LenProperties DEF TypeOK
<1> QED
  BY <1>1 DEF Taken

\* Every step keeps the type of every variable.
LEMMA TypeStep == TypeOK /\ [Next]_vars => TypeOK'
<1> SUFFICES ASSUME TypeOK, [Next]_vars PROVE TypeOK'
  OBVIOUS
<1> USE DEF bundleVars, writeVars, endVars, closeVars, readVars
<1>1. ASSUME NEW e \in Ends, Bundle(e) PROVE TypeOK'
  BY <1>1 DEF TypeOK, Bundle
<1>2. ASSUME NEW e \in Ends, Flush(e) PROVE TypeOK'
  BY <1>2, FlushType DEF TypeOK, Flush
<1>3. ASSUME NEW e \in Ends, Write(e) PROVE TypeOK'
  <2>1. PICK n \in 1..MaxWrite :
          LET bytes == [i \in 1..n |-> Len(sent[e]) + i] IN
          /\ sent' = [sent EXCEPT ![e] = @ \o bytes]
          /\ IF do_flush[e]
             THEN Owrite(e, bytes) /\ UNCHANGED bundled
             ELSE bundled' = [bundled EXCEPT ![e] = @ \o bytes] /\ UNCHANGED writeVars
    BY <1>3 DEF Write
  <2> DEFINE bytes == [i \in 1..n |-> Len(sent[e]) + i]
  <2>2. bytes \in Seq(Nat)
    <3>1. n \in Nat /\ Len(sent[e]) \in Nat
      BY ConstantsOK, LenProperties DEF TypeOK
    <3> QED
      BY <3>1, BytesWritten
  <2> HIDE DEF bytes
  <2>3. sent[e] \o bytes \in Seq(Nat) /\ out[e] \o bytes \in Seq(Nat) /\ bundled[e] \o bytes \in Seq(Nat)
    BY <2>2, ConcatProperties DEF TypeOK
  <2>4. sent' = [sent EXCEPT ![e] = @ \o bytes]
        /\ IF do_flush[e]
           THEN Owrite(e, bytes) /\ UNCHANGED bundled
           ELSE bundled' = [bundled EXCEPT ![e] = @ \o bytes] /\ UNCHANGED writeVars
    BY <2>1 DEF bytes
  <2>5. sent' \in [Ends -> Seq(Nat)]
    BY <2>3, <2>4 DEF TypeOK
  <2>6. out' \in [Ends -> Seq(Nat)] /\ needDrain' \in [Ends -> BOOLEAN] /\ bundled' \in [Ends -> Seq(Nat)]
    <3>1. CASE Owrite(e, bytes) /\ UNCHANGED bundled
      BY <2>2, <3>1, OwriteType DEF TypeOK
    <3>2. CASE bundled' = [bundled EXCEPT ![e] = @ \o bytes] /\ UNCHANGED writeVars
      BY <2>3, <3>2 DEF TypeOK
    <3> QED
      BY <2>4, <3>1, <3>2
  <2> QED
    BY <1>3, <2>5, <2>6 DEF TypeOK, Write
<1>4. ASSUME NEW e \in Ends, End(e) PROVE TypeOK'
  BY <1>4, EndType DEF TypeOK, End
<1>5. ASSUME NEW e \in Ends, Read(e) PROVE TypeOK'
  BY <1>5, ConstantsOK DEF TypeOK, Read
<1>6. ASSUME NEW e \in Ends, Transmit(e) PROVE TypeOK'
  <2>1. Tail(out[e]) \in Seq(Nat) /\ Append(wire[e], Head(out[e])) \in Seq(Nat)
    BY <1>6, HeadMoves DEF TypeOK, Transmit, Bytes
  <2>2. out' \in [Ends -> Seq(Nat)] /\ wire' \in [Ends -> Seq(Nat)]
    BY <1>6, <2>1 DEF TypeOK, Transmit
  <2>3. needDrain' \in [Ends -> BOOLEAN] /\ waits' \in [Ends -> BOOLEAN]
        /\ closing' \in [Ends -> BOOLEAN]
    <3>1. CASE UNCHANGED <<needDrain, waits, closing>>
      BY <3>1 DEF TypeOK
    <3>2. CASE /\ needDrain' = [needDrain EXCEPT ![e] = FALSE]
               /\ waits' = [waits EXCEPT ![e] = FALSE]
               /\ closing' = [closing EXCEPT ![e] = waits[e]]
      <4>1. waits[e] \in BOOLEAN
        BY DEF TypeOK
      <4>2. closing' \in [Ends -> BOOLEAN]
        BY <3>2, <4>1 DEF TypeOK
      <4> QED
        BY <3>2, <4>2 DEF TypeOK
    <3> QED
      BY <1>6, <3>1, <3>2 DEF Transmit
  <2>4. \A d \in Ends : closing'[d] \/ waits'[d] => ending'[d]
    <3>1. \A d \in Ends : (closing'[d] => closing[d] \/ waits[d]) /\ (waits'[d] => waits[d])
      <4>1. CASE UNCHANGED <<needDrain, waits, closing>>
        BY <4>1
      <4>2. CASE waits' = [waits EXCEPT ![e] = FALSE] /\ closing' = [closing EXCEPT ![e] = waits[e]]
        BY <4>2 DEF TypeOK
      <4> QED
        BY <1>6, <4>1, <4>2 DEF Transmit
    <3>2. ending' = ending
      BY <1>6 DEF Transmit
    <3> QED
      BY <3>1, <3>2 DEF TypeOK
  <2>5. UNCHANGED <<do_flush, bundled, ending, fin, eof, sent, inbuf, endDue, readableEnded, want, got>>
    BY <1>6 DEF Transmit
  <2> QED
    BY <2>2, <2>3, <2>4, <2>5 DEF TypeOK
<1>7. ASSUME NEW e \in Ends, SendFin(e) PROVE TypeOK'
  BY <1>7 DEF TypeOK, SendFin
<1>8. ASSUME NEW e \in Ends, Deliver(e) PROVE TypeOK'
  <2>1. Other(e) \in Ends
    BY Peers
  <2>2. Tail(wire[e]) \in Seq(Nat) /\ Append(inbuf[Other(e)], Head(wire[e])) \in Seq(Nat)
    BY <1>8, <2>1, HeadMoves DEF TypeOK, Deliver, Bytes
  <2>3. wire' \in [Ends -> Seq(Nat)] /\ inbuf' \in [Ends -> Seq(Nat)]
    BY <1>8, <2>1, <2>2 DEF TypeOK, Deliver
  <2> QED
    BY <1>8, <2>3 DEF TypeOK, Deliver
<1>9. ASSUME NEW e \in Ends, DeliverFin(e) PROVE TypeOK'
  BY <1>9, Peers DEF TypeOK, DeliverFin
<1>10. ASSUME NEW e \in Ends, EmitEnd(e) PROVE TypeOK'
  BY <1>10, EndType DEF TypeOK, EmitEnd, Bound
<1>11. ASSUME NEW e \in Ends, Poll(e) PROVE TypeOK'
  <2> DEFINE n == Taken(e, want[e])
  <2>1. n \in 0..Len(inbuf[e])
    BY TakenRange DEF TypeOK
  <2>2. SubSeq(inbuf[e], 1, n) \in Seq(Nat) /\ SubSeq(inbuf[e], n + 1, Len(inbuf[e])) \in Seq(Nat)
    BY <2>1, FrontMoves DEF TypeOK, Bytes
  <2>3. got[e] \o SubSeq(inbuf[e], 1, n) \in Seq(Nat)
    BY <2>2, ConcatProperties DEF TypeOK
  <2> HIDE DEF n
  <2>4. got' = [got EXCEPT ![e] = @ \o SubSeq(inbuf[e], 1, n)]
        /\ inbuf' = [inbuf EXCEPT ![e] = SubSeq(@, n + 1, Len(@))]
    BY <1>11 DEF Poll, n
  <2>5. got' \in [Ends -> Seq(Nat)] /\ inbuf' \in [Ends -> Seq(Nat)]
    BY <2>2, <2>3, <2>4 DEF TypeOK
  <2>6. want' \in [Ends -> Nat] /\ endDue' \in [Ends -> BOOLEAN]
    BY <1>11 DEF TypeOK, Poll
  <2> QED
    BY <1>11, <2>5, <2>6 DEF TypeOK, Poll
<1>12. CASE UNCHANGED vars
  BY <1>12 DEF TypeOK, vars
<1> QED
  BY <1>1, <1>2, <1>3, <1>4, <1>5, <1>6, <1>7, <1>8, <1>9, <1>10, <1>11, <1>12 DEF Next

\* The sockets start with values of these types.
LEMMA TypeInit == Init => TypeOK
BY EmptySeq DEF Init, TypeOK, All

\* Every variable keeps its type, and a connection that node closes has been
\* ended by NSocket.end, which empties the bundle.
THEOREM TypeCorrect == Spec => []TypeOK
BY TypeInit, TypeStep, PTL DEF Spec

-----------------------------------------------------------------------------
(* Nothing is lost, doubled or cut off                                      *)

\* What is where, as a connection comes to its end.
Closing(e) ==
    /\ do_flush[e] \/ ending[e] => bundled[e] = <<>>
    /\ fin[e] => closing[e] /\ out[e] = <<>>
    /\ eof[Other(e)] => fin[e] /\ wire[e] = <<>>
    /\ endDue[e] => eof[e] /\ inbuf[e] = <<>>
    /\ readableEnded[e] => endDue[e]

Row(e) == Line(got[Other(e)], inbuf[Other(e)], wire[e], out[e], bundled[e])

CInv == TypeOK /\ (\A e \in Ends : Closing(e)) /\ (\A e \in Ends : sent[e] = Row(e))

\* Every buffer holds bytes.
LEMMA AllBytes ==
    ASSUME TypeOK, NEW e \in Ends
    PROVE  /\ got[e] \in Bytes /\ inbuf[e] \in Bytes /\ wire[e] \in Bytes /\ out[e] \in Bytes
           /\ bundled[e] \in Bytes /\ sent[e] \in Bytes
           /\ got[Other(e)] \in Bytes /\ inbuf[Other(e)] \in Bytes
BY Peers DEF TypeOK, Bytes

\* A flush moves what was bundled, and moves nothing once an end was begun.
LEMMA FlushKeeps ==
    ASSUME CInv, NEW e \in Ends, FlushBundle(e)
    PROVE  /\ bundled' = [bundled EXCEPT ![e] = <<>>]
           /\ out' = [out EXCEPT ![e] = Cat(@, bundled[e])]
           /\ ending[e] => UNCHANGED out
<1>1. bundled' = [bundled EXCEPT ![e] = <<>>]
  BY DEF FlushBundle, Emptied
<1>2. CASE bundled[e] = <<>>
  <2>1. UNCHANGED out
    BY <1>2 DEF FlushBundle, writeVars
  <2>2. Cat(out[e], bundled[e]) = out[e]
    BY <1>2, CatLaws, AllBytes DEF CInv
  <2>3. out = [out EXCEPT ![e] = out[e]]
    BY DEF CInv, TypeOK
  <2> QED
    BY <1>1, <2>1, <2>2, <2>3
<1>3. CASE bundled[e] # <<>>
  <2>1. ~ ending[e]
    BY <1>3 DEF CInv, Closing
  <2>2. out' = [out EXCEPT ![e] = Cat(@, bundled[e])]
    BY <1>3 DEF FlushBundle, Owrite, Cat
  <2> QED
    BY <1>1, <2>1, <2>2
<1> QED
  BY <1>2, <1>3

\* So does an end, whose bundle is empty then.
LEMMA EndKeeps ==
    ASSUME CInv, NEW e \in Ends, EndOf(e)
    PROVE  /\ bundled' = [bundled EXCEPT ![e] = <<>>]
           /\ out' = [out EXCEPT ![e] = Cat(@, bundled[e])]
           /\ ending[e] => UNCHANGED out
           /\ ending' = [ending EXCEPT ![e] = TRUE]
           /\ \A d \in Ends : closing[d] => closing'[d]
           /\ \A d \in Ends : d # e => do_flush'[d] = do_flush[d]
<1>1. CASE do_flush[e]
  <2>1. bundled[e] = <<>> /\ UNCHANGED <<bundled, out, do_flush>>
    BY <1>1 DEF CInv, Closing, EndOf, CloseBundle, bundleVars, writeVars
  <2>2. Cat(out[e], bundled[e]) = out[e]
    BY <2>1, CatLaws, AllBytes DEF CInv
  <2>3. out = [out EXCEPT ![e] = out[e]] /\ bundled = [bundled EXCEPT ![e] = bundled[e]]
    BY DEF CInv, TypeOK
  <2>4. bundled' = [bundled EXCEPT ![e] = <<>>] /\ out' = [out EXCEPT ![e] = Cat(@, bundled[e])]
    BY <2>1, <2>2, <2>3
  <2>5. ending' = [ending EXCEPT ![e] = TRUE] /\ \A d \in Ends : closing[d] => closing'[d]
    BY DEF EndOf, Oend, CInv, TypeOK
  <2> QED
    BY <2>1, <2>4, <2>5
<1>2. CASE ~ do_flush[e]
  <2>1. FlushBundle(e)
    BY <1>2 DEF EndOf, CloseBundle
  <2>2. \A d \in Ends : d # e => do_flush'[d] = do_flush[d]
    BY <2>1 DEF FlushBundle, CInv, TypeOK
  <2>3. ending' = [ending EXCEPT ![e] = TRUE] /\ \A d \in Ends : closing[d] => closing'[d]
    BY DEF EndOf, Oend, CInv, TypeOK
  <2> QED
    BY <2>1, <2>2, <2>3, FlushKeeps
<1> QED
  BY <1>1, <1>2

\* Steps that leave the bytes where they are.
LEMMA QuietRow ==
    ASSUME CInv, UNCHANGED <<sent, got, inbuf, wire, out, bundled>>
    PROVE  \A e \in Ends : sent'[e] = Row(e)'
BY DEF CInv, Row

\* Steps that only move the bundle of one end to its writable buffer.
LEMMA FlushRow ==
    ASSUME CInv, NEW e \in Ends, UNCHANGED <<sent, got, inbuf, wire>>,
           bundled' = [bundled EXCEPT ![e] = <<>>],
           out' = [out EXCEPT ![e] = Cat(@, bundled[e])]
    PROVE  \A d \in Ends : sent'[d] = Row(d)'
<1> TAKE d \in Ends
<1>1. CASE d = e
  <2>1. out'[e] = Cat(out[e], bundled[e]) /\ bundled'[e] = <<>>
    BY DEF CInv, TypeOK
  <2>2. Row(e)' = Line(got[Other(e)], inbuf[Other(e)], wire[e], Cat(out[e], bundled[e]), <<>>)
    BY <2>1 DEF Row
  <2>3. /\ got[Other(e)] \in Bytes /\ inbuf[Other(e)] \in Bytes /\ wire[e] \in Bytes
        /\ out[e] \in Bytes /\ bundled[e] \in Bytes
    BY AllBytes DEF CInv
  <2>4. Line(got[Other(e)], inbuf[Other(e)], wire[e], Cat(out[e], bundled[e]), <<>>)
        = Line(got[Other(e)], inbuf[Other(e)], wire[e], out[e], bundled[e])
    BY <2>3, LineMoves
  <2> QED
    BY <1>1, <2>2, <2>4 DEF CInv, Row
<1>2. CASE d # e
  <2>1. out'[d] = out[d] /\ bundled'[d] = bundled[d]
    BY <1>2 DEF CInv, TypeOK
  <2> QED
    BY <2>1 DEF CInv, Row
<1> QED
  BY <1>1, <1>2

\* A byte that leaves the writable buffer.
LEMMA TransmitRow ==
    ASSUME CInv, NEW e \in Ends, Transmit(e)
    PROVE  \A d \in Ends : sent'[d] = Row(d)'
<1> TAKE d \in Ends
<1>0. UNCHANGED <<sent, got, inbuf, bundled>>
  BY DEF Transmit, bundleVars, readVars
<1>1. CASE d = e
  <2>1. out[e] # <<>> /\ out'[e] = Tail(out[e]) /\ wire'[e] = Append(wire[e], Head(out[e]))
    BY DEF CInv, TypeOK, Transmit
  <2>2. Row(e)' = Line(got[Other(e)], inbuf[Other(e)], Append(wire[e], Head(out[e])), Tail(out[e]),
                       bundled[e])
    BY <1>0, <2>1 DEF Row
  <2>3. /\ got[Other(e)] \in Bytes /\ inbuf[Other(e)] \in Bytes /\ wire[e] \in Bytes
        /\ out[e] \in Bytes /\ bundled[e] \in Bytes
    BY AllBytes DEF CInv
  <2>4. Row(e)' = Line(got[Other(e)], inbuf[Other(e)], wire[e], out[e], bundled[e])
    BY <2>1, <2>2, <2>3, LineKeeps
  <2> QED
    BY <1>0, <1>1, <2>4 DEF CInv, Row
<1>2. CASE d # e
  <2>1. out'[d] = out[d] /\ wire'[d] = wire[d]
    BY <1>2 DEF CInv, TypeOK, Transmit
  <2> QED
    BY <1>0, <2>1 DEF CInv, Row
<1> QED
  BY <1>1, <1>2

\* A byte that reaches the peer.
LEMMA DeliverRow ==
    ASSUME CInv, NEW e \in Ends, Deliver(e)
    PROVE  \A d \in Ends : sent'[d] = Row(d)'
<1> TAKE d \in Ends
<1>0. UNCHANGED <<sent, got, out, bundled>>
  BY DEF Deliver, bundleVars, writeVars
<1>1. CASE d = e
  <2>1. wire[e] # <<>> /\ wire'[e] = Tail(wire[e])
        /\ inbuf'[Other(e)] = Append(inbuf[Other(e)], Head(wire[e]))
    BY Peers DEF CInv, TypeOK, Deliver
  <2>2. Row(e)' = Line(got[Other(e)], Append(inbuf[Other(e)], Head(wire[e])), Tail(wire[e]), out[e],
                       bundled[e])
    BY <1>0, <2>1 DEF Row
  <2>3. /\ got[Other(e)] \in Bytes /\ inbuf[Other(e)] \in Bytes /\ wire[e] \in Bytes
        /\ out[e] \in Bytes /\ bundled[e] \in Bytes
    BY AllBytes DEF CInv
  <2>4. Row(e)' = Line(got[Other(e)], inbuf[Other(e)], wire[e], out[e], bundled[e])
    BY <2>1, <2>2, <2>3, LineKeeps
  <2> QED
    BY <1>0, <1>1, <2>4 DEF CInv, Row
<1>2. CASE d # e
  <2>1. Other(d) \in Ends /\ Other(d) # Other(e)
    BY <1>2, Peers
  <2>2. wire'[d] = wire[d] /\ inbuf'[Other(d)] = inbuf[Other(d)]
    BY <1>2, <2>1 DEF CInv, TypeOK, Deliver
  <2> QED
    BY <1>0, <2>2 DEF CInv, Row
<1> QED
  BY <1>1, <1>2

\* Bytes that are read.
LEMMA PollRow ==
    ASSUME CInv, NEW e \in Ends, Poll(e)
    PROVE  \A d \in Ends : sent'[d] = Row(d)'
<1> TAKE d \in Ends
<1> DEFINE n == Taken(e, want[e])
<1>0. UNCHANGED <<sent, wire, out, bundled>>
  BY DEF Poll, bundleVars, writeVars
<1>1. /\ got' = [got EXCEPT ![e] = Cat(@, SubSeq(inbuf[e], 1, n))]
      /\ inbuf' = [inbuf EXCEPT ![e] = SubSeq(@, n + 1, Len(@))]
  BY DEF Poll, Cat
<1>2. n \in 0..Len(inbuf[e])
  BY TakenRange DEF CInv, TypeOK
<1> HIDE DEF n
<1>3. CASE Other(d) = e
  <2>1. /\ got'[e] = Cat(got[e], SubSeq(inbuf[e], 1, n))
        /\ inbuf'[e] = SubSeq(inbuf[e], n + 1, Len(inbuf[e]))
    BY <1>1 DEF CInv, TypeOK
  <2>2. Row(d)' = Line(Cat(got[e], SubSeq(inbuf[e], 1, n)), SubSeq(inbuf[e], n + 1, Len(inbuf[e])),
                       wire[d], out[d], bundled[d])
    BY <1>0, <1>3, <2>1 DEF Row
  <2>3. /\ got[e] \in Bytes /\ inbuf[e] \in Bytes /\ wire[d] \in Bytes
        /\ out[d] \in Bytes /\ bundled[d] \in Bytes
    BY AllBytes DEF CInv
  <2>4. Row(d)' = Line(got[e], inbuf[e], wire[d], out[d], bundled[d])
    BY <1>2, <2>2, <2>3, LineKeeps
  <2> QED
    BY <1>0, <1>3, <2>4 DEF CInv, Row
<1>4. CASE Other(d) # e
  <2>1. Other(d) \in Ends
    BY Peers
  <2>2. got'[Other(d)] = got[Other(d)] /\ inbuf'[Other(d)] = inbuf[Other(d)]
    BY <1>1, <1>4, <2>1 DEF CInv, TypeOK
  <2> QED
    BY <1>0, <2>2 DEF CInv, Row
<1> QED
  BY <1>3, <1>4

\* Bytes that are written go to the end of the writable buffer, which the
\* bundle is empty behind, or of the bundle.
LEMMA WriteMoves ==
    ASSUME CInv, NEW e \in Ends, Write(e)
    PROVE  \E x \in Bytes :
             /\ sent' = [sent EXCEPT ![e] = Cat(@, x)]
             /\ \/ /\ do_flush[e] /\ UNCHANGED bundled
                   /\ out' = [out EXCEPT ![e] = Cat(@, x)]
                \/ /\ ~ do_flush[e] /\ UNCHANGED out
                   /\ bundled' = [bundled EXCEPT ![e] = Cat(@, x)]
<1>1. PICK n \in 1..MaxWrite :
        LET bytes == [i \in 1..n |-> Len(sent[e]) + i] IN
        /\ sent' = [sent EXCEPT ![e] = @ \o bytes]
        /\ IF do_flush[e]
           THEN Owrite(e, bytes) /\ UNCHANGED bundled
           ELSE bundled' = [bundled EXCEPT ![e] = @ \o bytes] /\ UNCHANGED writeVars
  BY DEF Write
<1> DEFINE x == [i \in 1..n |-> Len(sent[e]) + i]
<1>2. x \in Bytes
  <2>1. n \in Nat /\ Len(sent[e]) \in Nat
    BY ConstantsOK, LenProperties DEF CInv, TypeOK
  <2> QED
    BY <2>1, BytesWritten DEF Bytes
<1>3. /\ sent' = [sent EXCEPT ![e] = @ \o x]
      /\ IF do_flush[e]
         THEN Owrite(e, x) /\ UNCHANGED bundled
         ELSE bundled' = [bundled EXCEPT ![e] = @ \o x] /\ UNCHANGED writeVars
  BY <1>1
<1> HIDE DEF x
<1> WITNESS x \in Bytes
<1> QED
  BY <1>3 DEF Owrite, Cat, writeVars

\* A write adds to the row what it adds to what was written.
LEMMA WriteRow ==
    ASSUME CInv, NEW e \in Ends, Write(e)
    PROVE  \A d \in Ends : sent'[d] = Row(d)'
<1> TAKE d \in Ends
<1>0. UNCHANGED <<got, inbuf, wire>>
  BY DEF Write, readVars
<1>1. PICK x \in Bytes :
        /\ sent' = [sent EXCEPT ![e] = Cat(@, x)]
        /\ \/ /\ do_flush[e] /\ UNCHANGED bundled
              /\ out' = [out EXCEPT ![e] = Cat(@, x)]
           \/ /\ ~ do_flush[e] /\ UNCHANGED out
              /\ bundled' = [bundled EXCEPT ![e] = Cat(@, x)]
  BY WriteMoves
<1>2. CASE d = e
  <2> DEFINE g == got[Other(e)]
             i == inbuf[Other(e)]
             w == wire[e]
             o == out[e]
             b == bundled[e]
  <2>1. g \in Bytes /\ i \in Bytes /\ w \in Bytes /\ o \in Bytes /\ b \in Bytes
    BY AllBytes DEF CInv
  <2>2. sent'[e] = Cat(Line(g, i, w, o, b), x)
    BY <1>1 DEF CInv, TypeOK, Row
  <2>3. CASE do_flush[e]
    <3>1. b = <<>>
      BY <2>3 DEF CInv, Closing
    <3>2. out'[e] = Cat(o, x) /\ bundled'[e] = <<>>
      BY <1>1, <2>3, <3>1 DEF CInv, TypeOK
    <3>3. Row(e)' = Line(g, i, w, Cat(o, x), <<>>)
      BY <1>0, <3>2 DEF Row
    <3> HIDE DEF g, i, w, o, b
    <3>4. Line(g, i, w, Cat(o, x), <<>>) = Cat(Line(g, i, w, o, <<>>), x)
      BY <2>1, LineMoves
    <3> QED
      BY <1>2, <2>2, <3>1, <3>3, <3>4
  <2>4. CASE ~ do_flush[e]
    <3>1. out'[e] = o /\ bundled'[e] = Cat(b, x)
      BY <1>1, <2>4 DEF CInv, TypeOK
    <3>2. Row(e)' = Line(g, i, w, o, Cat(b, x))
      BY <1>0, <3>1 DEF Row
    <3> HIDE DEF g, i, w, o, b
    <3>3. Line(g, i, w, o, Cat(b, x)) = Cat(Line(g, i, w, o, b), x)
      BY <2>1, LineMoves
    <3> QED
      BY <1>2, <2>2, <3>2, <3>3
  <2> QED
    BY <2>3, <2>4
<1>3. CASE d # e
  <2>1. sent'[d] = sent[d] /\ out'[d] = out[d] /\ bundled'[d] = bundled[d]
    BY <1>1, <1>3 DEF CInv, TypeOK
  <2> QED
    BY <1>0, <2>1 DEF CInv, Row
<1> QED
  BY <1>2, <1>3

\* Steps after which an end's writable buffer, bundle and wire hold what they
\* held or less, and nothing that was begun is undone.
LEMMA ClosingKeeps ==
    ASSUME CInv, NEW e \in Ends, FlushBundle(e) \/ EndOf(e), UNCHANGED <<wire, eof, fin, inbuf, endDue>>,
           \A d \in Ends : (closing[d] => closing'[d]) /\ (ending'[d] => ending[d] \/ d = e)
    PROVE  \A d \in Ends :
             /\ do_flush'[d] \/ ending'[d] => bundled'[d] = <<>>
             /\ fin'[d] => closing'[d] /\ out'[d] = <<>>
             /\ eof'[Other(d)] => fin'[d] /\ wire'[d] = <<>>
             /\ endDue'[d] => eof'[d] /\ inbuf'[d] = <<>>
<1> TAKE d \in Ends
<1>1. /\ bundled' = [bundled EXCEPT ![e] = <<>>]
      /\ out' = [out EXCEPT ![e] = Cat(@, bundled[e])]
      /\ ending[e] => UNCHANGED out
      /\ \A c \in Ends : c # e => do_flush'[c] = do_flush[c]
  <2>1. CASE FlushBundle(e)
    BY <2>1, FlushKeeps DEF FlushBundle, CInv, TypeOK
  <2>2. CASE EndOf(e)
    BY <2>2, EndKeeps
  <2> QED
    BY <2>1, <2>2
<1>2. do_flush'[d] \/ ending'[d] => bundled'[d] = <<>>
  BY <1>1 DEF CInv, TypeOK, Closing
<1>3. fin'[d] => closing'[d] /\ out'[d] = <<>>
  <2> SUFFICES ASSUME fin[d] PROVE closing'[d] /\ out'[d] = <<>>
    OBVIOUS
  <2>1. closing[d] /\ out[d] = <<>> /\ ending[d]
    BY DEF CInv, TypeOK, Closing
  <2>2. out'[d] = out[d]
    BY <1>1, <2>1 DEF CInv, TypeOK
  <2> QED
    BY <2>1, <2>2
<1>4. (eof'[Other(d)] => fin'[d] /\ wire'[d] = <<>>) /\ (endDue'[d] => eof'[d] /\ inbuf'[d] = <<>>)
  BY DEF CInv, Closing
<1> QED
  BY <1>2, <1>3, <1>4

\* Every step keeps the invariant.
LEMMA CInvStep == CInv /\ [Next]_vars => CInv'
<1> SUFFICES ASSUME CInv, [Next]_vars PROVE CInv'
  OBVIOUS
<1>0. TypeOK /\ TypeOK'
  BY TypeStep DEF CInv
<1> USE DEF bundleVars, writeVars, endVars, closeVars, readVars
<1> SUFFICES (\A d \in Ends : Closing(d)') /\ (\A d \in Ends : sent'[d] = Row(d)')
  BY <1>0 DEF CInv
<1>1. ASSUME NEW e \in Ends, Bundle(e)
      PROVE  (\A d \in Ends : Closing(d)') /\ (\A d \in Ends : sent'[d] = Row(d)')
  <2>1. \A d \in Ends : do_flush'[d] => do_flush[d]
    BY <1>1 DEF Bundle, CInv, TypeOK
  <2>2. \A d \in Ends : Closing(d)'
    BY <1>1, <2>1 DEF Bundle, CInv, Closing
  <2>3. UNCHANGED <<sent, got, inbuf, wire, out, bundled>>
    BY <1>1 DEF Bundle
  <2> QED
    BY <2>2, <2>3, QuietRow
<1>2. ASSUME NEW e \in Ends, Flush(e)
      PROVE  (\A d \in Ends : Closing(d)') /\ (\A d \in Ends : sent'[d] = Row(d)')
  <2>1. FlushBundle(e) /\ UNCHANGED <<sent, got, wire, eof, fin, inbuf, endDue, closing, ending, readableEnded>>
    BY <1>2 DEF Flush
  <2>2. \A d \in Ends : Closing(d)'
    BY <2>1, ClosingKeeps DEF CInv, Closing
  <2> QED
    BY <2>1, <2>2, FlushKeeps, FlushRow
<1>3. ASSUME NEW e \in Ends, Write(e)
      PROVE  (\A d \in Ends : Closing(d)') /\ (\A d \in Ends : sent'[d] = Row(d)')
  <2>1. PICK x \in Bytes :
          /\ sent' = [sent EXCEPT ![e] = Cat(@, x)]
          /\ \/ /\ do_flush[e] /\ UNCHANGED bundled
                /\ out' = [out EXCEPT ![e] = Cat(@, x)]
             \/ /\ ~ do_flush[e] /\ UNCHANGED out
                /\ bundled' = [bundled EXCEPT ![e] = Cat(@, x)]
    BY <1>3, WriteMoves
  <2>2. ~ ending[e] /\ ~ fin[e]
    BY <1>3 DEF Write, CInv, TypeOK, Closing
  <2>3. UNCHANGED <<do_flush, ending, waits, closing, fin, wire, eof, inbuf, endDue, readableEnded>>
    BY <1>3 DEF Write
  <2>4. \A d \in Ends : (do_flush[d] \/ ending[d] => bundled'[d] = <<>>) /\ (fin[d] => out'[d] = <<>>)
    BY <2>1, <2>2 DEF CInv, TypeOK, Closing
  <2>5. \A d \in Ends : Closing(d)'
    BY <2>3, <2>4 DEF CInv, Closing
  <2> QED
    BY <1>3, <2>5, WriteRow
<1>4. ASSUME NEW e \in Ends, End(e)
      PROVE  (\A d \in Ends : Closing(d)') /\ (\A d \in Ends : sent'[d] = Row(d)')
  <2>1. EndOf(e) /\ UNCHANGED <<sent, got, wire, eof, fin, inbuf, endDue, readableEnded>>
    BY <1>4 DEF End
  <2>2. \A d \in Ends : (closing[d] => closing'[d]) /\ (ending'[d] => ending[d] \/ d = e)
    BY <2>1, EndKeeps DEF CInv, TypeOK
  <2>3. \A d \in Ends : Closing(d)'
    BY <2>1, <2>2, ClosingKeeps DEF CInv, Closing
  <2> QED
    BY <2>1, <2>3, EndKeeps, FlushRow
<1>5. ASSUME NEW e \in Ends, Read(e)
      PROVE  (\A d \in Ends : Closing(d)') /\ (\A d \in Ends : sent'[d] = Row(d)')
  <2>1. UNCHANGED <<sent, got, inbuf, wire, out, bundled, do_flush, ending, closing, fin, eof, endDue,
                    readableEnded>>
    BY <1>5 DEF Read
  <2>2. \A d \in Ends : Closing(d)'
    BY <2>1 DEF CInv, Closing
  <2> QED
    BY <2>1, <2>2, QuietRow
<1>6. ASSUME NEW e \in Ends, Transmit(e)
      PROVE  (\A d \in Ends : Closing(d)') /\ (\A d \in Ends : sent'[d] = Row(d)')
  <2>1. out[e] # <<>> /\ ~ fin[e]
    BY <1>6 DEF Transmit, CInv, Closing
  <2>2. \A d \in Ends : ~ eof[Other(e)] /\ (fin[d] => d # e)
    BY <2>1 DEF CInv, Closing
  <2>3. UNCHANGED <<do_flush, bundled, ending, fin, eof, inbuf, endDue, readableEnded>>
    BY <1>6 DEF Transmit
  <2>4. \A d \in Ends : d # e => out'[d] = out[d] /\ wire'[d] = wire[d] /\ closing'[d] = closing[d]
    <3>1. \A d \in Ends : d # e => out'[d] = out[d] /\ wire'[d] = wire[d]
      BY <1>6 DEF Transmit, CInv, TypeOK
    <3>2. closing' = closing \/ closing' = [closing EXCEPT ![e] = waits[e]]
      BY <1>6 DEF Transmit
    <3>3. \A d \in Ends : d # e => closing'[d] = closing[d]
      BY <3>2 DEF CInv, TypeOK
    <3> QED
      BY <3>1, <3>3
  <2>5. \A d \in Ends : Closing(d)'
    BY <2>1, <2>2, <2>3, <2>4 DEF CInv, Closing
  <2> QED
    BY <1>6, <2>5, TransmitRow
<1>7. ASSUME NEW e \in Ends, SendFin(e)
      PROVE  (\A d \in Ends : Closing(d)') /\ (\A d \in Ends : sent'[d] = Row(d)')
  <2>1. closing[e] /\ out[e] = <<>> /\ \A d \in Ends : fin'[d] = (fin[d] \/ d = e)
    BY <1>7 DEF SendFin, CInv, TypeOK
  <2>2. UNCHANGED <<sent, got, inbuf, wire, out, bundled, do_flush, ending, closing, eof, endDue,
                    readableEnded>>
    BY <1>7 DEF SendFin
  <2>3. \A d \in Ends : Closing(d)'
    BY <2>1, <2>2 DEF CInv, Closing
  <2> QED
    BY <2>2, <2>3, QuietRow
<1>8. ASSUME NEW e \in Ends, Deliver(e)
      PROVE  (\A d \in Ends : Closing(d)') /\ (\A d \in Ends : sent'[d] = Row(d)')
  <2>1. Other(e) \in Ends /\ wire[e] # <<>> /\ ~ eof[Other(e)]
    BY <1>8, Peers DEF Deliver, CInv, Closing
  <2>2. ~ endDue[Other(e)]
    BY <2>1 DEF CInv, Closing
  <2>3. \A d \in Ends : (d # e => wire'[d] = wire[d]) /\ (d # Other(e) => inbuf'[d] = inbuf[d])
    BY <1>8 DEF Deliver, CInv, TypeOK
  <2>4. UNCHANGED <<do_flush, bundled, ending, out, closing, fin, eof, endDue, readableEnded>>
    BY <1>8 DEF Deliver
  <2>5. \A d \in Ends : Closing(d)'
    BY <2>1, <2>2, <2>3, <2>4 DEF CInv, Closing
  <2> QED
    BY <1>8, <2>5, DeliverRow
<1>9. ASSUME NEW e \in Ends, DeliverFin(e)
      PROVE  (\A d \in Ends : Closing(d)') /\ (\A d \in Ends : sent'[d] = Row(d)')
  <2>1. Other(e) \in Ends /\ fin[e] /\ wire[e] = <<>> /\ ~ eof[Other(e)]
    BY <1>9, Peers DEF DeliverFin
  <2>2. ~ readableEnded[Other(e)]
    BY <2>1 DEF CInv, Closing
  <2>3. /\ \A d \in Ends : eof'[d] = (eof[d] \/ d = Other(e))
        /\ \A d \in Ends : d # Other(e) => endDue'[d] = endDue[d]
        /\ endDue'[Other(e)] => inbuf[Other(e)] = <<>>
    BY <1>9, <2>1 DEF DeliverFin, CInv, TypeOK
  <2>4. UNCHANGED <<sent, got, inbuf, wire, out, bundled, do_flush, ending, closing, fin, readableEnded>>
    BY <1>9 DEF DeliverFin
  <2>5. \A d \in Ends : Other(d) = Other(e) => d = e
    BY Peers
  <2>6. \A d \in Ends : Closing(d)'
    <3> TAKE d \in Ends
    <3>1. eof'[Other(d)] => fin'[d] /\ wire'[d] = <<>>
      BY <2>1, <2>3, <2>4, <2>5, Peers DEF CInv, Closing
    <3>2. (endDue'[d] => eof'[d] /\ inbuf'[d] = <<>>) /\ (readableEnded'[d] => endDue'[d])
      BY <2>2, <2>3, <2>4 DEF CInv, Closing
    <3> QED
      BY <2>4, <3>1, <3>2 DEF CInv, Closing
  <2> QED
    BY <2>4, <2>6, QuietRow
<1>10. ASSUME NEW e \in Ends, EmitEnd(e)
       PROVE  (\A d \in Ends : Closing(d)') /\ (\A d \in Ends : sent'[d] = Row(d)')
  <2>1. UNCHANGED <<sent, got, wire, eof, fin, inbuf, endDue>>
    BY <1>10 DEF EmitEnd
  <2>2. \A d \in Ends : readableEnded'[d] => endDue[d]
    BY <1>10 DEF EmitEnd, CInv, TypeOK, Closing
  <2>3. CASE UNCHANGED <<closing, ending, waits, do_flush, bundled, out, needDrain>>
    <3>1. \A d \in Ends : Closing(d)'
      BY <2>1, <2>2, <2>3 DEF CInv, Closing
    <3> QED
      BY <2>1, <2>3, <3>1, QuietRow
  <2>4. CASE EndOf(e)
    <3>1. \A d \in Ends : (closing[d] => closing'[d]) /\ (ending'[d] => ending[d] \/ d = e)
      BY <2>4, EndKeeps DEF CInv, TypeOK
    <3>2. \A d \in Ends : Closing(d)'
      BY <2>1, <2>2, <2>4, <3>1, ClosingKeeps DEF Closing
    <3> QED
      BY <2>1, <2>4, <3>2, EndKeeps, FlushRow
  <2> QED
    BY <1>10, <2>3, <2>4 DEF EmitEnd, Bound
<1>11. ASSUME NEW e \in Ends, Poll(e)
       PROVE  (\A d \in Ends : Closing(d)') /\ (\A d \in Ends : sent'[d] = Row(d)')
  <2> DEFINE n == Taken(e, want[e])
  <2>1. n \in 0..Len(inbuf[e]) /\ (eof[e] /\ n < want[e] => n = Len(inbuf[e]))
    BY <1>0, TakenRange DEF TypeOK
  <2>2. /\ inbuf' = [inbuf EXCEPT ![e] = SubSeq(@, n + 1, Len(@))]
        /\ endDue' = [endDue EXCEPT ![e] = @ \/ (eof[e] /\ n < want[e])]
    BY <1>11 DEF Poll
  <2>3. n = Len(inbuf[e]) => SubSeq(inbuf[e], n + 1, Len(inbuf[e])) = <<>>
    <3>1. inbuf[e] \in Seq(Nat)
      BY <1>0 DEF TypeOK
    <3> QED
      BY <3>1, LenProperties, SubSeqEmpty
  <2>4. inbuf[e] = <<>> => n = Len(inbuf[e])
    BY <2>1
  <2> HIDE DEF n
  <2>5. UNCHANGED <<wire, out, bundled, do_flush, ending, closing, fin, eof, readableEnded>>
    BY <1>11 DEF Poll
  <2>6. \A d \in Ends :
          (endDue'[d] => eof[d] /\ inbuf'[d] = <<>>) /\ (endDue[d] => endDue'[d])
    <3> TAKE d \in Ends
    <3>1. CASE d = e
      <4>1. endDue'[e] = (endDue[e] \/ (eof[e] /\ n < want[e]))
            /\ inbuf'[e] = SubSeq(inbuf[e], n + 1, Len(inbuf[e]))
        BY <1>0, <2>2 DEF TypeOK
      <4>2. endDue[e] => eof[e] /\ inbuf[e] = <<>>
        BY DEF CInv, Closing
      <4> QED
        BY <2>1, <2>3, <2>4, <3>1, <4>1, <4>2
    <3>2. CASE d # e
      <4>1. endDue'[d] = endDue[d] /\ inbuf'[d] = inbuf[d]
        BY <1>0, <2>2, <3>2 DEF TypeOK
      <4> QED
        BY <4>1 DEF CInv, Closing
    <3> QED
      BY <3>1, <3>2
  <2>7. \A d \in Ends : Closing(d)'
    BY <2>5, <2>6 DEF CInv, Closing
  <2> QED
    BY <1>11, <2>7, PollRow
<1>12. CASE UNCHANGED vars
  <2>1. UNCHANGED <<sent, got, inbuf, wire, out, bundled, do_flush, ending, closing, fin, eof, endDue,
                    readableEnded>>
    BY <1>12 DEF vars
  <2>2. \A d \in Ends : Closing(d)'
    BY <2>1 DEF CInv, Closing
  <2> QED
    BY <2>1, <2>2, QuietRow
<1> QED
  BY <1>1, <1>2, <1>3, <1>4, <1>5, <1>6, <1>7, <1>8, <1>9, <1>10, <1>11, <1>12 DEF Next

\* Nothing is written and nothing has ended at the start.
LEMMA CInvInit == Init => CInv
<1> SUFFICES ASSUME Init PROVE CInv
  OBVIOUS
<1>1. \A e \in Ends : Closing(e)
  BY Peers DEF Init, All, Closing
<1>2. \A e \in Ends : sent[e] = Row(e)
  <2> TAKE e \in Ends
  <2>1. Row(e) = Line(<<>>, <<>>, <<>>, <<>>, <<>>) /\ sent[e] = <<>>
    BY Peers DEF Init, All, Row
  <2>2. Line(<<>>, <<>>, <<>>, <<>>, <<>>) = <<>>
    BY CatLaws DEF Line
  <2> QED
    BY <2>1, <2>2
<1> QED
  BY <1>1, <1>2, TypeInit DEF CInv

\* The invariant holds for ever.
LEMMA CInvAlways == Spec => []CInv
BY CInvInit, CInvStep, PTL DEF Spec

\* Whatever is bundled, flushed, written, read and ended in whatever order, each
\* byte is in one place, and all are in the order they were written in.
THEOREM BytesInOrder == Spec => []Stream
<1>1. CInv => Stream
  BY DEF CInv, Stream, Row, Line, Cat
<1> QED
  BY <1>1, CInvAlways, PTL

\* What a side has read when it has seen the end of the other's bytes.
LEMMA AllRead ==
    ASSUME CInv, NEW e \in Ends, eof[e], inbuf[e] = <<>>
    PROVE  sent[Other(e)] = got[e]
<1> DEFINE p == Other(e)
<1>1. p \in Ends /\ Other(p) = e
  BY Peers
<1>2. fin[p] /\ wire[p] = <<>> /\ closing[p] /\ out[p] = <<>>
  BY <1>1 DEF CInv, Closing
<1>3. bundled[p] = <<>>
  BY <1>1, <1>2 DEF CInv, TypeOK, Closing
<1> HIDE DEF p
<1>4. sent[p] = Line(got[e], <<>>, <<>>, <<>>, <<>>)
  BY <1>1, <1>2, <1>3 DEF CInv, Row
<1>5. got[e] \in Bytes
  BY AllBytes DEF CInv
<1> QED
  BY <1>4, <1>5, CatLaws DEF Line, p

\* A connection counts as ended only when all that the peer ever wrote, bundled
\* or not, has been read.
THEOREM EndIsWhole == Spec => []NothingCutOff
<1>1. CInv => NothingCutOff
  BY AllRead DEF CInv, Closing, NothingCutOff
<1> QED
  BY <1>1, CInvAlways, PTL

\* What a read gives is as long as the bytes it takes.
LEMMA PollGives ==
    ASSUME TypeOK, NEW e \in Ends, Poll(e)
    PROVE  /\ Len(got'[e]) = Len(got[e]) + Taken(e, want[e])
           /\ Taken(e, want[e]) = Len(inbuf[e]) => inbuf'[e] = <<>>
           /\ \A d \in Ends : d # e => got'[d] = got[d]
           /\ sent' = sent /\ eof' = eof
<1> DEFINE n == Taken(e, want[e])
<1>1. n \in 0..Len(inbuf[e]) /\ inbuf[e] \in Seq(Nat) /\ got[e] \in Seq(Nat)
  BY TakenRange DEF TypeOK
<1>2. got'[e] = got[e] \o SubSeq(inbuf[e], 1, n)
      /\ inbuf'[e] = SubSeq(inbuf[e], n + 1, Len(inbuf[e]))
  BY DEF Poll, TypeOK
<1> HIDE DEF n
<1>3. \A k \in 1..Len(inbuf[e]) : inbuf[e][k] \in Nat
  BY <1>1, ElementOfSeq
<1>4. SubSeq(inbuf[e], 1, n) \in Seq(Nat) /\ Len(SubSeq(inbuf[e], 1, n)) = n
  <2>1. Len(inbuf[e]) \in Nat
    BY <1>1, LenProperties
  <2>2. n \in Nat /\ \A k \in 1..n : inbuf[e][k] \in Nat
    BY <1>1, <1>3, <2>1
  <2> QED
    BY <2>1, <2>2, SubSeqProperties
<1> DEFINE f == SubSeq(inbuf[e], 1, n)
<1>5. Len(got'[e]) = Len(got[e]) + n
  <2>1. f \in Seq(Nat) /\ Len(f) = n /\ got'[e] = got[e] \o f
    BY <1>2, <1>4
  <2> HIDE DEF f
  <2>2. Len(got[e] \o f) = Len(got[e]) + Len(f)
    BY <1>1, <2>1, ConcatProperties
  <2> QED
    BY <2>1, <2>2
<1> HIDE DEF f
<1>6. n = Len(inbuf[e]) => inbuf'[e] = <<>>
  BY <1>1, <1>2, LenProperties, SubSeqEmpty
<1>7. Len(got'[e]) = Len(got[e]) + Taken(e, want[e])
  BY <1>5 DEF n
<1>8. Taken(e, want[e]) = Len(inbuf[e]) => inbuf'[e] = <<>>
  BY <1>6 DEF n
<1>9. (\A d \in Ends : d # e => got'[d] = got[d]) /\ sent' = sent /\ eof' = eof
  BY DEF Poll, TypeOK
<1> QED
  BY <1>7, <1>8, <1>9

ReadOut == \A e \in Ends : eof[e] /\ inbuf[e] = <<>> => got[e] = sent[Other(e)]

\* A read gives fewer bytes than it asks for only with the last ones the peer
\* ever wrote.
THEOREM ShortReadsAreLast == Spec => ReadsWhole
<1> DEFINE A == \A e \in Ends :
                  Len(got'[e]) > Len(got[e]) /\ Len(got'[e]) - Len(got[e]) < want[e]
                    => got'[e] = sent[Other(e)]
<1>1. CInv => ReadOut
  BY AllRead DEF ReadOut
<1>2. CInv' => ReadOut'
  BY <1>1, PTL
<1>3. CInv /\ ReadOut' /\ [Next]_vars => [A]_vars
  <2> SUFFICES ASSUME CInv, ReadOut', [Next]_vars, NEW e \in Ends,
                      Len(got'[e]) > Len(got[e]), Len(got'[e]) - Len(got[e]) < want[e]
               PROVE  got'[e] = sent[Other(e)]
    OBVIOUS
  <2>1. CASE Poll(e)
    <3>1. Taken(e, want[e]) \in 0..Len(inbuf[e]) /\ want[e] \in Nat /\ Len(got[e]) \in Nat
          /\ Len(inbuf[e]) \in Nat
      BY TakenRange, LenProperties DEF CInv, TypeOK
    <3>2. Taken(e, want[e]) > 0 /\ Taken(e, want[e]) < want[e]
      <4>1. Len(got'[e]) = Len(got[e]) + Taken(e, want[e])
        BY <2>1, PollGives DEF CInv
      <4> QED
        BY <3>1, <4>1
    <3>3. eof[e] /\ Taken(e, want[e]) = Len(inbuf[e])
      BY <3>1, <3>2 DEF Taken
    <3> QED
      BY <2>1, <3>3, PollGives DEF CInv, ReadOut
  <2>2. CASE got'[e] = got[e]
    <3>1. Len(got[e]) \in Nat
      BY LenProperties DEF CInv, TypeOK
    <3> QED
      BY <2>2, <3>1
  <2>3. Poll(e) \/ got'[e] = got[e]
    <3>1. ASSUME NEW d \in Ends, Poll(d), d # e PROVE got'[e] = got[e]
      BY <3>1, PollGives DEF CInv
    <3>2. ASSUME NEW d \in Ends,
                 \/ Bundle(d) \/ Flush(d) \/ Write(d) \/ End(d) \/ Read(d)
                 \/ Transmit(d) \/ SendFin(d) \/ Deliver(d) \/ DeliverFin(d) \/ EmitEnd(d)
          PROVE  got' = got
      BY <3>2 DEF Bundle, Flush, Write, End, Read, Transmit, SendFin, Deliver, DeliverFin, EmitEnd,
                  readVars
    <3>3. CASE UNCHANGED vars
      BY <3>3 DEF vars
    <3> QED
      BY <3>1, <3>2, <3>3 DEF Next
  <2> QED
    BY <2>1, <2>2, <2>3
<1> QED
  BY <1>2, <1>3, CInvAlways, PTL DEF Spec, ReadsWhole
=============================================================================

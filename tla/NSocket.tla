------------------------------ MODULE NSocket ------------------------------
(***************************************************************************)
(* Two NSockets (defs.js) joined by a connection: bundling, writing,       *)
(* ending and polling reads, over what they use of node's sockets: a       *)
(* writable buffer with a mark that makes "drain" due, a readable buffer,  *)
(* "end", and the end() that node calls itself when the peer has ended.    *)
(*                                                                         *)
(* The programs at the two ends call the operations in any order, one read *)
(* at a time.  Bytes are numbered in the order they are written.           *)
(***************************************************************************)
EXTENDS Naturals, Sequences

CONSTANTS
    Mark,       \* the writable buffer is full with so many bytes, 16384 in node
    Room,       \* bytes the network holds in one direction
    MaxBytes,   \* bound: bytes the client writes
    MaxReply,   \* bound: bytes the server writes
    MaxWrite,   \* bound: bytes in one call of write
    MaxRead,    \* bound: bytes asked for in one call of read
    Bundlers    \* bound: the ends that bundle

ASSUME ConstantsOK ==
    /\ Mark \in Nat \ {0} /\ Room \in Nat \ {0}
    /\ MaxBytes \in Nat /\ MaxReply \in Nat /\ MaxWrite \in Nat /\ MaxRead \in Nat

Ends == {"client", "server"}
Limit(e) == IF e = "client" THEN MaxBytes ELSE MaxReply
Other(e) == IF e = "client" THEN "server" ELSE "client"

VARIABLES
    do_flush, bundled,   \* writes go out, or are kept for flush
    ending,              \* end() has been called
    out, needDrain,      \* node's writable buffer; "drain" is due when it is empty
    waits,               \* end() waits for "drain"
    closing, fin,        \* node's end() has been called; its FIN is sent
    wire,                \* bytes on their way from each end
    inbuf, eof,          \* node's readable buffer; FIN received
    endDue, readableEnded,   \* "end" will be emitted; has been
    want,                \* bytes the pending read waits for, or 0
    got, sent            \* history: what reads gave, what write accepted

vars == <<do_flush, bundled, ending, out, needDrain, waits, closing, fin, wire,
          inbuf, eof, endDue, readableEnded, want, got, sent>>
bundleVars == <<do_flush, bundled>>
writeVars == <<out, needDrain>>
endVars == <<ending, waits>>
closeVars == <<closing, fin>>
readVars == <<inbuf, endDue, readableEnded, want, got>>

-----------------------------------------------------------------------------
All(x) == [e \in Ends |-> x]

\* NSocket.from, and the constructor once connected.
Init ==
    /\ do_flush = All(TRUE) /\ bundled = All(<<>>) /\ ending = All(FALSE)
    /\ out = All(<<>>) /\ needDrain = All(FALSE) /\ waits = All(FALSE)
    /\ closing = All(FALSE) /\ fin = All(FALSE) /\ wire = All(<<>>)
    /\ inbuf = All(<<>>) /\ eof = All(FALSE)
    /\ endDue = All(FALSE) /\ readableEnded = All(FALSE)
    /\ want = All(0) /\ got = All(<<>>) /\ sent = All(<<>>)

\* "drain" becomes due when the buffer reaches the mark (the mutant: passes).
FullAbove(n) == n > Mark
Full(n) == n >= Mark

\* node's write.
Owrite(e, bytes) ==
    /\ out' = [out EXCEPT ![e] = @ \o bytes]
    /\ needDrain' = [needDrain EXCEPT ![e] = @ \/ Full(Len(out[e] \o bytes))]

\* What a flush leaves in the bundle (the mutant forgets to empty it).
Kept(e) == bundled[e]
Emptied(e) == <<>>

FlushBundle(e) ==
    /\ do_flush' = [do_flush EXCEPT ![e] = TRUE]
    /\ bundled' = [bundled EXCEPT ![e] = Emptied(e)]
    /\ IF bundled[e] = <<>> THEN UNCHANGED writeVars ELSE Owrite(e, bundled[e])

\* Node's own end(): the FIN follows what is in the buffer.
Oend(e) == closing' = [closing EXCEPT ![e] = TRUE]

\* What end() does with an open bundle (the mutant leaves it).
LeaveBundle(e) == UNCHANGED bundleVars /\ UNCHANGED writeVars
CloseBundle(e) ==
    IF do_flush[e] THEN UNCHANGED bundleVars /\ UNCHANGED writeVars ELSE FlushBundle(e)

\* NSocket.end: writableFinished is false until node's end() is over, so it
\* waits for "drain".
EndOf(e) ==
    /\ ending' = [ending EXCEPT ![e] = TRUE]
    /\ CloseBundle(e)
    /\ IF fin[e] /\ (do_flush[e] \/ bundled[e] = <<>>)
       THEN Oend(e) /\ UNCHANGED waits
       ELSE waits' = [waits EXCEPT ![e] = TRUE] /\ UNCHANGED closing

-----------------------------------------------------------------------------
(* The programs                                                             *)

Bundle(e) ==
    /\ e \in Bundlers
    /\ do_flush' = [do_flush EXCEPT ![e] = FALSE]
    /\ UNCHANGED <<bundled, wire, eof, sent>> /\ UNCHANGED writeVars /\ UNCHANGED endVars
    /\ UNCHANGED closeVars /\ UNCHANGED readVars

Flush(e) ==
    /\ FlushBundle(e)
    /\ UNCHANGED <<wire, eof, sent>> /\ UNCHANGED endVars /\ UNCHANGED closeVars
    /\ UNCHANGED readVars

\* Once the peer's end has been seen, writing is another function of node's.
Write(e) ==
    /\ ~readableEnded[e] /\ ~ending[e]
    /\ \E n \in 1..MaxWrite :
         LET bytes == [i \in 1..n |-> Len(sent[e]) + i] IN
         /\ Len(sent[e]) + n <= Limit(e)
         /\ sent' = [sent EXCEPT ![e] = @ \o bytes]
         /\ IF do_flush[e]
            THEN Owrite(e, bytes) /\ UNCHANGED bundled
            ELSE bundled' = [bundled EXCEPT ![e] = @ \o bytes] /\ UNCHANGED writeVars
    /\ UNCHANGED <<do_flush, wire, eof>> /\ UNCHANGED endVars /\ UNCHANGED closeVars
    /\ UNCHANGED readVars

\* The programs end a connection once.
End(e) ==
    /\ ~ending[e] /\ EndOf(e)
    /\ UNCHANGED <<fin, wire, eof, sent>> /\ UNCHANGED readVars

Read(e) ==
    /\ want[e] = 0 /\ \E n \in 1..MaxRead : want' = [want EXCEPT ![e] = n]
    /\ UNCHANGED <<wire, eof, sent, inbuf, endDue, readableEnded, got>>
    /\ UNCHANGED bundleVars /\ UNCHANGED writeVars /\ UNCHANGED endVars /\ UNCHANGED closeVars

\* How much of the buffer a read of n bytes takes: nothing before it is all
\* there, unless no more can come.  (The mutant takes what there is.)
Eager(e, n) == IF Len(inbuf[e]) < n THEN Len(inbuf[e]) ELSE n
Taken(e, n) ==
    IF Len(inbuf[e]) >= n THEN n ELSE IF eof[e] THEN Len(inbuf[e]) ELSE 0

\* Whether a poll gives the default (the mutant polls for ever).
Never(e) == FALSE
Defaulted(e) == readableEnded[e]

\* toCall, which a timer repeats until the read is resolved.
Poll(e) ==
    LET n == Taken(e, want[e]) IN
    /\ want[e] > 0
    /\ Defaulted(e) \/ n > 0 \/ (eof[e] /\ ~endDue[e])
    /\ want' = [want EXCEPT ![e] = IF Defaulted(e) \/ n > 0 THEN 0 ELSE @]
    /\ got' = [got EXCEPT ![e] = @ \o SubSeq(inbuf[e], 1, n)]
    /\ inbuf' = [inbuf EXCEPT ![e] = SubSeq(@, n + 1, Len(@))]
    /\ endDue' = [endDue EXCEPT ![e] = @ \/ (eof[e] /\ n < want[e])]
    /\ UNCHANGED <<wire, eof, sent, readableEnded>>
    /\ UNCHANGED bundleVars /\ UNCHANGED writeVars /\ UNCHANGED endVars /\ UNCHANGED closeVars

-----------------------------------------------------------------------------
(* Node and the network                                                     *)

\* A byte leaves the writable buffer; with the last one "drain" is emitted if
\* it is due and node's end() has not been called.
Transmit(e) ==
    /\ out[e] # <<>> /\ Len(wire[e]) < Room
    /\ out' = [out EXCEPT ![e] = Tail(@)]
    /\ wire' = [wire EXCEPT ![e] = Append(@, Head(out[e]))]
    /\ IF Len(out[e]) = 1 /\ needDrain[e] /\ ~closing[e]
       THEN /\ needDrain' = [needDrain EXCEPT ![e] = FALSE]
            /\ waits' = [waits EXCEPT ![e] = FALSE]
            /\ closing' = [closing EXCEPT ![e] = waits[e]]
       ELSE UNCHANGED <<needDrain, waits, closing>>
    /\ UNCHANGED <<ending, fin, eof, sent>> /\ UNCHANGED bundleVars /\ UNCHANGED readVars

SendFin(e) ==
    /\ closing[e] /\ out[e] = <<>> /\ ~fin[e]
    /\ fin' = [fin EXCEPT ![e] = TRUE]
    /\ UNCHANGED <<closing, wire, eof, sent>> /\ UNCHANGED bundleVars
    /\ UNCHANGED writeVars /\ UNCHANGED endVars /\ UNCHANGED readVars

Deliver(e) ==
    LET p == Other(e) IN
    /\ wire[e] # <<>>
    /\ wire' = [wire EXCEPT ![e] = Tail(@)]
    /\ inbuf' = [inbuf EXCEPT ![p] = Append(@, Head(wire[e]))]
    /\ UNCHANGED <<eof, sent, endDue, readableEnded, want, got>>
    /\ UNCHANGED bundleVars /\ UNCHANGED writeVars /\ UNCHANGED endVars /\ UNCHANGED closeVars

\* "end" is due at once if all has been read, else with the first read that
\* asks for more than there is.
DeliverFin(e) ==
    LET p == Other(e) IN
    /\ fin[e] /\ wire[e] = <<>> /\ ~eof[p]
    /\ eof' = [eof EXCEPT ![p] = TRUE]
    /\ endDue' = [endDue EXCEPT ![p] = inbuf[p] = <<>>]
    /\ UNCHANGED <<wire, sent, inbuf, readableEnded, want, got>>
    /\ UNCHANGED bundleVars /\ UNCHANGED writeVars /\ UNCHANGED endVars /\ UNCHANGED closeVars

\* Node's end of this side: NSocket's if the socket is bound to it (the mutant
\* is node's own).
Unbound(e) ==
    Oend(e) /\ UNCHANGED endVars /\ UNCHANGED bundleVars /\ UNCHANGED writeVars
Bound(e) == EndOf(e)

\* Node ends its side too unless it has been ended.
EmitEnd(e) ==
    /\ endDue[e] /\ ~readableEnded[e]
    /\ readableEnded' = [readableEnded EXCEPT ![e] = TRUE]
    /\ IF closing[e]
       THEN UNCHANGED closing /\ UNCHANGED endVars /\ UNCHANGED bundleVars /\ UNCHANGED writeVars
       ELSE Bound(e)
    /\ UNCHANGED <<fin, wire, eof, sent, inbuf, endDue, want, got>>

-----------------------------------------------------------------------------
Next ==
    \E e \in Ends :
        \/ Bundle(e) \/ Flush(e) \/ Write(e) \/ End(e) \/ Read(e)
        \/ Transmit(e) \/ SendFin(e) \/ Deliver(e) \/ DeliverFin(e) \/ EmitEnd(e) \/ Poll(e)

Spec == Init /\ [][Next]_vars

\* The event loops turn and the network delivers; programs need not go on.
FairSpec ==
    /\ Spec
    /\ \A e \in Ends :
         /\ WF_vars(Transmit(e)) /\ WF_vars(SendFin(e)) /\ WF_vars(Deliver(e))
         /\ WF_vars(DeliverFin(e)) /\ WF_vars(EmitEnd(e)) /\ WF_vars(Poll(e))

-----------------------------------------------------------------------------
\* An end that node closes has always been ended by NSocket.end.
TypeOK ==
    /\ do_flush \in [Ends -> BOOLEAN] /\ bundled \in [Ends -> Seq(Nat)]
    /\ ending \in [Ends -> BOOLEAN] /\ waits \in [Ends -> BOOLEAN]
    /\ out \in [Ends -> Seq(Nat)] /\ needDrain \in [Ends -> BOOLEAN]
    /\ closing \in [Ends -> BOOLEAN] /\ fin \in [Ends -> BOOLEAN]
    /\ wire \in [Ends -> Seq(Nat)] /\ inbuf \in [Ends -> Seq(Nat)]
    /\ eof \in [Ends -> BOOLEAN] /\ endDue \in [Ends -> BOOLEAN]
    /\ readableEnded \in [Ends -> BOOLEAN] /\ want \in [Ends -> Nat]
    /\ got \in [Ends -> Seq(Nat)] /\ sent \in [Ends -> Seq(Nat)]
    /\ \A e \in Ends : closing[e] \/ waits[e] => ending[e]

\* Whatever is bundled, flushed, written and ended in whatever order, each byte
\* is in one place, and all are in the order they were written in.
Stream ==
    \A e \in Ends :
        sent[e] = got[Other(e)] \o inbuf[Other(e)] \o wire[e] \o out[e] \o bundled[e]

\* A read gives its default, and the connection counts as ended, only when all
\* the peer ever wrote has been read: end() waits for what was bundled too.
NothingCutOff == \A e \in Ends : readableEnded[e] => got[e] = sent[Other(e)]

\* An end() that meets a full buffer ends the connection.  (Any other waits for
\* a "drain" that nothing causes.)
EndAtMark == \A e \in Ends : waits[e] /\ Len(out[e]) >= Mark ~> fin[e]

\* A read gives fewer bytes than it asks for only with the last ones the peer
\* ever wrote.
ReadsWhole ==
    [][\A e \in Ends : Len(got'[e]) > Len(got[e]) /\ Len(got'[e]) - Len(got[e]) < want[e]
                         => got'[e] = sent[Other(e)]]_vars

\* When the peer's connection has ended no read waits any longer.
ReadsResolve == \A e \in Ends : want[e] > 0 /\ fin[Other(e)] ~> want[e] = 0
=============================================================================

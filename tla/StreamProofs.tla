------------------------------- MODULE StreamProofs --------------------------------
(***************************************************************************)
(* Bytes that pass through a host in pieces: the two rings of a stream, for    *)
(* every ring size, every chunk and every schedule of the three threads, as     *)
(* long as no more bytes pass than a counter can count without wrapping; and    *)
(* the records of a TLS connection, however the socket cuts them.             *)
(*                                                                         *)
(* RingsAreSound is not inductive.  A writer copies by a tail it loaded        *)
(* earlier, so Loaded says that the tail it holds is one the reader has        *)
(* reached: the other end only makes room.  That a byte is where its reader    *)
(* looks takes the position of every byte between the two counters (Intact),   *)
(* and the worker's chunk is part of the line (Contents).  The verdict is the   *)
(* transform's because its status does not change once OUT_DONE is stored      *)
(* (Ended).                                                                *)
(*                                                                         *)
(* RecordsStayWhole takes what a call has come to after each record (FedTo),    *)
(* that what is kept is the part of a record that has been read (WholeFed), and  *)
(* that what has been made and has not gone is in one place, with the reader or  *)
(* with the writer (Gone): records of two makers are never mixed because a       *)
(* stream answers only before it may be written to.                            *)
(***************************************************************************)
EXTENDS Stream, TlsStream, SequenceTheorems, Induction, TLAPS

-----------------------------------------------------------------------------
(* The rings (bridge.ts, worker.ts) *)

\* Byte i of lo + 1 .. hi is where its reader will look for it.
Intact(mem, lo, hi) == \A i \in lo + 1 .. hi : mem[(i - 1) % CAP] = i

\* The counters count: below the wrap each is the number of bytes that passed it.
Counted ==
    /\ inHead = fed /\ inTail = taken /\ outHead = put /\ outTail = Len(got)
    /\ Len(got) <= put /\ put + Len(t.buf) = taken /\ taken <= fed /\ fed <= MaxBytes
    /\ fed - taken <= CAP /\ Len(t.buf) <= CAP /\ put - Len(got) <= CAP

\* The bytes: in each ring, in the worker's chunk, and handed out.
Contents ==
    /\ Intact(inMem, taken, fed) /\ Intact(outMem, Len(got), put)
    /\ \A i \in 1 .. Len(t.buf) : t.buf[i] = put + i
    /\ InOrder

\* What was loaded before a copy is still safe to copy by: the other end only makes room.
Loaded ==
    /\ p.pc \in {"feed", "full", "copy"} => fed + p.left <= MaxBytes
    /\ p.pc = "copy" => p.tail \in Nat /\ p.tail <= taken /\ fed - p.tail <= CAP
    /\ t.pc \in {"seq", "head", "err", "eof", "sleep"} => t.buf = <<>>
    /\ t.pc = "copy" => t.tail \in Nat /\ t.tail <= Len(got) /\ put - t.tail <= CAP

\* STATUS is the transform's, from its store to the verdict.
Ended ==
    /\ t.pc = "status" => t.status # "running"
    /\ t.pc \in {"done", "returned"} => outStatus = t.status /\ t.status # "running"
    /\ outDone => /\ outStatus = t.status /\ t.status # "running"
                  /\ t.pc \in {"returned", "terminated"}
    /\ c \in {"closed", "error"} => outDone
    /\ VerdictIsTheTransforms

\* The inductive invariant of the stream.
StInv == StreamTypeOK /\ Counted /\ Contents /\ Loaded /\ Ended

-----------------------------------------------------------------------------

\* The remainder of a multiple and a rest is the rest.
LEMMA ModIs ==
    ASSUME NEW d \in Nat \ {0}, NEW k \in Int, NEW s \in 0 .. d - 1
    PROVE  (d * k + s) % d = s
<1> DEFINE x == d * k + s
           q == x \div d
           r == x % d
<1>1. d * k \in Int /\ x \in Int  OBVIOUS
<1>2. q \in Int /\ r \in 0 .. d - 1 /\ x = r + d * q  BY <1>1
<1>3. x = d * k + s  OBVIOUS
<1> HIDE DEF q, r, x
<1>4. ~(k < q)
  <2>1. SUFFICES ASSUME k < q PROVE FALSE  OBVIOUS
  <2>2. q - k - 1 \in Nat /\ d * (q - k - 1) \in Nat  BY <1>2, <2>1
  <2>3. d * (q - k - 1) = d * q - d * k - d  BY <1>2
  <2>4. d * q \in Int /\ d * k \in Int  BY <1>2
  <2>. QED  BY <1>2, <1>3, <2>2, <2>3, <2>4
<1>5. ~(q < k)
  <2>1. SUFFICES ASSUME q < k PROVE FALSE  OBVIOUS
  <2>2. k - q - 1 \in Nat /\ d * (k - q - 1) \in Nat  BY <1>2, <2>1
  <2>3. d * (k - q - 1) = d * k - d * q - d  BY <1>2
  <2>4. d * q \in Int /\ d * k \in Int  BY <1>2
  <2>. QED  BY <1>2, <1>3, <2>2, <2>3, <2>4
<1>6. q = k  BY <1>2, <1>4, <1>5
<1>7. r = s
  <2>1. d * k \in Int  OBVIOUS
  <2>. QED  BY <1>2, <1>3, <1>6, <2>1
<1>. QED  BY <1>7 DEF r, x

\* Where byte h + e lies from the cell of h, going round: e cells on, or e + d for one before.
LEMMA RoundFrom ==
    ASSUME NEW d \in Nat \ {0}, NEW h \in Nat, NEW a \in Nat
    PROVE  /\ a - h \in 0 .. d - 1 => ((a % d) - h) % d = a - h
           /\ h - a \in 1 .. d => ((a % d) - h) % d = a - h + d
<1> DEFINE q == a \div d
           r == a % d
<1>1. q \in Int /\ r \in 0 .. d - 1 /\ a = r + d * q  OBVIOUS
<1> HIDE DEF q, r
<1>2. d * q \in Int /\ d * (0 - q) = 0 - d * q /\ d * (0 - q - 1) = 0 - d * q - d  BY <1>1
<1>3. ASSUME a - h \in 0 .. d - 1 PROVE (r - h) % d = a - h
  <2>1. r - h = d * (0 - q) + (a - h)  BY <1>1, <1>2
  <2>2. 0 - q \in Int  BY <1>1
  <2>3. (d * (0 - q) + (a - h)) % d = a - h  BY <1>3, <2>2, ModIs
  <2>. QED  BY <2>1, <2>3
<1>4. ASSUME h - a \in 1 .. d PROVE (r - h) % d = a - h + d
  <2>1. r - h = d * (0 - q - 1) + (a - h + d)  BY <1>1, <1>2
  <2>2. 0 - q - 1 \in Int /\ a - h + d \in 0 .. d - 1  BY <1>1, <1>4
  <2>3. (d * (0 - q - 1) + (a - h + d)) % d = a - h + d  BY <2>2, ModIs
  <2>. QED  BY <2>1, <2>3
<1>. QED  BY <1>3, <1>4 DEF r

\* A position is a cell of the ring.
LEMMA CellOf ==
    ASSUME NEW a \in Nat
    PROVE  a % CAP \in Cells
BY SizesAssumption DEF Cells

\* ringWrite: what was unread stays where it was, and what is written goes after it.
LEMMA WriteIntact ==
    ASSUME NEW mem \in [Cells -> Nat], NEW lo \in Nat, NEW hi \in Nat, lo <= hi,
           Intact(mem, lo, hi), NEW src \in Seq(Nat), hi + Len(src) - lo <= CAP,
           \A i \in 1 .. Len(src) : src[i] = hi + i
    PROVE  /\ RingWrite(mem, hi, src) \in [Cells -> Nat]
           /\ Intact(RingWrite(mem, hi, src), lo, hi + Len(src))
<1> DEFINE l == Len(src)
           new == RingWrite(mem, hi, src)
<1>0. l \in Nat /\ CAP \in Nat \ {0}  BY SizesAssumption
<1>1. ASSUME NEW k \in Cells
      PROVE  /\ (k - hi) % CAP \in 0 .. CAP - 1
             /\ new[k] = IF ((k - hi) % CAP) + 1 <= l THEN src[((k - hi) % CAP) + 1] ELSE mem[k]
  <2>1. k \in Int /\ k - hi \in Int  BY DEF Cells
  <2>2. (k - hi) % CAP \in 0 .. CAP - 1  BY <1>0, <2>1
  <2>. QED  BY <2>2 DEF RingWrite
<1>2. new \in [Cells -> Nat]
  <2>1. ASSUME NEW k \in Cells PROVE new[k] \in Nat
    <3>1. CASE ((k - hi) % CAP) + 1 <= l
      <4>1. ((k - hi) % CAP) + 1 \in 1 .. l  BY <1>0, <1>1, <3>1
      <4>. QED  BY <1>1, <3>1, <4>1
    <3>2. CASE ~(((k - hi) % CAP) + 1 <= l)  BY <1>1, <3>2
    <3>. QED  BY <3>1, <3>2
  <2>2. new = [k \in Cells |-> new[k]]  BY DEF RingWrite
  <2>. QED  BY <2>1, <2>2
<1>3. ASSUME NEW i \in lo + 1 .. hi + l PROVE new[(i - 1) % CAP] = i
  <2> DEFINE k == (i - 1) % CAP
  <2>0. i - 1 \in Nat  BY <1>0
  <2>1. i - 1 \in Nat /\ k \in Cells  BY <2>0, CellOf
  <2>2. CASE i <= hi
    <3>1. hi - (i - 1) \in 1 .. CAP  BY <1>0, <2>2
    <3>2. (k - hi) % CAP = (i - 1) - hi + CAP  BY <1>0, <2>1, <3>1, RoundFrom
    <3>3. ~(((k - hi) % CAP) + 1 <= l)  BY <1>0, <2>2, <3>2
    <3>4. new[k] = mem[k]  BY <1>1, <2>1, <3>3
    <3>5. i \in lo + 1 .. hi  BY <2>2
    <3>. QED  BY <3>4, <3>5 DEF Intact
  <2>3. CASE i > hi
    <3>1. (i - 1) - hi \in 0 .. CAP - 1  BY <1>0, <2>3
    <3>2. (k - hi) % CAP = (i - 1) - hi  BY <1>0, <2>1, <3>1, RoundFrom
    <3>3. ((k - hi) % CAP) + 1 = i - hi /\ i - hi \in 1 .. l  BY <1>0, <2>3, <3>2
    <3>5. ((k - hi) % CAP) + 1 <= l  BY <1>0, <3>3
    <3>6. new[k] = src[((k - hi) % CAP) + 1]  BY <1>1, <2>1, <3>5
    <3>4. new[k] = src[i - hi]  BY <3>3, <3>6
    <3>. QED  BY <3>3, <3>4
  <2>. QED  BY <2>2, <2>3
<1>. QED  BY <1>2, <1>3 DEF Intact

\* ringRead: the bytes that lie there, in order.
LEMMA ReadIntact ==
    ASSUME NEW mem \in [Cells -> Nat], NEW lo \in Nat, NEW hi \in Nat, lo <= hi, Intact(mem, lo, hi)
    PROVE  /\ RingRead(mem, lo, hi - lo) \in Seq(Nat) /\ Len(RingRead(mem, lo, hi - lo)) = hi - lo
           /\ \A i \in 1 .. hi - lo : RingRead(mem, lo, hi - lo)[i] = lo + i
<1> DEFINE n == hi - lo
           f == RingRead(mem, lo, n)
<1>0. n \in Nat  OBVIOUS
<1>1. ASSUME NEW i \in 1 .. n PROVE f[i] = lo + i
  <2>1. lo + i \in lo + 1 .. hi /\ (lo + i) - 1 = lo + i - 1  OBVIOUS
  <2>. QED  BY <2>1 DEF RingRead, Intact
<1>2. f \in [1 .. n -> Nat]
  <2>1. f = [i \in 1 .. n |-> f[i]]  BY DEF RingRead
  <2>. QED  BY <1>1, <2>1
<1>3. \A g \in [1 .. n -> Nat] : g \in Seq(Nat)  BY <1>0, IsASeq
<1>4. f \in Seq(Nat) /\ DOMAIN f = 1 .. n  BY <1>2, <1>3
<1>5. Len(f) = n  BY <1>0, <1>4, LenProperties
<1>. QED  BY <1>1, <1>4, <1>5

\* Below the wrap a stored counter is the number itself.
LEMMA NoWrap ==
    ASSUME MaxBytes < WIDTH \div 2, NEW x \in 0 .. MaxBytes
    PROVE  Int32(x) = x /\ x \in Counters
<1> DEFINE h == WIDTH \div 2
<1>1. WIDTH \in Nat \ {0} /\ MaxBytes \in Nat /\ WIDTH = 2 * h /\ h \in Nat  BY SizesAssumption
<1> HIDE DEF h
<1>2. x + h \in 0 .. WIDTH - 1  BY <1>1 DEF h
<1>3. (x + h) % WIDTH = x + h  BY <1>1, <1>2
<1>. QED  BY <1>1, <1>2, <1>3 DEF Int32, Counters, h

-----------------------------------------------------------------------------

\* What feed keeps.
ProducerStates == [pc : {"open", "feed", "full", "copy", "closed", "aborting", "aborted"},
                   left : Nat, tail : Counters]
\* What the worker keeps.
WorkerStates == [pc : {"seq", "head", "err", "eof", "sleep", "write", "full", "copy",
                       "status", "done", "returned", "terminated"},
                 buf : Seq(Nat), tail : Counters, status : {"running", "ok", "failed", "threw"}]

\* The counts are numbers.
LEMMA Numbers ==
    ASSUME StInv
    PROVE  /\ CAP \in Nat \ {0} /\ MaxBytes \in Nat /\ fed \in Nat /\ taken \in Nat /\ put \in Nat
           /\ Len(got) \in Nat /\ Len(t.buf) \in Nat /\ p \in ProducerStates /\ t \in WorkerStates
<1>1. p \in ProducerStates /\ t \in WorkerStates /\ got \in Seq(Nat)
  BY DEF StInv, StreamTypeOK, ProducerStates, WorkerStates
<1>2. t.buf \in Seq(Nat)  BY <1>1 DEF WorkerStates
<1>. QED  BY <1>1, <1>2, SizesAssumption DEF StInv, StreamTypeOK

\* A stream nothing has passed.
LEMMA StreamBegins == MaxBytes < WIDTH \div 2 /\ StreamInit => StInv
<1>1. SUFFICES ASSUME MaxBytes < WIDTH \div 2, StreamInit PROVE StInv  OBVIOUS
<1>2. 0 \in Counters
  <2>1. 0 \in 0 .. MaxBytes  BY SizesAssumption
  <2>. QED  BY <1>1, <2>1, NoWrap
<1>3. <<>> \in Seq(Nat) /\ Len(<<>>) = 0  OBVIOUS
<1>4. /\ p.pc = "open" /\ t.pc = "seq" /\ t.buf = <<>> /\ t.status = "running" /\ got = <<>>
      /\ fed = 0 /\ taken = 0 /\ put = 0 /\ c = "seq" /\ outDone = FALSE
  BY <1>1 DEF StreamInit
<1>5. StreamTypeOK  BY <1>1, <1>2, <1>3 DEF StreamInit, StreamTypeOK
<1>6. Counted  BY <1>1, <1>3, <1>4, SizesAssumption DEF StreamInit, Counted
<1>7. Contents
  <2>1. 0 + 1 .. 0 = {} /\ 1 .. 0 = {}  OBVIOUS
  <2>. QED  BY <1>3, <1>4, <2>1 DEF Contents, Intact, InOrder
<1>8. Loaded  BY <1>4 DEF Loaded
<1>9. Ended  BY <1>4 DEF Ended, VerdictIsTheTransforms
<1>. QED  BY <1>5, <1>6, <1>7, <1>8, <1>9 DEF StInv

\* The producer moves and no byte does.
LEMMA ProducerMoves ==
    ASSUME StInv, NEW x \in ProducerStates, p' = x,
           UNCHANGED <<inHead, inTail, inMem, outRing, fed, t, taken, put, c, got>>,
           inEof' \in BOOLEAN, inErr' \in BOOLEAN, inMoved' \in BOOLEAN,
           x.pc \in {"feed", "full", "copy"} => fed + x.left <= MaxBytes,
           x.pc = "copy" => x.tail \in Nat /\ x.tail <= taken /\ fed - x.tail <= CAP
    PROVE  StInv'
<1>1. StreamTypeOK'  BY DEF StInv, StreamTypeOK, ProducerStates, outRing
<1>2. Counted' /\ Contents'  BY DEF StInv, Counted, Contents, Intact, InOrder, outRing
<1>3. Loaded'  BY DEF StInv, Loaded
<1>4. Ended'  BY DEF StInv, Ended, VerdictIsTheTransforms, outRing
<1>. QED  BY <1>1, <1>2, <1>3, <1>4 DEF StInv

\* The writable's write begins to feed a chunk (bridge.ts).
LEMMA WriteChunkStep ==
    ASSUME StInv, NEW n \in 1 .. MaxChunk, WriteChunk(n)
    PROVE  StInv'
<1> DEFINE x == [p EXCEPT !.pc = "feed", !.left = n]
<1>1. p \in ProducerStates  BY Numbers
<1>2. n \in Nat  BY SizesAssumption
<1>3. x \in ProducerStates /\ x.pc = "feed" /\ x.left = n  BY <1>1, <1>2 DEF ProducerStates
<1>4. p' = x /\ fed + n <= MaxBytes  BY DEF WriteChunk
<1> HIDE DEF x
<1>5. inEof \in BOOLEAN /\ inErr \in BOOLEAN /\ inMoved \in BOOLEAN  BY DEF StInv, StreamTypeOK
<1>. QED  BY <1>3, <1>4, <1>5, ProducerMoves DEF WriteChunk, inRing

\* feed looks for room.
LEMMA FeedLoadStep ==
    ASSUME StInv, FeedLoad
    PROVE  StInv'
<1> DEFINE w == IF Room(inHead, inTail) = 0 THEN "full" ELSE "copy"
           x == [p EXCEPT !.tail = inTail, !.pc = w]
<1>1. p \in ProducerStates /\ inTail \in Counters  BY Numbers DEF StInv, StreamTypeOK
<1>2. w \in {"full", "copy"}  OBVIOUS
<1>3. p' = x  BY DEF FeedLoad
<1> HIDE DEF w
<1>4. x \in ProducerStates /\ x.pc = w /\ x.left = p.left /\ x.tail = inTail
  BY <1>1, <1>2 DEF ProducerStates
<1> HIDE DEF x
<1>5. inEof \in BOOLEAN /\ inErr \in BOOLEAN /\ inMoved \in BOOLEAN  BY DEF StInv, StreamTypeOK
<1>6. inTail = taken /\ fed - taken <= CAP /\ taken \in Nat  BY Numbers DEF StInv, Counted
<1>7. fed + p.left <= MaxBytes  BY DEF FeedLoad, StInv, Loaded
<1>. QED  BY <1>3, <1>4, <1>5, <1>6, <1>7, ProducerMoves DEF FeedLoad, inRing

\* feed is woken: there is room again.
LEMMA FeedWakeStep ==
    ASSUME StInv, FeedWake
    PROVE  StInv'
<1> DEFINE x == [p EXCEPT !.pc = "feed"]
<1>1. p \in ProducerStates  BY Numbers
<1>2. x \in ProducerStates /\ x.pc = "feed" /\ x.left = p.left  BY <1>1 DEF ProducerStates
<1>3. p' = x  BY DEF FeedWake
<1> HIDE DEF x
<1>4. inEof \in BOOLEAN /\ inErr \in BOOLEAN /\ inMoved \in BOOLEAN  BY DEF StInv, StreamTypeOK
<1>5. fed + p.left <= MaxBytes  BY DEF FeedWake, StInv, Loaded
<1>. QED  BY <1>2, <1>3, <1>4, <1>5, ProducerMoves DEF FeedWake, inRing

\* The writable is closed or aborted.
LEMMA EndStep ==
    ASSUME StInv, Close \/ Abort \/ AbortEof
    PROVE  StInv'
<1>1. p \in ProducerStates  BY Numbers
<1>2. PICK w \in {"closed", "aborting", "aborted"} : p' = [p EXCEPT !.pc = w]
  BY DEF Close, Abort, AbortEof
<1> DEFINE x == [p EXCEPT !.pc = w]
<1>3. x \in ProducerStates /\ x.pc = w  BY <1>1 DEF ProducerStates
<1> HIDE DEF x
<1>4. inEof \in BOOLEAN /\ inErr \in BOOLEAN /\ inMoved \in BOOLEAN  BY DEF StInv, StreamTypeOK
<1>5. /\ UNCHANGED <<inHead, inTail, inMem, outRing, fed, t, taken, put, c, got>>
      /\ inEof' \in BOOLEAN /\ inErr' \in BOOLEAN /\ inMoved' \in BOOLEAN
  BY <1>4 DEF Close, Abort, AbortEof
<1>6. p' = x  BY <1>2 DEF x
<1>. QED  BY <1>3, <1>5, <1>6, ProducerMoves

\* A copy takes no more than there is and than had room.
LEMMA CopyFits ==
    ASSUME NEW h \in Nat, NEW o \in Nat, NEW l \in Nat, h - o <= CAP
    PROVE  /\ SmallerOf(Room(h, o), l) \in Nat /\ SmallerOf(Room(h, o), l) <= l
           /\ h + SmallerOf(Room(h, o), l) - o <= CAP
<1>1. CAP \in Nat  BY SizesAssumption
<1>2. Room(h, o) \in Nat /\ h + Room(h, o) - o = CAP  BY <1>1 DEF Room
<1>. QED  BY <1>1, <1>2 DEF SmallerOf

\* feed: as many bytes as had room when it looked, after those that lie there.
LEMMA FeedCopyStep ==
    ASSUME MaxBytes < WIDTH \div 2, StInv, FeedCopy
    PROVE  StInv'
<1> DEFINE n == SmallerOf(Room(inHead, p.tail), p.left)
           src == [i \in 1 .. n |-> fed + i]
           w == IF p.left = n THEN "open" ELSE "feed"
           x == [pc |-> w, left |-> p.left - n, tail |-> 0]
<1>1. /\ CAP \in Nat \ {0} /\ MaxBytes \in Nat /\ fed \in Nat /\ taken \in Nat /\ put \in Nat
      /\ Len(got) \in Nat /\ Len(t.buf) \in Nat /\ p \in ProducerStates /\ t \in WorkerStates
  BY Numbers
<1>2. /\ p.pc = "copy" /\ p.tail \in Nat /\ p.tail <= taken /\ fed - p.tail <= CAP
      /\ fed + p.left <= MaxBytes /\ inHead = fed /\ p.left \in Nat
  BY <1>1 DEF FeedCopy, StInv, Loaded, Counted, ProducerStates
<1>3. /\ n \in Nat /\ n <= p.left /\ fed + n - p.tail <= CAP
  BY <1>1, <1>2, CopyFits
<1>4. /\ inMem' = RingWrite(inMem, inHead, src) /\ inHead' = Int32(inHead + n) /\ fed' = fed + n
      /\ p' = x /\ inMoved' = TRUE
      /\ UNCHANGED <<inTail, inEof, inErr, outRing, t, taken, put, c, got>>
  BY DEF FeedCopy
<1> HIDE DEF n
<1>5. src \in Seq(Nat) /\ Len(src) = n /\ \A i \in 1 .. n : src[i] = fed + i
  <2>1. src \in [1 .. n -> Nat]  BY <1>1
  <2>2. \A g \in [1 .. n -> Nat] : g \in Seq(Nat)  BY <1>3, IsASeq
  <2>3. src \in Seq(Nat) /\ DOMAIN src = 1 .. n  BY <2>1, <2>2
  <2>. QED  BY <1>3, <2>3, LenProperties
<1> HIDE DEF src
<1>6. /\ fed + n \in 0 .. MaxBytes /\ fed + n - taken <= CAP /\ taken <= fed
      /\ fed + n \in Nat /\ p.left - n \in Nat /\ taken <= fed + n
  <2>1. taken <= fed  BY DEF StInv, Counted
  <2>2. \A l \in Nat : n <= l /\ fed + l <= MaxBytes => fed + n \in 0 .. MaxBytes /\ l - n \in Nat
    BY <1>1, <1>3
  <2>3. \A o \in Nat : o <= taken /\ fed + n - o <= CAP => fed + n - taken <= CAP
    BY <1>1, <1>3
  <2>4. fed + n \in Nat /\ taken <= fed + n  BY <1>1, <1>3, <2>1
  <2>. QED  BY <1>2, <1>3, <2>1, <2>2, <2>3, <2>4
<1>7. inHead' = fed + n /\ inHead' \in Counters  BY <1>2, <1>4, <1>6, NoWrap
<1>8. 0 \in Counters
  <2>1. 0 \in 0 .. MaxBytes  BY <1>1
  <2>. QED  BY <2>1, NoWrap
<1>9. w \in {"open", "feed"}  OBVIOUS
<1> HIDE DEF w
<1>10. x \in ProducerStates /\ x.pc = w /\ x.left = p.left - n  BY <1>6, <1>8, <1>9 DEF ProducerStates
<1> HIDE DEF x
<1>11. inMem' \in [Cells -> Nat] /\ Intact(inMem', taken, fed + n)
  <2>1. inMem \in [Cells -> Nat] /\ Intact(inMem, taken, fed)  BY DEF StInv, StreamTypeOK, Contents
  <2>2. /\ RingWrite(inMem, fed, src) \in [Cells -> Nat]
        /\ Intact(RingWrite(inMem, fed, src), taken, fed + Len(src))
    BY <1>1, <1>5, <1>6, <2>1, WriteIntact
  <2>. QED  BY <1>2, <1>4, <1>5, <2>2
<1>12. StreamTypeOK'
  BY <1>4, <1>6, <1>7, <1>10, <1>11 DEF StInv, StreamTypeOK, ProducerStates, outRing
<1>13. Counted'
  <2>1. /\ inTail' = taken' /\ outHead' = put' /\ outTail' = Len(got') /\ Len(got') <= put'
        /\ put' + Len(t'.buf) = taken' /\ Len(t'.buf) <= CAP /\ put' - Len(got') <= CAP
    BY <1>4 DEF StInv, Counted, outRing
  <2>2. inHead' = fed' /\ taken' <= fed' /\ fed' <= MaxBytes /\ fed' - taken' <= CAP
    <3>1. fed' = fed + n /\ taken' = taken  BY <1>4
    <3>. QED  BY <1>1, <1>3, <1>6, <1>7, <3>1
  <2>. QED  BY <2>1, <2>2 DEF Counted
<1>14. Contents'  BY <1>4, <1>11 DEF StInv, Contents, Intact, InOrder, outRing
<1>15. fed' + p'.left <= MaxBytes
  <2>1. (fed + n) + (p.left - n) = fed + p.left  BY <1>1, <1>2, <1>3
  <2>. QED  BY <1>2, <1>4, <1>10, <2>1
<1>16. Loaded'  BY <1>4, <1>9, <1>10, <1>15 DEF StInv, Loaded
<1>17. Ended'  BY <1>4 DEF StInv, Ended, VerdictIsTheTransforms, outRing
<1>. QED  BY <1>12, <1>13, <1>14, <1>16, <1>17 DEF StInv

-----------------------------------------------------------------------------

\* What a transform can have come to.
Statuses == {"running", "ok", "failed", "threw"}
\* Where pull can be.
Places == {"seq", "head", "done", "sleep", "closed", "error", "cancelled"}

\* The worker or the consumer moves and no byte does.
LEMMA ReaderMoves ==
    ASSUME StInv, NEW x \in WorkerStates, t' = x, x.buf = t.buf, c' \in Places,
           UNCHANGED <<inHead, inTail, inEof, inErr, inMem, outHead, outTail, outMem>>,
           UNCHANGED <<p, fed, taken, put, got>>,
           inMoved' \in BOOLEAN, outMoved' \in BOOLEAN, outDone' \in BOOLEAN, outStatus' \in Statuses,
           x.pc \in {"seq", "head", "err", "eof", "sleep"} => t.buf = <<>>,
           x.pc = "copy" => x.tail \in Nat /\ x.tail <= Len(got) /\ put - x.tail <= CAP,
           Ended'
    PROVE  StInv'
<1>1. StreamTypeOK'  BY DEF StInv, StreamTypeOK, WorkerStates, Statuses, Places
<1>2. Counted' /\ Contents'  BY DEF StInv, Counted, Contents, Intact, InOrder
<1>3. Loaded'  BY DEF StInv, Loaded
<1>. QED  BY <1>1, <1>2, <1>3 DEF StInv

\* A turn of the worker's that ends nowhere and copies nothing.
LEMMA WorkerMoves ==
    ASSUME StInv, NEW w \in {"seq", "head", "err", "eof", "sleep", "write", "full"},
           t' = [t EXCEPT !.pc = w],
           t.pc \in {"seq", "head", "err", "eof", "sleep", "write", "full"},
           w \in {"seq", "head", "err", "eof", "sleep"} => t.buf = <<>>,
           UNCHANGED <<inHead, inTail, inEof, inErr, inMem, outRing>>, inMoved' \in BOOLEAN,
           UNCHANGED <<p, fed, taken, put, c, got>>
    PROVE  StInv'
<1> DEFINE x == [t EXCEPT !.pc = w]
<1>1. t \in WorkerStates  BY Numbers
<1>2. x \in WorkerStates /\ x.pc = w /\ x.buf = t.buf /\ x.status = t.status  BY <1>1 DEF WorkerStates
<1>3. t' = x  OBVIOUS
<1> HIDE DEF x
<1>4. UNCHANGED <<outHead, outTail, outDone, outStatus, outMem, outMoved>>  BY DEF outRing
<1>5. outMoved \in BOOLEAN /\ outDone \in BOOLEAN /\ outStatus \in Statuses /\ c \in Places
  BY DEF StInv, StreamTypeOK, Statuses, Places
<1>6. Ended'  BY <1>2, <1>3, <1>4 DEF StInv, Ended, VerdictIsTheTransforms
<1>. QED  BY <1>2, <1>3, <1>4, <1>5, <1>6, ReaderMoves

\* read's turns that find nothing, and write's wake (worker.ts).
LEMMA ReadTurnStep ==
    ASSUME StInv, ReadSeq \/ ReadNothing \/ ReadWake \/ WriteWake
    PROVE  StInv'
<1>1. inMoved \in BOOLEAN  BY DEF StInv, StreamTypeOK
<1>2. CASE ReadSeq
  <2>1. t.buf = <<>>  BY <1>2 DEF ReadSeq, StInv, Loaded
  <2>. QED  BY <1>2, <2>1, WorkerMoves DEF ReadSeq
<1>3. CASE ReadNothing
  <2>1. t.buf = <<>>  BY <1>3 DEF ReadNothing, StInv, Loaded
  <2>. QED  BY <1>1, <1>3, <2>1, WorkerMoves DEF ReadNothing, inRing
<1>4. CASE ReadWake
  <2>1. t.buf = <<>>  BY <1>4 DEF ReadWake, StInv, Loaded
  <2>. QED  BY <1>1, <1>4, <2>1, WorkerMoves DEF ReadWake, inRing
<1>5. CASE WriteWake  BY <1>1, <1>5, WorkerMoves DEF WriteWake, inRing
<1>. QED  BY <1>2, <1>3, <1>4, <1>5

\* The transform comes to an end: its status is its own until STATUS is stored.
LEMMA StatusMoves ==
    ASSUME StInv, NEW s \in {"ok", "failed", "threw"},
           t' = [t EXCEPT !.pc = "status", !.status = s],
           t.pc \in {"seq", "err", "eof", "write"},
           UNCHANGED <<inRing, outRing, p, fed, taken, put, c, got>>
    PROVE  StInv'
<1> DEFINE x == [t EXCEPT !.pc = "status", !.status = s]
<1>1. t \in WorkerStates  BY Numbers
<1>2. x \in WorkerStates /\ x.pc = "status" /\ x.buf = t.buf /\ x.status = s  BY <1>1 DEF WorkerStates
<1>3. t' = x  OBVIOUS
<1> HIDE DEF x
<1>4. /\ UNCHANGED <<outHead, outTail, outDone, outStatus, outMem, outMoved>>
      /\ UNCHANGED <<inHead, inTail, inEof, inErr, inMem, inMoved>>
  BY DEF outRing, inRing
<1>5. /\ outMoved \in BOOLEAN /\ outDone \in BOOLEAN /\ outStatus \in Statuses /\ c \in Places
      /\ inMoved \in BOOLEAN
  BY DEF StInv, StreamTypeOK, Statuses, Places
<1>6. ~outDone /\ c \notin {"closed", "error"}  BY DEF StInv, Ended
<1>7. Ended'  BY <1>2, <1>3, <1>4, <1>6 DEF Ended, VerdictIsTheTransforms
<1>. QED  BY <1>2, <1>3, <1>4, <1>5, <1>7, ReaderMoves

\* read looks for an error, then for the end.
LEMMA ReadErrStep ==
    ASSUME StInv, ReadErr \/ ReadEof
    PROVE  StInv'
<1>1. inMoved \in BOOLEAN  BY DEF StInv, StreamTypeOK
<1>2. t.buf = <<>> /\ t.pc \in {"err", "eof"}  BY DEF ReadErr, ReadEof, StInv, Loaded
<1>3. UNCHANGED <<inRing, outRing, p, fed, taken, put, c, got>>  BY DEF ReadErr, ReadEof
<1>4. UNCHANGED <<inHead, inTail, inEof, inErr, inMem, inMoved>>  BY <1>3 DEF inRing
<1>5. CASE t' = [t EXCEPT !.pc = "status", !.status = "failed"]  BY <1>2, <1>3, <1>5, StatusMoves
<1>6. CASE t' = [t EXCEPT !.pc = "status", !.status = "ok"]  BY <1>2, <1>3, <1>6, StatusMoves
<1>7. CASE t' = [t EXCEPT !.pc = "eof"]  BY <1>1, <1>2, <1>3, <1>4, <1>7, WorkerMoves
<1>8. CASE t' = [t EXCEPT !.pc = "sleep"]  BY <1>1, <1>2, <1>3, <1>4, <1>8, WorkerMoves
<1>. QED  BY <1>5, <1>6, <1>7, <1>8 DEF ReadErr, ReadEof

\* The transform traps.
LEMMA TrapStep ==
    ASSUME StInv, Trap
    PROVE  StInv'
BY StatusMoves DEF Trap

\* write looks for room.
LEMMA WriteLoadStep ==
    ASSUME StInv, WriteLoad
    PROVE  StInv'
<1> DEFINE w == IF Room(outHead, outTail) = 0 THEN "full" ELSE "copy"
           x == [t EXCEPT !.tail = outTail, !.pc = w]
<1>1. t \in WorkerStates /\ outTail \in Counters  BY Numbers DEF StInv, StreamTypeOK
<1>2. w \in {"full", "copy"}  OBVIOUS
<1>3. t' = x /\ t.pc = "write"  BY DEF WriteLoad
<1> HIDE DEF w
<1>4. x \in WorkerStates /\ x.pc = w /\ x.buf = t.buf /\ x.tail = outTail /\ x.status = t.status
  BY <1>1, <1>2 DEF WorkerStates
<1> HIDE DEF x
<1>5. /\ UNCHANGED <<outHead, outTail, outDone, outStatus, outMem, outMoved>>
      /\ UNCHANGED <<inHead, inTail, inEof, inErr, inMem, inMoved>>
      /\ UNCHANGED <<p, fed, taken, put, c, got>>
  BY DEF WriteLoad, outRing, inRing
<1>6. /\ outMoved \in BOOLEAN /\ outDone \in BOOLEAN /\ outStatus \in Statuses /\ c \in Places
      /\ inMoved \in BOOLEAN
  BY DEF StInv, StreamTypeOK, Statuses, Places
<1>7. Ended'  BY <1>2, <1>3, <1>4, <1>5 DEF StInv, Ended, VerdictIsTheTransforms
<1>8. outTail = Len(got) /\ put - Len(got) <= CAP /\ Len(got) \in Nat  BY Numbers DEF StInv, Counted
<1>9. x.tail \in Nat /\ x.tail <= Len(got) /\ put - x.tail <= CAP  BY <1>4, <1>8
<1>. QED  BY <1>2, <1>3, <1>4, <1>5, <1>6, <1>7, <1>9, ReaderMoves

\* STATUS, then OUT_DONE.
LEMMA StoreStep ==
    ASSUME StInv, StoreStatus \/ StoreDone
    PROVE  StInv'
<1>1. PICK w \in {"done", "returned"} : t' = [t EXCEPT !.pc = w] /\ (w = "done" <=> t.pc = "status")
  BY DEF StoreStatus, StoreDone
<1> DEFINE x == [t EXCEPT !.pc = w]
<1>2. t \in WorkerStates  BY Numbers
<1>3. x \in WorkerStates /\ x.pc = w /\ x.buf = t.buf /\ x.status = t.status  BY <1>2 DEF WorkerStates
<1>4. t' = x  BY <1>1
<1> HIDE DEF x
<1>5. /\ outMoved \in BOOLEAN /\ outDone \in BOOLEAN /\ outStatus \in Statuses /\ c \in Places
      /\ inMoved \in BOOLEAN /\ t.status \in Statuses
  BY <1>2 DEF StInv, StreamTypeOK, Statuses, Places, WorkerStates
<1>6. /\ UNCHANGED <<inHead, inTail, inEof, inErr, inMem, outHead, outTail, outMem>>
      /\ UNCHANGED <<p, fed, taken, put, got>> /\ c' = c
      /\ inMoved' \in BOOLEAN /\ outMoved' \in BOOLEAN /\ outDone' \in BOOLEAN /\ outStatus' \in Statuses
  BY <1>5 DEF StoreStatus, StoreDone, inRing
<1>7. Ended'
  <2>1. CASE StoreStatus
    <3>1. t.pc = "status" /\ w = "done" /\ outStatus' = t.status /\ outDone' = outDone /\ c' = c
      BY <1>1, <2>1 DEF StoreStatus
    <3>2. ~outDone /\ c \notin {"closed", "error"} /\ t.status # "running"  BY <3>1 DEF StInv, Ended
    <3>. QED  BY <1>3, <1>4, <3>1, <3>2 DEF Ended, VerdictIsTheTransforms
  <2>2. CASE StoreDone
    <3>1. t.pc = "done" /\ w = "returned" /\ outStatus' = outStatus /\ outDone' = TRUE /\ c' = c
      BY <1>1, <2>2 DEF StoreDone
    <3>2. outStatus = t.status /\ t.status # "running" /\ VerdictIsTheTransforms
      BY <3>1 DEF StInv, Ended
    <3>. QED  BY <1>3, <1>4, <3>1, <3>2 DEF Ended, VerdictIsTheTransforms
  <2>. QED  BY <2>1, <2>2
<1>. QED  BY <1>3, <1>4, <1>5, <1>6, <1>7, ReaderMoves

\* The consumer's turns that take nothing, and its verdict.
LEMMA PullTurnStep ==
    ASSUME StInv, PullSeq \/ PullNothing \/ PullDone \/ PullWake
    PROVE  StInv'
<1>1. t \in WorkerStates /\ t.status \in Statuses  BY Numbers DEF WorkerStates, Statuses
<1>2. /\ outMoved \in BOOLEAN /\ outDone \in BOOLEAN /\ outStatus \in Statuses /\ c \in Places
      /\ inMoved \in BOOLEAN
  BY DEF StInv, StreamTypeOK, Statuses, Places
<1>3. /\ UNCHANGED <<inHead, inTail, inEof, inErr, inMem, outHead, outTail, outMem>>
      /\ UNCHANGED <<p, fed, taken, put, got>> /\ t' = t /\ inMoved' = inMoved
      /\ outDone' = outDone /\ outStatus' = outStatus /\ outMoved' \in BOOLEAN
  BY <1>2 DEF PullSeq, PullNothing, PullDone, PullWake, inRing, outRing
<1>4. /\ c' \in {"seq", "head", "done", "sleep"} \/ (outDone /\ c' = Verdict)
      /\ c \notin {"closed", "error"}
  BY DEF PullSeq, PullNothing, PullDone, PullWake
<1>5. c' \in Places  BY <1>4 DEF Places, Verdict
<1>6. Ended'
  <2>1. CASE c' \in {"seq", "head", "done", "sleep"}
    BY <1>3, <2>1 DEF StInv, Ended, VerdictIsTheTransforms
  <2>2. CASE outDone /\ c' = Verdict
    <3>1. outStatus = t.status /\ t.status # "running"  BY <2>2 DEF StInv, Ended
    <3>2. (c' = "closed" => t.status = "ok") /\ (c' = "error" => t.status \in {"failed", "threw"})
      BY <1>1, <2>2, <3>1 DEF Verdict, Statuses
    <3>. QED  BY <1>3, <2>2, <3>2 DEF StInv, Ended, VerdictIsTheTransforms
  <2>. QED  BY <1>4, <2>1, <2>2
<1>7. /\ t.pc \in {"seq", "head", "err", "eof", "sleep"} => t.buf = <<>>
      /\ t.pc = "copy" => t.tail \in Nat /\ t.tail <= Len(got) /\ put - t.tail <= CAP
  BY DEF StInv, Loaded
<1>. QED  BY <1>1, <1>2, <1>3, <1>5, <1>6, <1>7, ReaderMoves

\* The readable is cancelled: the worker is terminated where it stands.
LEMMA CancelStep ==
    ASSUME StInv, Cancel
    PROVE  StInv'
<1> DEFINE x == [t EXCEPT !.pc = "terminated"]
<1>1. t \in WorkerStates  BY Numbers
<1>2. x \in WorkerStates /\ x.pc = "terminated" /\ x.buf = t.buf /\ x.status = t.status
  BY <1>1 DEF WorkerStates
<1>3. /\ t' = x /\ c' = "cancelled" /\ UNCHANGED <<p, fed, taken, put, got>>
      /\ UNCHANGED <<inHead, inTail, inEof, inErr, inMem, inMoved>>
      /\ UNCHANGED <<outHead, outTail, outDone, outStatus, outMem, outMoved>>
  BY DEF Cancel, inRing, outRing
<1> HIDE DEF x
<1>4. /\ outMoved \in BOOLEAN /\ outDone \in BOOLEAN /\ outStatus \in Statuses /\ inMoved \in BOOLEAN
  BY DEF StInv, StreamTypeOK, Statuses
<1>5. Ended'  BY <1>2, <1>3 DEF StInv, Ended, VerdictIsTheTransforms
<1>6. c' \in Places  BY <1>3 DEF Places
<1>. QED  BY <1>2, <1>3, <1>4, <1>5, <1>6, ReaderMoves

-----------------------------------------------------------------------------

\* read: all that lies in the input ring becomes the worker's chunk.
LEMMA ReadDataStep ==
    ASSUME MaxBytes < WIDTH \div 2, StInv, ReadData
    PROVE  StInv'
<1> DEFINE b == RingRead(inMem, taken, fed - taken)
           x == [t EXCEPT !.pc = "write", !.buf = b]
<1>1. /\ CAP \in Nat \ {0} /\ MaxBytes \in Nat /\ fed \in Nat /\ taken \in Nat /\ put \in Nat
      /\ Len(got) \in Nat /\ Len(t.buf) \in Nat /\ p \in ProducerStates /\ t \in WorkerStates
  BY Numbers
<1>2. /\ inHead = fed /\ inTail = taken /\ taken <= fed /\ fed <= MaxBytes /\ fed - taken <= CAP
      /\ put + Len(t.buf) = taken
  BY DEF StInv, Counted
<1>3. t.buf = <<>> /\ Len(t.buf) = 0 /\ t.pc = "head"
  <2>1. t.buf = <<>> /\ t.pc = "head"  BY DEF ReadData, StInv, Loaded
  <2>. QED  BY <2>1
<1>4. put = taken  BY <1>1, <1>2, <1>3
<1>5. taken + (fed - taken) = fed /\ fed \in 0 .. MaxBytes  BY <1>1, <1>2
<1>6. /\ t' = x /\ inTail' = Int32(taken + (fed - taken)) /\ taken' = taken + (fed - taken)
      /\ UNCHANGED <<inHead, inEof, inErr, inMem, inMoved, outRing, p, fed, put, c, got>>
  BY <1>2 DEF ReadData
<1>7. inTail' = fed /\ taken' = fed /\ fed \in Counters  BY <1>5, <1>6, NoWrap
<1>8. b \in Seq(Nat) /\ Len(b) = fed - taken /\ \A i \in 1 .. fed - taken : b[i] = taken + i
  <2>1. inMem \in [Cells -> Nat] /\ Intact(inMem, taken, fed)  BY DEF StInv, StreamTypeOK, Contents
  <2>. QED  BY <1>1, <1>2, <2>1, ReadIntact
<1> HIDE DEF b
<1>9. x \in WorkerStates /\ x.pc = "write" /\ x.buf = b /\ x.status = t.status
  BY <1>1, <1>8 DEF WorkerStates
<1> HIDE DEF x
<1>10. UNCHANGED <<outHead, outTail, outDone, outStatus, outMem, outMoved>>  BY <1>6 DEF outRing
<1>11. StreamTypeOK'
  BY <1>1, <1>6, <1>7, <1>9, <1>10 DEF StInv, StreamTypeOK, WorkerStates
<1>12. Counted'
  <2>1. /\ inHead' = fed' /\ outHead' = put' /\ outTail' = Len(got') /\ Len(got') <= put'
        /\ put' - Len(got') <= CAP
    BY <1>6, <1>10 DEF StInv, Counted
  <2>2. inTail' = taken' /\ fed' = fed /\ taken' = fed /\ put' = taken /\ t'.buf = b
    BY <1>4, <1>6, <1>7, <1>9
  <2>3. put' + Len(t'.buf) = taken' /\ Len(t'.buf) <= CAP  BY <1>2, <1>5, <1>8, <2>2
  <2>4. taken' <= fed' /\ fed' <= MaxBytes /\ fed' - taken' <= CAP  BY <1>1, <1>2, <2>2
  <2>. QED  BY <2>1, <2>2, <2>3, <2>4 DEF Counted
<1>13. Contents'
  <2>1. fed + 1 .. fed = {}  BY <1>1
  <2>2. Intact(inMem', taken', fed')  BY <1>6, <1>7, <2>1 DEF Intact
  <2>3. \A i \in 1 .. Len(t'.buf) : t'.buf[i] = put' + i  BY <1>4, <1>6, <1>8, <1>9
  <2>4. Intact(outMem', Len(got'), put') /\ InOrder'
    BY <1>6, <1>10 DEF StInv, Contents, Intact, InOrder
  <2>. QED  BY <2>2, <2>3, <2>4 DEF Contents
<1>14. Loaded'
  <2>1. /\ p.pc \in {"feed", "full", "copy"} => fed + p.left <= MaxBytes
        /\ p.pc = "copy" => p.tail \in Nat /\ p.tail <= taken /\ fed - p.tail <= CAP
    BY DEF StInv, Loaded
  <2>2. \A o \in Nat : o <= taken => o <= fed  BY <1>1, <1>2
  <2>. QED  BY <1>6, <1>7, <1>9, <2>1, <2>2 DEF Loaded
<1>15. Ended'  BY <1>3, <1>6, <1>9, <1>10 DEF StInv, Ended, VerdictIsTheTransforms
<1>. QED  BY <1>11, <1>12, <1>13, <1>14, <1>15 DEF StInv

\* A chunk cut in two.
LEMMA Cut ==
    ASSUME NEW s \in Seq(Nat), NEW n \in Nat, n <= Len(s)
    PROVE  /\ SubSeq(s, 1, n) \in Seq(Nat) /\ Len(SubSeq(s, 1, n)) = n
           /\ \A i \in 1 .. n : SubSeq(s, 1, n)[i] = s[i]
           /\ SubSeq(s, n + 1, Len(s)) \in Seq(Nat) /\ Len(SubSeq(s, n + 1, Len(s))) = Len(s) - n
           /\ \A i \in 1 .. Len(s) - n : SubSeq(s, n + 1, Len(s))[i] = s[n + i]
OBVIOUS

\* write: as much of the chunk as had room when it looked, after what lies there.
LEMMA WriteCopyStep ==
    ASSUME MaxBytes < WIDTH \div 2, StInv, WriteCopy
    PROVE  StInv'
<1> DEFINE l == Len(t.buf)
           n == SmallerOf(Room(outHead, t.tail), l)
           src == SubSeq(t.buf, 1, n)
           rest == SubSeq(t.buf, n + 1, l)
           w == IF n = l THEN "seq" ELSE "write"
           x == [t EXCEPT !.pc = w, !.buf = rest, !.tail = 0]
<1>1. /\ CAP \in Nat \ {0} /\ MaxBytes \in Nat /\ fed \in Nat /\ taken \in Nat /\ put \in Nat
      /\ Len(got) \in Nat /\ l \in Nat /\ p \in ProducerStates /\ t \in WorkerStates
  BY Numbers
<1>2. /\ t.pc = "copy" /\ t.tail \in Nat /\ t.tail <= Len(got) /\ put - t.tail <= CAP
      /\ outHead = put /\ put + l = taken /\ taken <= fed /\ fed <= MaxBytes /\ l <= CAP
      /\ t.buf \in Seq(Nat) /\ \A i \in 1 .. l : t.buf[i] = put + i
  BY <1>1 DEF WriteCopy, StInv, Loaded, Counted, Contents, WorkerStates
<1>3. n \in Nat /\ n <= l /\ put + n - t.tail <= CAP  BY <1>1, <1>2, CopyFits
<1>4. /\ outMem' = RingWrite(outMem, outHead, src) /\ outHead' = Int32(outHead + n) /\ put' = put + n
      /\ t' = x /\ outMoved' = TRUE
      /\ UNCHANGED <<inRing, outTail, outDone, outStatus, p, fed, taken, c, got>>
  BY DEF WriteCopy
<1>5. w \in {"seq", "write"} /\ (w = "seq" => n = l)  OBVIOUS
<1> HIDE DEF n, w
<1>6. /\ src \in Seq(Nat) /\ Len(src) = n /\ \A i \in 1 .. n : src[i] = t.buf[i]
      /\ rest \in Seq(Nat) /\ Len(rest) = l - n /\ \A i \in 1 .. l - n : rest[i] = t.buf[n + i]
  BY <1>2, <1>3, Cut
<1> HIDE DEF src, rest
<1>7. 0 \in Counters
  <2>1. 0 \in 0 .. MaxBytes  BY <1>1
  <2>. QED  BY <2>1, NoWrap
<1>8. x \in WorkerStates /\ x.pc = w /\ x.buf = rest /\ x.status = t.status
  BY <1>1, <1>5, <1>6, <1>7 DEF WorkerStates
<1> HIDE DEF x
<1>9. /\ put + n \in 0 .. MaxBytes /\ put + n \in Nat /\ (put + n) + (l - n) = taken /\ l - n <= CAP
  <2>1. put + l = taken /\ taken <= fed /\ fed <= MaxBytes /\ l <= CAP  BY <1>2
  <2>2. n \in Nat /\ n <= l  BY <1>3
  <2>3. CAP \in Nat /\ MaxBytes \in Nat /\ fed \in Nat /\ taken \in Nat /\ put \in Nat /\ l \in Nat
    BY <1>1
  <2> HIDE DEF l
  <2>. QED  BY <2>1, <2>2, <2>3
<1>10. put + n - Len(got) <= CAP /\ Len(got) <= put /\ Len(got) <= put + n
  <2>1. Len(got) <= put  BY DEF StInv, Counted
  <2>2. \A o \in Nat : o <= Len(got) /\ put + n - o <= CAP => put + n - Len(got) <= CAP
    BY <1>1, <1>3
  <2>3. Len(got) <= put + n  BY <1>1, <1>3, <2>1
  <2>. QED  BY <1>2, <1>3, <2>1, <2>2, <2>3
<1>11. outHead' = put + n /\ outHead' \in Counters  BY <1>2, <1>4, <1>9, NoWrap
<1>12. outMem' \in [Cells -> Nat] /\ Intact(outMem', Len(got), put + n)
  <2>1. outMem \in [Cells -> Nat] /\ Intact(outMem, Len(got), put)  BY DEF StInv, StreamTypeOK, Contents
  <2>2. \A i \in 1 .. n : i \in 1 .. l  BY <1>1, <1>3
  <2>3. \A i \in 1 .. Len(src) : src[i] = put + i  BY <1>2, <1>6, <2>2
  <2>4. put + Len(src) - Len(got) <= CAP  BY <1>6, <1>10
  <2>5. /\ RingWrite(outMem, put, src) \in [Cells -> Nat]
        /\ Intact(RingWrite(outMem, put, src), Len(got), put + Len(src))
    BY <1>1, <1>6, <1>10, <2>1, <2>3, <2>4, WriteIntact
  <2>. QED  BY <1>2, <1>4, <1>6, <2>5
<1>13. UNCHANGED <<inHead, inTail, inEof, inErr, inMem, inMoved>>  BY <1>4 DEF inRing
<1>14. StreamTypeOK'
  BY <1>4, <1>8, <1>9, <1>11, <1>12, <1>13 DEF StInv, StreamTypeOK, WorkerStates
<1>15. put' = put + n /\ t'.buf = rest /\ t'.pc = w /\ t'.status = t.status /\ got' = got /\ taken' = taken
  BY <1>4, <1>8
<1>16. Counted'
  <2>1. /\ inHead' = fed' /\ inTail' = taken' /\ outTail' = Len(got') /\ taken' <= fed'
        /\ fed' <= MaxBytes /\ fed' - taken' <= CAP
    BY <1>4, <1>13 DEF StInv, Counted
  <2>2. /\ outHead' = put' /\ Len(got') <= put' /\ put' - Len(got') <= CAP
        /\ put' + Len(t'.buf) = taken' /\ Len(t'.buf) <= CAP
    <3>1. Len(t'.buf) = l - n  BY <1>6, <1>15
    <3>0. Len(got') = Len(got) /\ put' = put + n  BY <1>15
    <3>2. outHead' = put' /\ Len(got') <= put' /\ put' - Len(got') <= CAP
      BY <1>1, <1>3, <1>10, <1>11, <3>0
    <3>3. put' + (l - n) = taken' /\ l - n <= CAP  BY <1>9, <1>15
    <3>. QED  BY <3>1, <3>2, <3>3
  <2>. QED  BY <2>1, <2>2 DEF Counted
<1>17. Contents'
  <2>1. Intact(inMem', taken', fed') /\ InOrder'  BY <1>4, <1>13 DEF StInv, Contents, Intact, InOrder
  <2>2. ASSUME NEW i \in 1 .. l - n PROVE rest[i] = (put + n) + i
    <3>1. n + i \in 1 .. l /\ put + (n + i) = (put + n) + i  BY <1>1, <1>3
    <3>. QED  BY <1>2, <1>6, <3>1
  <2>3. \A i \in 1 .. Len(t'.buf) : t'.buf[i] = put' + i  BY <1>6, <1>15, <2>2
  <2>. QED  BY <1>12, <1>15, <2>1, <2>3 DEF Contents
<1>18. Loaded'
  <2>1. w = "seq" => rest = <<>>
    <3>1. w = "seq" => Len(rest) = 0  BY <1>1, <1>5, <1>6
    <3>. QED  BY <1>6, <3>1
  <2>. QED  BY <1>4, <1>5, <1>15, <2>1 DEF StInv, Loaded
<1>19. Ended'  BY <1>2, <1>4, <1>5, <1>15 DEF StInv, Ended, VerdictIsTheTransforms
<1>. QED  BY <1>14, <1>16, <1>17, <1>18, <1>19 DEF StInv

\* One sequence after another.
LEMMA Appended ==
    ASSUME NEW a \in Seq(Nat), NEW z \in Seq(Nat)
    PROVE  /\ a \o z \in Seq(Nat) /\ Len(a \o z) = Len(a) + Len(z)
           /\ \A i \in 1 .. Len(a) : (a \o z)[i] = a[i]
           /\ \A i \in 1 .. Len(z) : (a \o z)[Len(a) + i] = z[i]
OBVIOUS

\* pull: all that lies in the output ring is enqueued.
LEMMA PullDataStep ==
    ASSUME StInv, PullData
    PROVE  StInv'
<1> DEFINE g == Len(got)
           b == RingRead(outMem, g, put - g)
           new == got \o b
<1>1. /\ CAP \in Nat \ {0} /\ MaxBytes \in Nat /\ fed \in Nat /\ taken \in Nat /\ put \in Nat
      /\ g \in Nat /\ Len(t.buf) \in Nat /\ p \in ProducerStates /\ t \in WorkerStates
  BY Numbers
<1>2. outHead = put /\ outTail = g /\ g <= put /\ got \in Seq(Nat) /\ outHead \in Counters
  BY DEF StInv, Counted, StreamTypeOK
<1>3. /\ got' = new /\ outTail' = outHead /\ c' = "seq" /\ c = "head"
      /\ UNCHANGED <<inRing, outHead, outDone, outStatus, outMem, outMoved, p, fed, t, taken, put>>
  BY <1>2 DEF PullData
<1>4. b \in Seq(Nat) /\ Len(b) = put - g /\ \A i \in 1 .. put - g : b[i] = g + i
  <2>1. outMem \in [Cells -> Nat] /\ Intact(outMem, g, put)  BY DEF StInv, StreamTypeOK, Contents
  <2>. QED  BY <1>1, <1>2, <2>1, ReadIntact
<1> HIDE DEF b
<1>5. /\ new \in Seq(Nat) /\ Len(new) = g + Len(b) /\ (\A i \in 1 .. g : new[i] = got[i])
      /\ \A i \in 1 .. Len(b) : new[g + i] = b[i]
  BY <1>2, <1>4, Appended
<1>6. Len(new) = put  BY <1>1, <1>2, <1>4, <1>5
<1> HIDE DEF new
<1>7. ASSUME NEW i \in 1 .. put PROVE new[i] = i
  <2>1. CASE i <= g
    <3>1. i \in 1 .. g  BY <1>1, <2>1
    <3>2. got[i] = i  BY <3>1 DEF StInv, Contents, InOrder
    <3>. QED  BY <1>5, <3>1, <3>2
  <2>2. CASE i > g
    <3>1. i - g \in 1 .. put - g /\ g + (i - g) = i  BY <1>1, <1>2, <2>2
    <3>2. new[g + (i - g)] = b[i - g]  BY <1>4, <1>5, <3>1
    <3>. QED  BY <1>4, <3>1, <3>2
  <2>3. i <= g \/ i > g  BY <1>1
  <2>. QED  BY <2>1, <2>2, <2>3
<1>8. UNCHANGED <<inHead, inTail, inEof, inErr, inMem, inMoved>>  BY <1>3 DEF inRing
<1>9. StreamTypeOK'  BY <1>2, <1>3, <1>5, <1>8 DEF StInv, StreamTypeOK
<1>10. Counted'
  <2>1. /\ inHead' = fed' /\ inTail' = taken' /\ put' + Len(t'.buf) = taken' /\ taken' <= fed'
        /\ fed' <= MaxBytes /\ fed' - taken' <= CAP /\ Len(t'.buf) <= CAP
    BY <1>3, <1>8 DEF StInv, Counted
  <2>2. outHead' = put' /\ outTail' = Len(got') /\ Len(got') = put' /\ put' = put  BY <1>2, <1>3, <1>6
  <2>3. Len(got') <= put' /\ put' - Len(got') <= CAP  BY <1>1, <2>2
  <2>. QED  BY <2>1, <2>2, <2>3 DEF Counted
<1>11. Contents'
  <2>1. Intact(inMem', taken', fed') /\ \A i \in 1 .. Len(t'.buf) : t'.buf[i] = put' + i
    BY <1>3, <1>8 DEF StInv, Contents, Intact
  <2>2. put + 1 .. put = {}  BY <1>1
  <2>3. Intact(outMem', Len(got'), put')  BY <1>3, <1>6, <2>2 DEF Intact
  <2>4. InOrder'  BY <1>3, <1>6, <1>7 DEF InOrder
  <2>. QED  BY <2>1, <2>3, <2>4 DEF Contents
<1>12. Loaded'
  <2>1. t.pc = "copy" => t.tail \in Nat /\ t.tail <= g /\ put - t.tail <= CAP  BY DEF StInv, Loaded
  <2>2. \A o \in Nat : o <= g => o <= put  BY <1>1, <1>2
  <2>3. Len(got') = put  BY <1>3, <1>6
  <2>4. t'.pc = "copy" => t'.tail \in Nat /\ t'.tail <= Len(got') /\ put' - t'.tail <= CAP
    BY <1>3, <2>1, <2>2, <2>3
  <2>5. /\ p'.pc \in {"feed", "full", "copy"} => fed' + p'.left <= MaxBytes
        /\ p'.pc = "copy" => p'.tail \in Nat /\ p'.tail <= taken' /\ fed' - p'.tail <= CAP
        /\ t'.pc \in {"seq", "head", "err", "eof", "sleep"} => t'.buf = <<>>
    BY <1>3 DEF StInv, Loaded
  <2>. QED  BY <2>4, <2>5 DEF Loaded
<1>13. Ended'  BY <1>3 DEF StInv, Ended, VerdictIsTheTransforms
<1>. QED  BY <1>9, <1>10, <1>11, <1>12, <1>13 DEF StInv

-----------------------------------------------------------------------------

\* Every step of the producer, the worker and the consumer keeps the invariant.
LEMMA StreamStep == MaxBytes < WIDTH \div 2 /\ StInv /\ [StreamNext]_streamVars => StInv'
<1>1. SUFFICES ASSUME MaxBytes < WIDTH \div 2, StInv, [StreamNext]_streamVars PROVE StInv'  OBVIOUS
<1>2. CASE UNCHANGED streamVars
  <2>1. /\ UNCHANGED <<inHead, inTail, inEof, inErr, inMem, inMoved>>
        /\ UNCHANGED <<outHead, outTail, outDone, outStatus, outMem, outMoved>>
        /\ UNCHANGED <<p, fed, t, taken, put, c, got>>
    BY <1>2 DEF streamVars, inRing, outRing
  <2>2. StreamTypeOK'  BY <1>1, <2>1 DEF StInv, StreamTypeOK
  <2>3. Counted' /\ Contents' /\ Loaded' /\ Ended'
    BY <1>1, <2>1 DEF StInv, Counted, Contents, Intact, InOrder, Loaded, Ended, VerdictIsTheTransforms
  <2>. QED  BY <2>2, <2>3 DEF StInv
<1>3. CASE Producer
  BY <1>1, <1>3, FeedLoadStep, FeedWakeStep, FeedCopyStep, EndStep DEF Producer
<1>4. CASE Worker
  BY <1>1, <1>4, ReadTurnStep, ReadDataStep, ReadErrStep, WriteLoadStep, WriteCopyStep, StoreStep DEF Worker
<1>5. CASE Consumer  BY <1>1, <1>5, PullTurnStep, PullDataStep DEF Consumer
<1>6. CASE Outside  BY <1>1, <1>6, WriteChunkStep, EndStep, TrapStep, CancelStep DEF Outside
<1>. QED  BY <1>1, <1>2, <1>3, <1>4, <1>5, <1>6 DEF StreamNext

\* The invariant says what RingsAreSound does.
LEMMA RingsSound == StInv => RingsAreSound
<1>1. SUFFICES ASSUME StInv PROVE RingsAreSound  OBVIOUS
<1>2. /\ CAP \in Nat \ {0} /\ fed \in Nat /\ taken \in Nat /\ put \in Nat
      /\ Len(got) \in Nat /\ Len(t.buf) \in Nat
  BY <1>1, Numbers
<1>3. AvailableIsExact  BY <1>1 DEF StInv, Counted, AvailableIsExact
<1>4. UnreadIntact  BY <1>1 DEF StInv, Counted, Contents, Intact, UnreadIntact
<1>5. BackPressure
  <2>1. put + Len(t.buf) = taken /\ fed - taken <= CAP /\ Len(t.buf) <= CAP /\ put - Len(got) <= CAP
    BY <1>1 DEF StInv, Counted
  <2>. QED  BY <1>2, <2>1 DEF BackPressure
<1>. QED  BY <1>1, <1>3, <1>4, <1>5 DEF StInv, Contents, Ended, RingsAreSound

\* For every ring size and schedule, below the wrap of the counters: what is available is what lies
\* there, no unread byte is overwritten, the consumer gets the input in order, no more than three
\* rings are in flight, and the stream ends as its transform did (feed, pull of bridge.ts; read,
\* write of worker.ts).
THEOREM RingsStaySound ==
    ASSUME MaxBytes < WIDTH \div 2
    PROVE  StreamSpec => []RingsAreSound
<1>1. StreamInit => StInv  BY StreamBegins
<1>2. StInv /\ [StreamNext]_streamVars => StInv'  BY StreamStep
<1>. QED  BY <1>1, <1>2, RingsSound, PTL DEF StreamSpec

-----------------------------------------------------------------------------
(* A TLS connection driven from outside (tls/host/connect.ts, serve.ts) *)

\* What a socket carries, a record's header or its body.
Halves == Nat \X Nat

\* A stretch of either direction is as long as its ends say.
LEMMA BetweenIs ==
    ASSUME NEW a \in Nat, NEW b \in Nat, a <= b
    PROVE  /\ Between(a, b) \in Seq(Halves) /\ Len(Between(a, b)) = b - a
           /\ \A k \in 1 .. b - a : Between(a, b)[k] = Cell(a + k)
           /\ Between(a, b) = <<>> <=> a = b
<1>1. \A k \in 1 .. b - a : Cell(a + k) \in Halves  BY DEF Cell, Halves
<1>2. b - a \in Nat  OBVIOUS
<1> HIDE DEF Halves
<1>3. Between(a, b) \in Seq(Halves) /\ Len(Between(a, b)) = b - a  BY <1>1, <1>2 DEF Between
<1>4. \A k \in 1 .. b - a : Between(a, b)[k] = Cell(a + k)  BY DEF Between
<1>5. Between(a, b) = <<>> <=> Len(Between(a, b)) = 0  BY <1>3, EmptySeq
<1>. QED  BY <1>2, <1>3, <1>4, <1>5

\* Two stretches that meet are one.
LEMMA BetweenJoins ==
    ASSUME NEW a \in Nat, NEW b \in Nat, NEW d \in Nat, a <= b, b <= d
    PROVE  Between(a, b) \o Between(b, d) = Between(a, d)
<1>1. PICK x \in Seq(Halves) : x = Between(a, b)  BY BetweenIs
<1>2. PICK y \in Seq(Halves) : y = Between(b, d)  BY BetweenIs
<1>3. PICK z \in Seq(Halves) : z = Between(a, d)  BY BetweenIs
<1>0. a <= d /\ a + 0 = a  OBVIOUS
<1>4. Len(x) = b - a /\ Len(y) = d - b /\ Len(z) = d - a
  <2>1. Len(Between(a, b)) = b - a  BY BetweenIs
  <2>2. Len(Between(b, d)) = d - b  BY BetweenIs
  <2>3. Len(Between(a, d)) = d - a  BY <1>0, BetweenIs
  <2>. QED  BY <1>1, <1>2, <1>3, <2>1, <2>2, <2>3
<1>5. x \o y \in Seq(Halves) /\ Len(x \o y) = Len(x) + Len(y)
      /\ \A i \in 1 .. Len(x) + Len(y) : (x \o y)[i] = IF i <= Len(x) THEN x[i] ELSE y[i - Len(x)]
  BY ConcatProperties
<1>6. ASSUME NEW i \in 1 .. d - a PROVE (x \o y)[i] = z[i]
  <2>1. z[i] = Cell(a + i)
    <3>1. \A k \in 1 .. d - a : Between(a, d)[k] = Cell(a + k)  BY <1>0, BetweenIs
    <3>. QED  BY <1>3, <3>1
  <2>2. CASE i <= b - a
    <3>0. \A k \in 1 .. b - a : Between(a, b)[k] = Cell(a + k)  BY BetweenIs
    <3>1. x[i] = Cell(a + i)  BY <1>1, <2>2, <3>0
    <3>. QED  BY <1>4, <1>5, <2>1, <2>2, <3>1
  <2>3. CASE ~(i <= b - a)
    <3>1. PICK j \in 1 .. d - b : j = i - (b - a)  BY <2>3
    <3>2. y[j] = Cell(b + j)  BY <1>2, BetweenIs
    <3>3. b + j = a + i  BY <3>1
    <3>4. (x \o y)[i] = y[j]  BY <1>4, <1>5, <2>3, <3>1
    <3>. QED  BY <2>1, <3>2, <3>3, <3>4
  <2>. QED  BY <2>2, <2>3
<1>7. Len(x \o y) = d - a /\ Len(z) = d - a  BY <1>4, <1>5
<1>8. x \o y = z  BY <1>5, <1>6, <1>7, SeqEqual
<1>. QED  BY <1>1, <1>2, <1>3, <1>8

\* What is cut off the front of a stretch, and what is left, are stretches.
LEMMA BetweenCut ==
    ASSUME NEW a \in Nat, NEW b \in Nat, a <= b, NEW n \in 0 .. b - a
    PROVE  /\ SubSeq(Between(a, b), 1, n) = Between(a, a + n)
           /\ SubSeq(Between(a, b), n + 1, Len(Between(a, b))) = Between(a + n, b)
<1>1. PICK x \in Seq(Halves) : x = Between(a, b)  BY BetweenIs
<1>2. Len(x) = b - a /\ \A k \in 1 .. b - a : x[k] = Cell(a + k)  BY <1>1, BetweenIs
<1>3. SubSeq(x, 1, n) = Between(a, a + n)
  <2>0. PICK e \in Nat : e = a + n  OBVIOUS
  <2>1. PICK y \in Seq(Halves) : y = Between(a, e)  BY <2>0, BetweenIs
  <2>2. Len(y) = n /\ \A k \in 1 .. n : y[k] = Cell(a + k)
    <3>1. a <= e /\ e - a = n  BY <2>0
    <3>2. Len(Between(a, e)) = e - a /\ \A k \in 1 .. e - a : Between(a, e)[k] = Cell(a + k)
      BY <3>1, BetweenIs
    <3>. QED  BY <2>1, <3>1, <3>2
  <2>3. SubSeq(x, 1, n) \in Seq(Halves) /\ Len(SubSeq(x, 1, n)) = n
        /\ \A k \in 1 .. n : SubSeq(x, 1, n)[k] = x[k]
    BY <1>2
  <2>4. \A k \in 1 .. n : x[k] = y[k]  BY <1>2, <2>2
  <2>5. SubSeq(x, 1, n) = y  BY <2>2, <2>3, <2>4, SeqEqual
  <2>. QED  BY <2>0, <2>1, <2>5
<1>4. SubSeq(x, n + 1, Len(x)) = Between(a + n, b)
  <2>0. PICK e \in Nat : e = a + n  OBVIOUS
  <2>a. e <= b /\ b - e = b - a - n  BY <2>0
  <2>1. PICK y \in Seq(Halves) : y = Between(e, b)  BY <2>a, BetweenIs
  <2>2. Len(y) = b - a - n /\ \A k \in 1 .. b - a - n : y[k] = Cell(a + n + k)
    <3>1. Len(Between(e, b)) = b - e /\ \A k \in 1 .. b - e : Between(e, b)[k] = Cell(e + k)
      BY <2>a, BetweenIs
    <3>. QED  BY <2>0, <2>a, <2>1, <3>1
  <2>3. SubSeq(x, n + 1, Len(x)) \in Seq(Halves) /\ Len(SubSeq(x, n + 1, Len(x))) = b - a - n
        /\ \A k \in 1 .. b - a - n : SubSeq(x, n + 1, Len(x))[k] = x[n + k]
    BY <1>2
  <2>4. ASSUME NEW k \in 1 .. b - a - n PROVE x[n + k] = y[k]
    <3>1. n + k \in 1 .. b - a /\ a + (n + k) = a + n + k  OBVIOUS
    <3>. QED  BY <1>2, <2>2, <3>1
  <2>5. SubSeq(x, n + 1, Len(x)) = y  BY <2>2, <2>3, <2>4, SeqEqual
  <2>. QED  BY <2>0, <2>1, <2>5
<1>. QED  BY <1>1, <1>3, <1>4

-----------------------------------------------------------------------------
\* None of the records after the n-th, up to the r-th, is sealed.
NoneSealed(n, r) == \A i \in n + 1 .. r : peer.script[i] \notin Sealed

\* The next number goes behind the ones that are in order.
LEMMA OneMoreInOrder ==
    ASSUME NEW q \in Seq(Nat), NEW D, ListsInOrder(q, D), NEW n \in Nat, \A d \in D : d < n
    PROVE  ListsInOrder(Append(q, n), D \cup {n})
<1> DEFINE longer == Append(q, n)
<1>1. /\ longer \in Seq(Nat) /\ Len(longer) = Len(q) + 1 /\ longer[Len(q) + 1] = n
      /\ \A i \in 1 .. Len(q) : longer[i] = q[i]
  OBVIOUS
<1>2. DOMAIN q = 1 .. Len(q) /\ DOMAIN longer = 1 .. Len(q) + 1 /\ Len(q) \in Nat  BY <1>1
<1> HIDE DEF longer
<1>3. (\A i, j \in 1 .. Len(q) : i < j => q[i] < q[j]) /\ {q[i] : i \in 1 .. Len(q)} = D
  BY <1>2 DEF ListsInOrder
<1>4. ASSUME NEW i \in 1 .. Len(q) + 1, NEW j \in 1 .. Len(q) + 1, i < j PROVE longer[i] < longer[j]
  <2>1. i \in 1 .. Len(q) /\ (j \in 1 .. Len(q) \/ j = Len(q) + 1)  BY <1>2, <1>4
  <2>2. longer[i] = q[i] /\ q[i] \in D  BY <1>1, <1>3, <2>1
  <2>. QED  BY <1>1, <1>3, <1>4, <2>1, <2>2
<1>5. {longer[i] : i \in 1 .. Len(q) + 1} = D \cup {n}
  <2>1. ASSUME NEW i \in 1 .. Len(q) + 1 PROVE longer[i] \in D \cup {n}
    <3>1. i \in 1 .. Len(q) \/ i = Len(q) + 1  BY <1>2
    <3>. QED  BY <1>1, <1>3, <3>1
  <2>2. ASSUME NEW d \in D PROVE \E i \in 1 .. Len(q) + 1 : d = longer[i]
    <3>1. PICK i \in 1 .. Len(q) : d = q[i]  BY <1>3
    <3>2. i \in 1 .. Len(q) + 1 /\ d = longer[i]  BY <1>1, <1>2, <3>1
    <3>. QED  BY <3>2
  <2>3. Len(q) + 1 \in 1 .. Len(q) + 1  BY <1>2
  <2>. QED  BY <1>1, <2>1, <2>2, <2>3
<1>. QED  BY <1>2, <1>4, <1>5 DEF ListsInOrder, longer

\* A record that opens ends a stretch with no other data.
LEMMA DataOfNext ==
    ASSUME NEW n \in Nat, NEW r \in Nat, n <= r, NoneSealed(n, r)
    PROVE  /\ peer.script[r + 1] = "app" => DataTo(r + 1) = DataTo(n) \cup {r + 1}
           /\ peer.script[r + 1] # "app" => DataTo(r + 1) = DataTo(n)
           /\ \A d \in DataTo(n) : d < r + 1
<1>1. \A i \in n + 1 .. r : peer.script[i] # "app"  BY DEF NoneSealed, Sealed
<1>2. \A i \in 1 .. r + 1 : i \in 1 .. n \/ i \in n + 1 .. r \/ i = r + 1  OBVIOUS
<1>3. \A i \in 1 .. n : i \in 1 .. r + 1 /\ i < r + 1  OBVIOUS
<1>4. r + 1 \in 1 .. r + 1  OBVIOUS
<1>5. ASSUME peer.script[r + 1] = "app" PROVE DataTo(r + 1) = DataTo(n) \cup {r + 1}
  BY <1>1, <1>2, <1>3, <1>4, <1>5 DEF DataTo
<1>6. ASSUME peer.script[r + 1] # "app" PROVE DataTo(r + 1) = DataTo(n)
  BY <1>1, <1>2, <1>3, <1>6 DEF DataTo
<1>7. \A d \in DataTo(n) : d < r + 1  BY <1>3 DEF DataTo
<1>. QED  BY <1>5, <1>6, <1>7

-----------------------------------------------------------------------------
\* The protocol's state and the two ends of the host's.
States == [phase : 1 .. 4, failed : BOOLEAN, last : Nat]
Inboxes == [read : Nat, raw : Seq(Halves), plain : Seq(Nat), out : Seq(Nat), lost : BOOLEAN]
\* The types.
TlsTyped ==
    /\ role \in Roles /\ peer \in [script : Scripts, arrived : Nat, ended : BOOLEAN]
    /\ state \in States /\ inbox \in Inboxes
    /\ outbox \in [made : Nat, reply : Seq(Halves), sending : Seq(Halves), wire : Seq(Halves)]
    /\ stage \in {"connect", "hello", "read", "done", "thrown"}
    /\ ready \in BOOLEAN /\ writes \in 0 .. MaxWrites /\ socket \in {"none", "open", "closed"}

\* What has been read: the records that are whole have been fed, and the rest is kept.
WholeFed ==
    /\ Len(peer.script) \in Nat /\ peer.arrived <= 2 * Len(peer.script) /\ inbox.read <= peer.arrived
    /\ inbox.raw = Between(2 * (inbox.read \div 2), inbox.read)
    /\ PlainIsWhatArrived
    /\ state.failed => state.phase = 4
    /\ state.last <= inbox.read \div 2

\* The first n cells have gone, and the rest are with the reader or with the writer.
Gone(box, n) ==
    /\ n \in Nat /\ n <= 2 * box.made /\ box.wire = Between(0, n)
    /\ \/ box.reply = Between(n, 2 * box.made) /\ box.sending = <<>>
       \/ box.reply = <<>> /\ box.sending = Between(n, 2 * box.made)
\* What a stream has made is on the wire, in front of it, in order.
InTurn ==
    /\ stage = "connect" => socket = "none"
    /\ stage \in {"connect", "hello"} =>
         ~ready /\ outbox = [made |-> 0, reply |-> <<>>, sending |-> <<>>, wire |-> <<>>]
    /\ role = "stream" => /\ ready => state.phase >= 3
                          /\ outbox.sending # <<>> => ready
    /\ role = "stream" /\ socket # "closed" => \E n \in Nat : Gone(outbox, n)

\* The inductive invariant.
TlsInv == TlsTyped /\ WholeFed /\ InTurn

-----------------------------------------------------------------------------
\* What a feed has come to after r records.
Feds == [phase : 1 .. 4, failed : BOOLEAN, last : Nat, sends : Nat, app : Seq(Nat),
         over : {"no", "returned", "trapped"}]
\* The data held and just decrypted is that of the records taken, and unless the call or the
\* connection is over, those are all that are sealed.
InStep(s, r) ==
    /\ s.last <= r
    /\ ListsInOrder((inbox.out \o inbox.plain) \o s.app, DataTo(s.last))
    /\ s.over # "trapped" /\ s.phase # 4 /\ ~inbox.lost => NoneSealed(s.last, r)
FedTo(s, r) ==
    /\ s \in Feds /\ (s.failed => s.phase = 4) /\ (s.over = "returned" => s.phase = 4)
    /\ s.phase >= state.phase /\ (Client /\ s.sends > 0 => state.phase <= 2)
    /\ InStep(s, r)

\* What one record does: it is passed over, or ends the call or the connection; or it opens.
Passed(s, x, r) ==
    /\ x.last = s.last /\ x.app = s.app
    /\ \/ x.over = "trapped" \/ x.phase = 4
       \/ peer.script[r + 1] \notin Sealed /\ s.over # "trapped" /\ s.phase # 4
Opened(s, x, r) ==
    /\ x.last = r + 1 /\ Opens(s.last, r + 1)
    /\ \/ peer.script[r + 1] = "app" /\ x.app = Append(s.app, r + 1)
       \/ peer.script[r + 1] # "app" /\ x.app = s.app

LEMMA StaysInStep ==
    ASSUME TlsTyped, NEW s \in Feds, NEW x \in Feds, NEW r \in Nat, InStep(s, r),
           Passed(s, x, r) \/ Opened(s, x, r)
    PROVE  InStep(x, r + 1)
<1>1. s.last \in Nat /\ x.last \in Nat /\ s.app \in Seq(Nat) /\ s.last <= r  BY DEF Feds, InStep
<1>2. PICK y \in Seq(Nat) : y = inbox.out \o inbox.plain
  <2>1. inbox.out \in Seq(Nat) /\ inbox.plain \in Seq(Nat)  BY DEF TlsTyped, Inboxes
  <2>. QED  BY <2>1, ConcatProperties
<1>3. ListsInOrder(y \o s.app, DataTo(s.last))  BY <1>2 DEF InStep
<1>4. CASE Passed(s, x, r)
  <2>1. x.last <= r + 1 /\ ListsInOrder(y \o x.app, DataTo(x.last))  BY <1>1, <1>3, <1>4 DEF Passed
  <2>2. ASSUME x.over # "trapped", x.phase # 4, ~inbox.lost PROVE NoneSealed(x.last, r + 1)
    <3>1. /\ peer.script[r + 1] \notin Sealed /\ s.over # "trapped" /\ s.phase # 4
          /\ x.last = s.last
      BY <1>4, <2>2 DEF Passed
    <3>2. NoneSealed(s.last, r)  BY <2>2, <3>1 DEF InStep
    <3>3. \A i \in s.last + 1 .. r + 1 : i \in s.last + 1 .. r \/ i = r + 1  BY <1>1
    <3>. QED  BY <3>1, <3>2, <3>3 DEF NoneSealed
  <2>. QED  BY <1>2, <2>1, <2>2 DEF InStep
<1>5. CASE Opened(s, x, r)
  <2>1. x.last = r + 1 /\ NoneSealed(s.last, r)
    <3>1. r + 1 - 1 = r  OBVIOUS
    <3>. QED  BY <1>5, <3>1 DEF Opened, Opens, NoneSealed
  <2>2. /\ peer.script[r + 1] = "app" => DataTo(r + 1) = DataTo(s.last) \cup {r + 1}
        /\ peer.script[r + 1] # "app" => DataTo(r + 1) = DataTo(s.last)
        /\ \A d \in DataTo(s.last) : d < r + 1
    BY <1>1, <2>1, DataOfNext
  <2>3. ListsInOrder(y \o x.app, DataTo(r + 1))
    <3>1. CASE peer.script[r + 1] = "app" /\ x.app = Append(s.app, r + 1)
      <4>1. PICK d \in Seq(Nat), i \in Nat : d = s.app /\ i = r + 1  BY <1>1
      <4>2. PICK q \in Seq(Nat) : q = y \o d  BY ConcatProperties
      <4>3. y \o Append(d, i) = Append(y \o d, i)
        <5> HIDE <1>2
        <5>. QED  OBVIOUS
      <4>4. ListsInOrder(q, DataTo(s.last)) /\ \A e \in DataTo(s.last) : e < i
        BY <1>3, <2>2, <4>1, <4>2
      <4>5. ListsInOrder(Append(q, i), DataTo(s.last) \cup {i})  BY <4>4, OneMoreInOrder
      <4>. QED  BY <2>2, <3>1, <4>1, <4>2, <4>3, <4>5
    <3>2. CASE peer.script[r + 1] # "app" /\ x.app = s.app  BY <1>3, <2>2, <3>2
    <3>. QED  BY <1>5, <3>1, <3>2 DEF Opened
  <2>4. NoneSealed(x.last, r + 1)
    <3>1. \A i : i \notin r + 1 + 1 .. r + 1  OBVIOUS
    <3>. QED  BY <2>1, <3>1 DEF NoneSealed
  <2>5. x.last <= r + 1  BY <2>1
  <2>. QED  BY <1>2, <2>1, <2>3, <2>4, <2>5 DEF InStep
<1>. QED  BY <1>4, <1>5

\* What the protocol may make of a call by one record.
Moved(s, x) ==
    /\ x \in Feds /\ x.phase >= s.phase
    /\ (x.failed => s.failed \/ x.phase = 4) /\ (x.over = "returned" => x.phase = 4)
    /\ x.sends = s.sends \/ s.phase <= 2 \/ ~Client

\* The parts of the protocol's step, each of what it may do.
LEMMA TrapMoves ==
    ASSUME NEW s \in Feds
    PROVE  /\ Moved(s, TrapIn(s)) /\ TrapIn(s).over = "trapped" /\ TrapIn(s).last = s.last
           /\ TrapIn(s).app = s.app
<1> DEFINE x == [s EXCEPT !.over = "trapped"]
<1>1. /\ x \in Feds /\ x.phase = s.phase /\ x.over = "trapped" /\ x.last = s.last /\ x.app = s.app
      /\ x.sends = s.sends /\ s.phase \in 1 .. 4
  BY DEF Feds
<1>2. x.failed <=> s.failed  BY DEF Feds
<1>3. TrapIn(s) = x  BY DEF TrapIn
<1> HIDE DEF x
<1>. QED  BY <1>1, <1>2, <1>3 DEF Moved
LEMMA AlertMoves ==
    ASSUME NEW s \in Feds, s.phase <= 2 \/ ~Client
    PROVE  Moved(s, Alert(s)) /\ Alert(s).phase = 4 /\ Alert(s).last = s.last /\ Alert(s).app = s.app
<1>1. s.phase \in 1 .. 4 /\ s.sends \in Nat /\ 4 \in 1 .. 4  BY DEF Feds
<1>2. PICK n \in Nat : n = s.sends + 1  BY <1>1
<1>3. PICK client \in BOOLEAN : client = Client  BY Zenon DEF Client
<1> DEFINE x == [s EXCEPT !.phase = 4, !.failed = client, !.sends = n, !.over = "returned"]
<1>4. x \in Feds /\ x.phase = 4 /\ x.last = s.last /\ x.app = s.app  BY <1>1 DEF Feds
<1>5. Alert(s) = x  BY <1>2, <1>3 DEF Alert
<1> HIDE DEF x
<1>. QED  BY <1>1, <1>4, <1>5 DEF Moved
PhasedTo(s, ph, n) == [s EXCEPT !.phase = ph, !.sends = n]
TakenTo(s, ph, i, n) == [s EXCEPT !.phase = ph, !.last = i, !.sends = n]
WithData(s, i) == [s EXCEPT !.last = i, !.app = Append(@, i)]
LEMMA PhaseMoves ==
    ASSUME NEW s \in Feds, s.over = "no", NEW ph \in 1 .. 4, NEW n \in Nat, ph >= s.phase,
           n = s.sends \/ s.phase <= 2 \/ ~Client
    PROVE  /\ Moved(s, PhasedTo(s, ph, n)) /\ PhasedTo(s, ph, n).last = s.last
           /\ PhasedTo(s, ph, n).app = s.app
<1> DEFINE x == PhasedTo(s, ph, n)
<1>1. /\ x \in Feds /\ x.phase = ph /\ x.last = s.last /\ x.app = s.app /\ x.sends = n /\ x.over = "no"
  BY DEF Feds, PhasedTo
<1>2. x.failed <=> s.failed  BY DEF Feds, PhasedTo
<1> HIDE DEF x
<1>3. Moved(s, x)  BY <1>1, <1>2 DEF Moved
<1>. QED  BY <1>1, <1>3 DEF x
LEMMA LastMoves ==
    ASSUME NEW s \in Feds, s.over = "no", NEW ph \in 1 .. 4, NEW n \in Nat, ph >= s.phase, NEW i \in Nat,
           n = s.sends \/ s.phase <= 2 \/ ~Client
    PROVE  /\ Moved(s, TakenTo(s, ph, i, n)) /\ TakenTo(s, ph, i, n).last = i
           /\ TakenTo(s, ph, i, n).app = s.app
<1> DEFINE x == TakenTo(s, ph, i, n)
<1>1. /\ x \in Feds /\ x.phase = ph /\ x.last = i /\ x.app = s.app /\ x.sends = n /\ x.over = "no"
  BY DEF Feds, TakenTo
<1>2. x.failed <=> s.failed  BY DEF Feds, TakenTo
<1> HIDE DEF x
<1>3. Moved(s, x)  BY <1>1, <1>2 DEF Moved
<1>. QED  BY <1>1, <1>3 DEF x
LEMMA OneMore == ASSUME NEW d \in Seq(Nat), NEW i \in Nat PROVE Append(d, i) \in Seq(Nat)
OBVIOUS
LEMMA DataMoves ==
    ASSUME NEW s \in Feds, s.over = "no", NEW i \in Nat
    PROVE  /\ Moved(s, WithData(s, i)) /\ WithData(s, i).last = i
           /\ WithData(s, i).app = Append(s.app, i)
<1> DEFINE x == WithData(s, i)
<1>1. PICK d \in Seq(Nat) : d = s.app  BY DEF Feds
<1>2. PICK a \in Seq(Nat) : a = Append(d, i)  BY OneMore
<1>3. x = [s EXCEPT !.last = i, !.app = a]  BY <1>1, <1>2 DEF WithData
<1> HIDE DEF x
<1>4. /\ x \in Feds /\ x.phase = s.phase /\ x.sends = s.sends /\ x.over = "no" /\ x.last = i /\ x.app = a
      /\ s.phase \in 1 .. 4
  BY <1>3 DEF Feds
<1>5. x.failed <=> s.failed  BY <1>3 DEF Feds
<1>6. Moved(s, x)  BY <1>4, <1>5 DEF Moved
<1>. QED  BY <1>1, <1>2, <1>4, <1>6 DEF x

\* A feed of one record more.
LEMMA FeedStep ==
    ASSUME TlsTyped, WholeFed, NEW s, NEW r \in Nat, FedTo(s, r), r < Len(peer.script)
    PROVE  FedTo(Feed(s, <<r + 1, 2>>), r + 1)
<1> DEFINE x == Feed(s, <<r + 1, 2>>)
           kind == peer.script[r + 1]
<1>0. PICK i \in Nat : i = r + 1  OBVIOUS
<1>1. s \in Feds /\ InStep(s, r) /\ state.phase \in 1 .. 4 /\ s.phase \in 1 .. 4 /\ s.sends \in Nat
  BY DEF FedTo, TlsTyped, States, Feds
<1>2. x = IF s.over # "no" \/ kind = "ccs" THEN s
          ELSE CASE s.phase = 1 -> FeedHello(s, kind)
                 [] s.phase = 2 /\ Opens(s.last, i) -> FeedFlight(s, kind, i)
                 [] s.phase = 3 /\ Opens(s.last, i) -> FeedEstablished(s, kind, i)
                 [] OTHER -> TrapIn(s)
  BY <1>0 DEF Feed
<1> DEFINE Good == Moved(s, x) /\ (Passed(s, x, r) \/ Opened(s, x, r))
<1> HIDE DEF x, kind
<1>3. ASSUME s.over # "no" \/ kind = "ccs" PROVE Good
  <2>1. x = s  BY <1>2, <1>3
  <2>2. Moved(s, x)  BY <1>1, <2>1 DEF Moved, FedTo
  <2>3. s.over \in {"no", "returned", "trapped"} /\ (s.over = "returned" => s.phase = 4)
    BY <1>1 DEF Feds, FedTo
  <2>4. kind = "ccs" => peer.script[r + 1] \notin Sealed  BY DEF kind, Sealed
  <2>5. Passed(s, x, r)  BY <1>3, <2>1, <2>3, <2>4 DEF Passed
  <2>. QED  BY <2>2, <2>5
<1>4. ASSUME s.over = "no", kind # "ccs" PROVE Good
  <2>1. ASSUME x = TrapIn(s) PROVE Good  BY <1>1, <2>1, TrapMoves DEF Passed
  <2>2. ASSUME x = Alert(s), s.phase <= 2 \/ ~Client PROVE Good  BY <1>1, <2>2, AlertMoves DEF Passed
  <2>3. ASSUME NEW ph \in 1 .. 4, NEW n \in Nat, x = [s EXCEPT !.phase = ph, !.sends = n],
               ph >= s.phase, n = s.sends \/ s.phase <= 2 \/ ~Client, kind \notin Sealed, s.phase # 4
        PROVE  Good
    <3>0. x = PhasedTo(s, ph, n)  BY <2>3 DEF PhasedTo
    <3>1. Moved(s, x) /\ x.last = s.last /\ x.app = s.app
      <4>. QED  BY <1>1, <1>4, <2>3, <3>0, PhaseMoves
    <3>. QED  BY <1>4, <2>3, <3>1 DEF Passed, kind
  <2>4. ASSUME NEW ph \in 1 .. 4, NEW n \in Nat, x = [s EXCEPT !.phase = ph, !.last = i, !.sends = n],
               ph >= s.phase, n = s.sends \/ s.phase <= 2 \/ ~Client, Opens(s.last, i), kind # "app"
        PROVE  Good
    <3>0. x = TakenTo(s, ph, i, n)  BY <2>4 DEF TakenTo
    <3>1. Moved(s, x) /\ x.last = i /\ x.app = s.app
      <4>. QED  BY <1>1, <1>4, <2>4, <3>0, LastMoves
    <3>. QED  BY <1>0, <2>4, <3>1 DEF Opened, kind
  <2>5. ASSUME x = [s EXCEPT !.last = i, !.app = Append(@, i)], Opens(s.last, i), kind = "app"
        PROVE  Good
    <3>0. x = WithData(s, i)  BY <2>5 DEF WithData
    <3>1. Moved(s, x) /\ x.last = i /\ x.app = Append(s.app, i)
      <4>. QED  BY <1>1, <1>4, <3>0, DataMoves
    <3>. QED  BY <1>0, <2>5, <3>1 DEF Opened, kind
  <2> HIDE DEF Good
  <2>7. CASE s.phase = 1
    <3>1. x = FeedHello(s, kind)  BY <1>2, <1>4, <2>7
    <3>2. CASE kind = "hello"
      <4>1. PICK n \in Nat : n = s.sends + (IF Client THEN 0 ELSE 1)  BY <1>1
      <4>2. x = [s EXCEPT !.phase = 2, !.sends = n]  BY <3>1, <3>2, <4>1 DEF FeedHello
      <4>3. kind \notin Sealed /\ 2 \in 1 .. 4 /\ 2 >= s.phase /\ s.phase <= 2 /\ s.phase # 4  BY <2>7, <3>2 DEF Sealed
      <4>. QED  BY <2>3, <2>7, <4>2, <4>3
    <3>3. CASE kind # "hello" /\ Client /\ kind # "broken"
      <4>1. x = Alert(s)  BY <3>1, <3>3 DEF FeedHello
      <4>. QED  BY <2>2, <2>7, <4>1
    <3>4. CASE kind = "wrong" /\ ~Client
      <4>0. PICK n \in Nat : n = s.sends + 1  BY <1>1
      <4>1. x = [s EXCEPT !.phase = 4, !.sends = n]  BY <3>1, <3>4, <4>0 DEF FeedHello
      <4>2. kind \notin Sealed /\ 4 \in 1 .. 4 /\ 4 >= s.phase /\ s.phase <= 2 /\ s.phase # 4
        BY <2>7, <3>4 DEF Sealed
      <4>. QED  BY <2>3, <2>7, <4>1, <4>2
    <3>5. CASE ~(kind = "hello") /\ ~(kind # "hello" /\ Client /\ kind # "broken")
               /\ ~(kind = "wrong" /\ ~Client)
      <4>1. x = TrapIn(s)  BY <3>1, <3>5 DEF FeedHello
      <4>. QED  BY <2>1, <4>1
    <3>. QED  BY <3>2, <3>3, <3>4, <3>5
  <2>8. CASE s.phase = 2 /\ Opens(s.last, i)
    <3>1. x = FeedFlight(s, kind, i)  BY <1>2, <1>4, <2>8
    <3>2. CASE kind = "finished"
      <4>1. PICK n \in Nat : n = s.sends + (IF Client THEN 1 ELSE 0)  BY <1>1
      <4>2. x = [s EXCEPT !.phase = 3, !.last = i, !.sends = n]  BY <3>1, <3>2, <4>1 DEF FeedFlight
      <4>3. 3 \in 1 .. 4 /\ 3 >= s.phase /\ s.phase <= 2  BY <2>8
      <4>. QED  BY <2>4, <2>8, <3>2, <4>2, <4>3
    <3>3. CASE kind = "part" /\ Client
      <4>1. x = [s EXCEPT !.last = i]  BY <3>1, <3>3 DEF FeedFlight
      <4>2. x = [s EXCEPT !.phase = s.phase, !.last = i, !.sends = s.sends]
        BY <1>1, <4>1 DEF Feds
      <4>3. s.phase >= s.phase  BY <1>1
      <4>. QED  BY <1>1, <2>4, <2>8, <3>3, <4>2, <4>3
    <3>4. CASE kind \notin {"finished", "part"} /\ Client
      <4>1. x = Alert(s)  BY <3>1, <3>4 DEF FeedFlight
      <4>. QED  BY <2>2, <2>8, <4>1
    <3>5. CASE kind = "refused" /\ ~Client
      <4>1. x = Alert(s)  BY <3>1, <3>5 DEF FeedFlight
      <4>. QED  BY <2>2, <3>5, <4>1
    <3>6. CASE kind # "finished" /\ ~(kind = "part" /\ Client)
               /\ ~(kind \notin {"finished", "part"} /\ Client) /\ ~(kind = "refused" /\ ~Client)
      <4>1. x = TrapIn(s)  BY <3>1, <3>6 DEF FeedFlight
      <4>. QED  BY <2>1, <4>1
    <3>. QED  BY <3>2, <3>3, <3>4, <3>5, <3>6
  <2>9. CASE s.phase = 3 /\ Opens(s.last, i)
    <3>1. x = FeedEstablished(s, kind, i)  BY <1>2, <1>4, <2>9
    <3>0. s.phase >= s.phase  BY <1>1
    <3>2. CASE kind = "app"
      <4>1. x = [s EXCEPT !.last = i, !.app = Append(@, i)]  BY <3>1, <3>2 DEF FeedEstablished
      <4>. QED  BY <2>5, <2>9, <3>2, <4>1
    <3>3. CASE kind = "alert"
      <4>1. x = [s EXCEPT !.last = i, !.phase = 4]  BY <3>1, <3>3 DEF FeedEstablished
      <4>2. x = [s EXCEPT !.phase = 4, !.last = i, !.sends = s.sends]  BY <1>1, <4>1 DEF Feds
      <4>3. 4 \in 1 .. 4 /\ 4 >= s.phase  BY <2>9
      <4>. QED  BY <1>1, <2>4, <2>9, <3>0, <3>3, <4>2, <4>3
    <3>4. CASE kind = "update" /\ ~Client
      <4>0. PICK n \in Nat : n = s.sends + 1  BY <1>1
      <4>1. x = [s EXCEPT !.last = i, !.sends = n]  BY <3>1, <3>4, <4>0 DEF FeedEstablished
      <4>2. x = [s EXCEPT !.phase = s.phase, !.last = i, !.sends = n]  BY <1>1, <4>1 DEF Feds
      <4>. QED  BY <1>1, <2>4, <2>9, <3>0, <3>4, <4>2
    <3>5. CASE kind = "refused" /\ ~Client
      <4>1. x = Alert(s)  BY <3>1, <3>5 DEF FeedEstablished
      <4>. QED  BY <2>2, <3>5, <4>1
    <3>6. CASE kind # "app" /\ kind # "alert" /\ ~(kind = "update" /\ ~Client)
               /\ ~(kind = "refused" /\ ~Client)
      <4>1. x = [s EXCEPT !.last = i]  BY <3>1, <3>6 DEF FeedEstablished
      <4>2. x = [s EXCEPT !.phase = s.phase, !.last = i, !.sends = s.sends]  BY <1>1, <4>1 DEF Feds
      <4>. QED  BY <1>1, <2>4, <2>9, <3>0, <3>6, <4>2
    <3>. QED  BY <3>2, <3>3, <3>4, <3>5, <3>6
  <2>10. CASE s.phase # 1 /\ ~(s.phase = 2 /\ Opens(s.last, i)) /\ ~(s.phase = 3 /\ Opens(s.last, i))
    <3>1. x = TrapIn(s)  BY <1>2, <1>4, <2>10
    <3>. QED  BY <2>1, <3>1
  <2>. QED  BY <2>7, <2>8, <2>9, <2>10
<1>5. Moved(s, x) /\ (Passed(s, x, r) \/ Opened(s, x, r))  BY <1>1, <1>3, <1>4
<1>6. x \in Feds /\ x.phase \in 1 .. 4 /\ x.phase >= s.phase /\ s.phase >= state.phase
  BY <1>5 DEF Moved, FedTo, Feds
<1>7. InStep(x, r + 1)  BY <1>1, <1>5, <1>6, StaysInStep
<1>8. x.phase >= state.phase  BY <1>1, <1>6
<1>9. x.failed => x.phase = 4
  <2>1. ASSUME s.failed PROVE x.phase = 4
    <3>1. s.phase = 4  BY <2>1 DEF FedTo
    <3>. QED  BY <1>6, <3>1
  <2>. QED  BY <1>5, <2>1 DEF Moved
<1>10. Client /\ x.sends > 0 => state.phase <= 2
  <2>1. x.sends = s.sends \/ s.phase <= 2 \/ ~Client  BY <1>5 DEF Moved
  <2>2. Client /\ s.sends > 0 => state.phase <= 2  BY DEF FedTo
  <2>. QED  BY <1>1, <1>6, <2>1, <2>2
<1>11. x.over = "returned" => x.phase = 4  BY <1>5 DEF Moved
<1>. QED  BY <1>6, <1>7, <1>8, <1>9, <1>10, <1>11 DEF FedTo, x

\* f is the feed of the m records of some cells, from a state on.
Feeding(f, start, cells, m) ==
    f = [k \in 0 .. m |-> IF k = 0 THEN start ELSE Feed(f[k - 1], cells[2 * k])]
\* There is a feed of any number of records.
LEMMA FeedingExists ==
    ASSUME NEW start, NEW cells, NEW m \in Nat
    PROVE  \E f : Feeding(f, start, cells, m)
<1> DEFINE Good(n, f) == f = [k \in 0 .. n |-> IF k = 0 THEN start ELSE Feed(f[k - 1], cells[2 * k])]
           S == {n \in Nat : \E f : Good(n, f)}
<1>1. 0 \in S
  <2> DEFINE g == [k \in 0 .. 0 |-> start]
  <2>1. \A k \in 0 .. 0 : g[k] = IF k = 0 THEN start ELSE Feed(g[k - 1], cells[2 * k])  OBVIOUS
  <2>2. [k \in 0 .. 0 |-> g[k]] = [k \in 0 .. 0 |-> IF k = 0 THEN start ELSE Feed(g[k - 1], cells[2 * k])]
    <3> HIDE DEF g
    <3>. QED  BY <2>1
  <2>3. Good(0, g)  BY <2>2
  <2>. QED  BY <2>3
<1>2. ASSUME NEW n \in Nat, n \in S PROVE n + 1 \in S
  <2>1. PICK f : Good(n, f)  BY <1>2
  <2> DEFINE g == [k \in 0 .. n + 1 |-> IF k <= n THEN f[k] ELSE Feed(f[n], cells[2 * (n + 1)])]
  <2>2. \A h : \A k \in 0 .. n :
          [j \in 0 .. n |-> IF j = 0 THEN start ELSE Feed(h[j - 1], cells[2 * j])][k]
          = IF k = 0 THEN start ELSE Feed(h[k - 1], cells[2 * k])
    OBVIOUS
  <2>3. \A k \in 0 .. n : f[k] = IF k = 0 THEN start ELSE Feed(f[k - 1], cells[2 * k])
    BY <2>1, <2>2, Zenon
  <2>4. ASSUME NEW k \in 0 .. n + 1
        PROVE  g[k] = IF k = 0 THEN start ELSE Feed(g[k - 1], cells[2 * k])
    <3>1. CASE k = n + 1
      <4>1. k - 1 = n /\ k # 0 /\ g[n] = f[n] /\ n \in 0 .. n + 1  BY <3>1
      <4>2. g[k] = Feed(f[n], cells[2 * k])  BY <3>1
      <4> HIDE DEF g
      <4>. QED  BY <4>1, <4>2
    <3>2. CASE k = 0
      <4>1. g[k] = f[0] /\ 0 \in 0 .. n  BY <3>2
      <4> HIDE DEF g
      <4>. QED  BY <2>3, <3>2, <4>1
    <3>3. CASE k # 0 /\ k # n + 1
      <4>1. k \in 0 .. n /\ k - 1 \in 0 .. n  BY <3>3
      <4>2. g[k] = f[k] /\ g[k - 1] = f[k - 1]  BY <4>1
      <4> HIDE DEF g
      <4>. QED  BY <2>3, <3>3, <4>1, <4>2
    <3>. QED  BY <3>1, <3>2, <3>3
  <2>5. Good(n + 1, g)
    <3>1. [k \in 0 .. n + 1 |-> g[k]]
          = [k \in 0 .. n + 1 |-> IF k = 0 THEN start ELSE Feed(g[k - 1], cells[2 * k])]
      <4> HIDE DEF g
      <4>. QED  BY <2>4
    <3>. QED  BY <3>1
  <2>6. n + 1 \in Nat  OBVIOUS
  <2> HIDE DEF g, Good
  <2>. QED  BY <2>5, <2>6
<1>3. m \in S
  <2> HIDE DEF S
  <2>. QED  BY <1>1, <1>2, SetInduction
<1>. QED  BY <1>3 DEF Feeding

\* A call begins in step, and a trap leaves what it began with.
LEMMA StartIs ==
    ASSUME TlsTyped
    PROVE  /\ Start \in Feds /\ (Start.failed <=> state.failed) /\ Start.phase = state.phase
           /\ Start.last = state.last /\ Start.app = <<>> /\ Start.sends = 0
           /\ Start.over = IF state.phase = 4 THEN "returned" ELSE "no"
<1>1. state \in States /\ <<>> \in Seq(Nat)  BY DEF TlsTyped
<1>2. PICK o \in {"no", "returned", "trapped"} : o = IF state.phase = 4 THEN "returned" ELSE "no"  OBVIOUS
<1> DEFINE x == [phase |-> state.phase, failed |-> state.failed, last |-> state.last, sends |-> 0,
                 app |-> <<>>, over |-> o]
<1>3. x \in Feds  BY <1>1 DEF Feds, States
<1>4. x.failed <=> state.failed  BY <1>1 DEF States
<1>5. x.phase = state.phase /\ x.last = state.last /\ x.app = <<>> /\ x.sends = 0 /\ x.over = o  OBVIOUS
<1>6. Start = x  BY <1>2 DEF Start
<1> HIDE DEF x
<1>. QED  BY <1>2, <1>3, <1>4, <1>5, <1>6
LEMMA HeldInOrder ==
    ASSUME TlsTyped, WholeFed
    PROVE  ListsInOrder((inbox.out \o inbox.plain) \o <<>>, DataTo(state.last))
<1>1. PICK y \in Seq(Nat) : y = inbox.out \o inbox.plain
  <2>1. inbox.out \in Seq(Nat) /\ inbox.plain \in Seq(Nat)  BY DEF TlsTyped, Inboxes
  <2>. QED  BY <2>1, ConcatProperties
<1>2. y \o <<>> = y  BY ConcatEmptySeq
<1>3. ListsInOrder(y, DataTo(state.last))  BY <1>1 DEF WholeFed, PlainIsWhatArrived
<1>. QED  BY <1>1, <1>2, <1>3
LEMMA StartFed ==
    ASSUME TlsTyped, WholeFed, NEW r \in Nat, r = inbox.read \div 2
    PROVE  FedTo(Start, r)
<1>1. /\ Start \in Feds /\ (Start.failed <=> state.failed) /\ Start.phase = state.phase
      /\ Start.last = state.last /\ Start.app = <<>> /\ Start.sends = 0
      /\ Start.over = IF state.phase = 4 THEN "returned" ELSE "no"
  BY StartIs
<1>2. state.phase \in 1 .. 4 /\ (state.failed => state.phase = 4) /\ state.last <= r
  BY DEF TlsTyped, States, WholeFed
<1>3. state.phase # 4 /\ ~inbox.lost => NoneSealed(state.last, r)
  BY DEF WholeFed, PlainIsWhatArrived, NoneSealed
<1>4. InStep(Start, r)  BY <1>1, <1>2, <1>3, HeldInOrder DEF InStep
<1>5. Start.phase >= state.phase /\ ~(Start.sends > 0)  BY <1>1, <1>2
<1>. QED  BY <1>1, <1>2, <1>4, <1>5 DEF FedTo
LEMMA TrappedFed ==
    ASSUME TlsTyped, WholeFed, NEW r \in Nat, inbox.read \div 2 <= r, inbox.read \div 2 \in Nat
    PROVE  FedTo(TrapIn(Start), r)
<1>1. /\ Start \in Feds /\ (Start.failed <=> state.failed) /\ Start.phase = state.phase
      /\ Start.last = state.last /\ Start.app = <<>> /\ Start.sends = 0
  BY StartIs
<1> DEFINE x == [Start EXCEPT !.over = "trapped"]
<1>2. /\ x \in Feds /\ x.phase = Start.phase /\ x.over = "trapped" /\ x.last = Start.last
      /\ x.app = Start.app /\ x.sends = Start.sends
  BY <1>1 DEF Feds
<1>3. x.failed <=> Start.failed  BY <1>1 DEF Feds
<1>4. TrapIn(Start) = x  BY DEF TrapIn
<1> HIDE DEF x
<1>5. state.phase \in 1 .. 4 /\ (state.failed => state.phase = 4) /\ state.last <= r
  <2>1. state.last \in Nat /\ state.last <= inbox.read \div 2  BY DEF TlsTyped, States, WholeFed
  <2>. QED  BY <2>1 DEF TlsTyped, States, WholeFed
<1>6. InStep(x, r)  BY <1>1, <1>2, <1>5, HeldInOrder DEF InStep
<1>7. x.phase >= state.phase /\ ~(x.sends > 0)  BY <1>1, <1>2, <1>5
<1>. QED  BY <1>1, <1>2, <1>3, <1>4, <1>5, <1>6, <1>7 DEF FedTo

\* All the whole records at the front are fed, each in its turn.
LEMMA FeedsAll ==
    ASSUME TlsTyped, WholeFed, NEW m \in Nat, NEW r \in Nat,
           r = inbox.read \div 2, r + m <= Len(peer.script)
    PROVE  FedTo(FeedAll(Between(2 * r, 2 * (r + m))), r + m)
<1> DEFINE start == Start
           cells == Between(2 * r, 2 * (r + m))
           f == CHOOSE g : g = [k \in 0 .. Len(cells) \div 2 |->
                                  IF k = 0 THEN start ELSE Feed(g[k - 1], cells[2 * k])]
<1>1. Len(cells) = 2 * m /\ \A k \in 1 .. 2 * m : cells[k] = Cell(2 * r + k)
  <2>1. PICK a \in Nat, b \in Nat : a = 2 * r /\ b = 2 * (r + m)  OBVIOUS
  <2>2. a <= b /\ b - a = 2 * m  BY <2>1
  <2>3. Len(Between(a, b)) = b - a /\ \A k \in 1 .. b - a : Between(a, b)[k] = Cell(a + k)
    BY <2>2, BetweenIs
  <2>. QED  BY <2>1, <2>2, <2>3
<1>2. \A k \in 1 .. m : cells[2 * k] = <<r + k, 2>>
  <2> TAKE k \in 1 .. m
  <2>1. 2 * k \in 1 .. 2 * m  OBVIOUS
  <2>2. Cell(2 * r + 2 * k) = <<r + k, 2>>
    <3>1. PICK j \in Nat : j = r + k  OBVIOUS
    <3>2. (2 * j + 1) \div 2 = j /\ (2 * j) % 2 = 0  OBVIOUS
    <3>3. 2 * r + 2 * k = 2 * j  BY <3>1
    <3>4. Cell(2 * j) = <<j, 2>>  BY <3>2 DEF Cell
    <3>. QED  BY <3>1, <3>3, <3>4
  <2>. QED  BY <1>1, <2>1, <2>2
<1>3. FeedAll(cells) = Returned(f[Len(cells) \div 2])  BY DEF FeedAll
<1>4. Len(cells) \div 2 = m
  <2>1. (2 * m) \div 2 = m  OBVIOUS
  <2>. QED  BY <1>1, <2>1
<1> HIDE DEF cells
<1>5. f = [k \in 0 .. m |-> IF k = 0 THEN start ELSE Feed(f[k - 1], cells[2 * k])]
  <2> HIDE DEF start
  <2>1. PICK g : Feeding(g, start, cells, m)  BY FeedingExists
  <2>. QED  BY <1>4, <2>1, Zenon DEF Feeding
<1> HIDE DEF f
<1>6. f[0] = start /\ \A k \in 1 .. m : f[k] = Feed(f[k - 1], <<r + k, 2>>)
  <2> HIDE DEF start
  <2>1. \A h : \A k \in 0 .. m :
          [j \in 0 .. m |-> IF j = 0 THEN start ELSE Feed(h[j - 1], cells[2 * j])][k]
          = IF k = 0 THEN start ELSE Feed(h[k - 1], cells[2 * k])
    OBVIOUS
  <2>2. \A k \in 0 .. m : f[k] = IF k = 0 THEN start ELSE Feed(f[k - 1], cells[2 * k])
    BY <1>5, <2>1, Zenon
  <2>3. f[0] = start  BY <2>2
  <2>4. ASSUME NEW k \in 1 .. m PROVE f[k] = Feed(f[k - 1], <<r + k, 2>>)
    <3>1. k \in 0 .. m /\ k # 0  OBVIOUS
    <3>2. f[k] = Feed(f[k - 1], cells[2 * k])  BY <2>2, <3>1, Zenon
    <3>. QED  BY <1>2, <3>2
  <2>. QED  BY <2>3, <2>4
<1> DEFINE S == {k \in Nat : k <= m => FedTo(f[k], r + k)}
<1>7. 0 \in S
  <2>1. FedTo(start, r)  BY StartFed
  <2> HIDE DEF start
  <2>2. r + 0 = r  OBVIOUS
  <2>. QED  BY <1>6, <2>1, <2>2
<1> HIDE DEF start
<1>8. ASSUME NEW k \in Nat, k \in S PROVE k + 1 \in S
  <2>1. SUFFICES ASSUME k + 1 <= m PROVE FedTo(f[k + 1], r + (k + 1))  OBVIOUS
  <2>2. PICK j \in Nat : j = r + k  OBVIOUS
  <2>3. FedTo(f[k], j) /\ j < Len(peer.script)  BY <1>8, <2>1, <2>2 DEF WholeFed
  <2>4. FedTo(Feed(f[k], <<j + 1, 2>>), j + 1)  BY <2>3, FeedStep
  <2>5. k + 1 \in 1 .. m /\ (k + 1) - 1 = k /\ r + (k + 1) = j + 1  BY <2>1, <2>2
  <2>6. f[k + 1] = Feed(f[k], <<j + 1, 2>>)  BY <1>6, <2>5
  <2>. QED  BY <2>4, <2>5, <2>6
<1>9. m \in S
  <2> HIDE DEF S
  <2>. QED  BY <1>7, <1>8, SetInduction
<1>10. FedTo(f[m], r + m)  BY <1>9
<1>11. CASE f[m].over = "trapped"
  <2>1. PICK j \in Nat : j = r + m /\ r <= j  OBVIOUS
  <2>2. FedTo(TrapIn(Start), j)  BY <2>1, TrappedFed
  <2>. QED  BY <1>3, <1>4, <1>11, <2>1, <2>2 DEF Returned, cells
<1>12. CASE f[m].over # "trapped"  BY <1>3, <1>4, <1>10, <1>12 DEF Returned, cells
<1>. QED  BY <1>11, <1>12

\* Halves of a number, and of its distance to an even one.
LEMMA HalfOf ==
    ASSUME NEW x \in Nat, NEW r \in Nat, 2 * r <= x
    PROVE  /\ x \div 2 \in Nat /\ 2 * (x \div 2) <= x /\ x <= 2 * (x \div 2) + 1
           /\ (x - 2 * r) \div 2 = (x \div 2) - r /\ r <= x \div 2
<1>1. x \div 2 \in Nat /\ 2 * (x \div 2) <= x /\ x <= 2 * (x \div 2) + 1  OBVIOUS
<1>2. PICK y \in Nat : y = x - 2 * r  OBVIOUS
<1>3. y \div 2 \in Nat /\ 2 * (y \div 2) <= y /\ y <= 2 * (y \div 2) + 1  OBVIOUS
<1>4. y \div 2 = (x \div 2) - r  BY <1>1, <1>2, <1>3
<1>. QED  BY <1>1, <1>2, <1>3, <1>4

\* A read of the socket: every record that is whole by then is fed, once.
LEMMA PumpFeeds ==
    ASSUME TlsTyped, WholeFed, NEW n \in Nat, CanPump(n)
    PROVE  LET now == inbox.read + n IN
           /\ FedTo(Pumped(n).fed, now \div 2)
           /\ Kept(Pumped(n).merged, Pumped(n).whole) = Between(2 * (now \div 2), now)
<1>1. PICK a \in Nat : a = inbox.read  BY DEF TlsTyped, Inboxes
<1>2. PICK b \in Nat : b = a + n  OBVIOUS
<1>3. PICK r \in Nat : r = a \div 2 /\ 2 * r <= a
  <2>1. 0 \in Nat /\ 2 * 0 <= a  OBVIOUS
  <2>2. a \div 2 \in Nat /\ 2 * (a \div 2) <= a  BY <2>1, HalfOf
  <2>. QED  BY <2>2
<1>4. PICK e \in Nat : e = b \div 2 /\ 2 * e <= b /\ (b - 2 * r) \div 2 = e - r /\ r <= e
  <2>1. 2 * r <= b  BY <1>2, <1>3
  <2>2. b \div 2 \in Nat /\ 2 * (b \div 2) <= b /\ (b - 2 * r) \div 2 = (b \div 2) - r /\ r <= b \div 2
    BY <2>1, HalfOf
  <2>. QED  BY <2>2
<1>5. b <= 2 * Len(peer.script) /\ socket = "open" /\ Len(peer.script) \in Nat
  <2>1. n <= peer.arrived - inbox.read /\ socket = "open" /\ peer.arrived \in Nat
    BY DEF CanPump, TlsTyped
  <2>2. peer.arrived <= 2 * Len(peer.script) /\ Len(peer.script) \in Nat  BY DEF WholeFed
  <2>. QED  BY <1>1, <1>2, <2>1, <2>2
<1>6. e <= Len(peer.script)  BY <1>4, <1>5
<1>7. PICK z \in Nat : z = 2 * r /\ z <= a /\ z <= b  BY <1>2, <1>3
<1>8. inbox.raw = Between(z, a)  BY <1>1, <1>3, <1>7 DEF WholeFed
<1>9. Pumped(n).merged = Between(z, b)
  <2>0. z <= a /\ a <= b  BY <1>2, <1>7
  <2>1. Between(z, a) \o Between(a, b) = Between(z, b)  BY <2>0, BetweenJoins
  <2>2. Pumped(n).merged = inbox.raw \o Between(inbox.read, inbox.read + n)  BY DEF Pumped
  <2>. QED  BY <1>1, <1>2, <1>8, <2>1, <2>2
<1>10. Len(Between(z, b)) = b - z  BY <1>7, BetweenIs
<1>11. PICK m \in Nat : m = e - r  BY <1>4
<1>12. Pumped(n).whole = 2 * m
  <2>1. Pumped(n).whole = 2 * (Len(Pumped(n).merged) \div 2)  BY DEF Pumped, Whole
  <2>. QED  BY <1>4, <1>7, <1>9, <1>10, <1>11, <2>1
<1>13. PICK w \in 0 .. b - z : w = 2 * m /\ z + w = 2 * e  BY <1>4, <1>7, <1>11
<1>14. /\ SubSeq(Between(z, b), 1, w) = Between(z, z + w)
       /\ SubSeq(Between(z, b), w + 1, Len(Between(z, b))) = Between(z + w, b)
  BY <1>7, BetweenCut
<1>15. Kept(Pumped(n).merged, Pumped(n).whole) = Between(2 * e, b)
  BY <1>9, <1>12, <1>13, <1>14 DEF Kept
<1>16. Pumped(n).fed = FeedAll(Between(2 * r, 2 * (r + m)))
  <2>1. Pumped(n).fed = FeedAll(SubSeq(Pumped(n).merged, 1, Pumped(n).whole))  BY DEF Pumped
  <2>2. r + m = e  BY <1>4, <1>11
  <2>. QED  BY <1>7, <1>9, <1>12, <1>13, <1>14, <2>1, <2>2
<1>17. FedTo(FeedAll(Between(2 * r, 2 * (r + m))), r + m)
  <2>1. r = inbox.read \div 2 /\ r + m <= Len(peer.script)
    BY <1>1, <1>3, <1>4, <1>5, <1>6, <1>11
  <2>. QED  BY <2>1, FeedsAll
<1>18. r + m = e  BY <1>4, <1>11
<1>. QED  BY <1>1, <1>2, <1>4, <1>15, <1>16, <1>17, <1>18

\* Data joined in either order.
LEMMA JoinedInTurn ==
    ASSUME NEW S, NEW x \in Seq(S), NEW y \in Seq(S), NEW z \in Seq(S)
    PROVE  (x \o y) \o z = x \o (y \o z)
BY ConcatAssociative

\* ... and the host keeps what the protocol gave back.
LEMMA TookStep ==
    ASSUME TlsTyped, WholeFed, NEW n \in Nat, CanPump(n), Took(n, Pumped(n)), UNCHANGED <<peer, socket, role>>
    PROVE  /\ WholeFed'
           /\ state' \in States
           /\ inbox' \in Inboxes
<1> DEFINE fd == Pumped(n).fed
           kt == Kept(Pumped(n).merged, Pumped(n).whole)
<1>0. PICK now \in Nat : now = inbox.read + n  BY DEF TlsTyped, Inboxes
<1>1. FedTo(fd, now \div 2) /\ kt = Between(2 * (now \div 2), now)  BY <1>0, PumpFeeds
<1>2. fd \in Feds /\ (fd.failed => fd.phase = 4) /\ InStep(fd, now \div 2)  BY <1>1 DEF FedTo
<1>a. PICK gone \in BOOLEAN : gone <=> inbox.lost \/ fd.over = "trapped"  OBVIOUS
<1>3. /\ state' = [phase |-> fd.phase, failed |-> fd.failed, last |-> fd.last]
      /\ inbox' = [inbox EXCEPT !.read = @ + n, !.raw = kt, !.plain = Grown(@, fd.app),
                                !.lost = @ \/ fd.over = "trapped"]
  BY DEF Took, Trapped
<1> HIDE DEF fd, kt
<1>4. state' \in States  BY <1>2, <1>3 DEF Feds, States
<1>5. PICK o \in Seq(Nat), l \in Seq(Nat), d \in Seq(Nat) :
        o = inbox.out /\ l = inbox.plain /\ d = fd.app
  BY <1>2 DEF TlsTyped, Feds, Inboxes
<1>6. (o \o l) \o d = o \o (l \o d) /\ l \o d \in Seq(Nat)
  <2>1. (o \o l) \o d = o \o (l \o d)
    <3>1. PICK S : S = Nat  OBVIOUS
    <3>2. o \in Seq(S) /\ l \in Seq(S) /\ d \in Seq(S)  BY <3>1
    <3>. QED  BY <3>2, JoinedInTurn
  <2>2. l \o d \in Seq(Nat)  BY ConcatProperties
  <2>. QED  BY <2>1, <2>2
<1>7. kt \in Seq(Halves)
  <2>1. PICK x \in Nat : x = 2 * (now \div 2) /\ x <= now
    <3>1. 0 \in Nat /\ 2 * 0 <= now  OBVIOUS
    <3>. QED  BY <3>1, HalfOf
  <2>2. Between(x, now) \in Seq(Halves)  BY <2>1, BetweenIs
  <2>. QED  BY <1>1, <2>1, <2>2
<1>8. PICK g \in Seq(Nat) : g = l \o d  BY <1>6
<1>b. inbox.lost \in BOOLEAN  BY DEF TlsTyped, Inboxes
<1>c. gone = (inbox.lost \/ fd.over = "trapped")  BY <1>a, <1>b
<1>9. inbox' = [inbox EXCEPT !.read = now, !.raw = kt, !.plain = g, !.lost = gone]
  BY <1>0, <1>3, <1>5, <1>8, <1>c DEF Grown, TlsTyped, Inboxes
<1>10. inbox' \in Inboxes  BY <1>7, <1>9 DEF TlsTyped, Inboxes
<1>11. inbox'.read = now /\ inbox'.raw = kt /\ inbox'.plain = g /\ inbox'.out = o
  BY <1>5, <1>9 DEF TlsTyped, Inboxes
<1>12. inbox'.lost <=> gone  BY <1>9 DEF TlsTyped, Inboxes
<1>13. now <= peer.arrived  BY <1>0 DEF CanPump, TlsTyped, Inboxes
<1>14. state'.phase = fd.phase /\ state'.last = fd.last /\ peer' = peer  BY <1>3
<1>15. PlainIsWhatArrived'
  <2>1. ListsInOrder(o \o g, DataTo(fd.last))  BY <1>2, <1>5, <1>6, <1>8 DEF InStep
  <2>3. DataTo(state.last)' = DataTo(fd.last)  BY <1>14 DEF DataTo
  <2>4. ListsInOrder(inbox.out \o inbox.plain, DataTo(state.last))'
    BY <1>11, <2>1, <2>3 DEF ListsInOrder
  <2>5. ASSUME state'.phase # 4, ~inbox'.lost PROVE NoneSealed(fd.last, now \div 2)
    <3>1. fd.over # "trapped" /\ ~inbox.lost /\ fd.phase # 4  BY <1>12, <1>14, <1>a, <2>5
    <3>. QED  BY <1>2, <3>1 DEF InStep
  <2>. QED  BY <1>11, <1>14, <2>4, <2>5 DEF PlainIsWhatArrived, NoneSealed
<1>16. (state.failed => state.phase = 4)'  BY <1>2, <1>3 DEF Feds
<1>17. WholeFed'
  <2>2. (inbox.raw = Between(2 * (inbox.read \div 2), inbox.read))'  BY <1>1, <1>11
  <2>3. (state.last <= inbox.read \div 2)'  BY <1>2, <1>11, <1>14 DEF InStep
  <2>4. (Len(peer.script) \in Nat /\ peer.arrived <= 2 * Len(peer.script) /\ inbox.read <= peer.arrived)'
    BY <1>11, <1>13, <1>14 DEF WholeFed
  <2>. QED  BY <1>15, <1>16, <2>2, <2>3, <2>4 DEF WholeFed
<1>. QED  BY <1>4, <1>10, <1>17

-----------------------------------------------------------------------------
\* The two ends of an outbox.
Boxes == [made : Nat, reply : Seq(Halves), sending : Seq(Halves), wire : Seq(Halves)]

\* What a write makes of an outbox.
LEMMA BoxMoves ==
    ASSUME NEW box \in Boxes
    PROVE  /\ \A k \in Nat : Made(box, k) \in Boxes /\ Made(box, k).made = box.made + k
           /\ \A x \in Seq(Halves) : /\ [box EXCEPT !.reply = x] \in Boxes
                                     /\ [box EXCEPT !.sending = x] \in Boxes
                                     /\ [box EXCEPT !.wire = x] \in Boxes
           /\ \A x \in Seq(Halves), y \in Seq(Halves) :
                /\ [box EXCEPT !.wire = x, !.reply = y] \in Boxes
                /\ [box EXCEPT !.wire = x, !.sending = y] \in Boxes
<1>1. ASSUME NEW k \in Nat PROVE Made(box, k) \in Boxes /\ Made(box, k).made = box.made + k
  <2>1. PICK z \in Nat : z = box.made + k  BY DEF Boxes
  <2>2. Made(box, k) = [box EXCEPT !.made = z]  BY <2>1 DEF Made
  <2>. QED  BY <2>1, <2>2 DEF Boxes
<1>2. ASSUME NEW x \in Seq(Halves)
      PROVE  /\ [box EXCEPT !.reply = x] \in Boxes
             /\ [box EXCEPT !.sending = x] \in Boxes
             /\ [box EXCEPT !.wire = x] \in Boxes
  BY DEF Boxes
<1>3. ASSUME NEW x \in Seq(Halves), NEW y \in Seq(Halves)
      PROVE  /\ [box EXCEPT !.wire = x, !.reply = y] \in Boxes
             /\ [box EXCEPT !.wire = x, !.sending = y] \in Boxes
  BY DEF Boxes
<1>. QED  BY <1>1, <1>2, <1>3

\* A short write goes a way, and leaves a sequence.
LEMMA Shortened ==
    ASSUME NEW x \in Seq(Halves), NEW y \in Seq(Halves), NEW n \in 1 .. Len(y)
    PROVE  x \o SubSeq(y, 1, n) \in Seq(Halves) /\ Left(y, n) \in Seq(Halves)
<1>1. SubSeq(y, 1, n) \in Seq(Halves)  OBVIOUS
<1>2. Left(y, n) \in Seq(Halves)  BY DEF Left
<1>. QED  BY <1>1, <1>2, ConcatProperties

LEMMA WriteOnceTyped ==
    ASSUME NEW box \in Boxes, NEW x \in Seq(Halves), NEW b \in WriteOnce(box, x)
    PROVE  b \in Boxes /\ b.made = box.made
<1>1. CASE x = <<>>  BY <1>1 DEF WriteOnce
<1>2. CASE x # <<>>
  <2>1. PICK n \in 1 .. Len(x) : b = [box EXCEPT !.wire = @ \o SubSeq(x, 1, n)]  BY <1>2 DEF WriteOnce
  <2>2. box.wire \in Seq(Halves)  BY DEF Boxes
  <2>3. PICK y \in Seq(Halves) : y = box.wire \o SubSeq(x, 1, n)  BY <2>2, Shortened
  <2>4. b = [box EXCEPT !.wire = y]  BY <2>1, <2>3
  <2>. QED  BY <2>4 DEF Boxes
<1>. QED  BY <1>1, <1>2

\* Records are stretches.
LEMMA RecordIs ==
    ASSUME NEW k \in Nat
    PROVE  /\ Record(k + 1) = Between(2 * k, 2 * (k + 1)) /\ Record(k + 1) \in Seq(Halves)
           /\ Len(Record(k + 1)) = 2
           /\ \A m \in Nat : Between(2 * k, 2 * (k + m)) \in Seq(Halves)
<1>1. 2 * (k + 1) - 2 = 2 * k  OBVIOUS
<1>2. Record(k + 1) = Between(2 * k, 2 * (k + 1))  BY <1>1 DEF Record
<1>3. ASSUME NEW m \in Nat PROVE Between(2 * k, 2 * (k + m)) \in Seq(Halves)
                                 /\ Len(Between(2 * k, 2 * (k + m))) = 2 * m
  <2>1. PICK a \in Nat, b \in Nat : a = 2 * k /\ b = 2 * (k + m)  OBVIOUS
  <2>2. a <= b /\ b - a = 2 * m  BY <2>1
  <2>3. Between(a, b) \in Seq(Halves) /\ Len(Between(a, b)) = b - a  BY <2>2, BetweenIs
  <2>. QED  BY <2>1, <2>2, <2>3
<1>4. PICK m \in Nat : m = 1  OBVIOUS
<1>5. Record(k + 1) \in Seq(Halves) /\ Len(Record(k + 1)) = 2
  <2>1. /\ Between(2 * k, 2 * (k + m)) \in Seq(Halves)
        /\ Len(Between(2 * k, 2 * (k + m))) = 2 * m
    BY <1>3
  <2>. QED  BY <1>2, <1>4, <2>1
<1>. QED  BY <1>2, <1>3, <1>5

\* The first of a stream's cells that have not gone go: whichever end holds them.
LEMMA GoOn ==
    ASSUME NEW box \in Boxes, NEW w, Gone(box, w), NEW n \in Nat
    PROVE  /\ n \in 1 .. Len(box.reply) =>
                Gone([box EXCEPT !.wire = @ \o SubSeq(box.reply, 1, n), !.reply = Left(@, n)], w + n)
           /\ n \in 1 .. Len(box.sending) =>
                Gone([box EXCEPT !.wire = @ \o SubSeq(box.sending, 1, n), !.sending = Left(@, n)], w + n)
<1>1. PICK m \in Nat : m = 2 * box.made  BY DEF Boxes
<1>2. w \in Nat /\ w <= m /\ box.wire = Between(0, w)  BY <1>1 DEF Gone
<1>3. Len(Between(w, m)) = m - w /\ Len(<<>>) = 0  BY <1>1, <1>2, BetweenIs
<1>4. ASSUME n \in 1 .. m - w
      PROVE  /\ w + n \in Nat /\ w + n <= m
             /\ Between(0, w) \o SubSeq(Between(w, m), 1, n) = Between(0, w + n)
             /\ Left(Between(w, m), n) = Between(w + n, m)
  <2>1. PICK z \in Nat : z = w + n /\ z <= m /\ w <= z /\ 0 <= w  BY <1>1, <1>2, <1>4
  <2>2. n \in 0 .. m - w  BY <1>4
  <2>3. /\ SubSeq(Between(w, m), 1, n) = Between(w, w + n)
        /\ SubSeq(Between(w, m), n + 1, Len(Between(w, m))) = Between(w + n, m)
    BY <1>1, <1>2, <2>2, BetweenCut
  <2>4. Between(0, w) \o Between(w, z) = Between(0, z)
    <3>1. 0 \in Nat  OBVIOUS
    <3>. QED  BY <1>2, <2>1, <3>1, BetweenJoins
  <2>. QED  BY <2>1, <2>3, <2>4 DEF Left
<1>5. ASSUME n \in 1 .. Len(box.reply)
      PROVE  Gone([box EXCEPT !.wire = @ \o SubSeq(box.reply, 1, n), !.reply = Left(@, n)], w + n)
  <2>1. box.reply = Between(w, m) /\ box.sending = <<>>  BY <1>1, <1>3, <1>5 DEF Gone
  <2> DEFINE x == Between(0, w + n)
             y == Between(w + n, m)
             new == [box EXCEPT !.wire = @ \o SubSeq(box.reply, 1, n), !.reply = Left(@, n)]
  <2>2. new = [box EXCEPT !.wire = x, !.reply = y] /\ w + n \in Nat /\ w + n <= m
    BY <1>2, <1>3, <1>4, <1>5, <2>1
  <2> HIDE DEF x, y, new
  <2>3. new.wire = x /\ new.reply = y /\ new.sending = <<>> /\ new.made = box.made
    BY <2>1, <2>2 DEF Boxes
  <2>. QED  BY <1>1, <2>2, <2>3 DEF Gone, x, y, new
<1>6. ASSUME n \in 1 .. Len(box.sending)
      PROVE  Gone([box EXCEPT !.wire = @ \o SubSeq(box.sending, 1, n), !.sending = Left(@, n)], w + n)
  <2>1. box.sending = Between(w, m) /\ box.reply = <<>>  BY <1>1, <1>3, <1>6 DEF Gone
  <2> DEFINE x == Between(0, w + n)
             y == Between(w + n, m)
             new == [box EXCEPT !.wire = @ \o SubSeq(box.sending, 1, n), !.sending = Left(@, n)]
  <2>2. new = [box EXCEPT !.wire = x, !.sending = y] /\ w + n \in Nat /\ w + n <= m
    BY <1>2, <1>3, <1>4, <1>6, <2>1
  <2> HIDE DEF x, y, new
  <2>3. new.wire = x /\ new.sending = y /\ new.reply = <<>> /\ new.made = box.made
    BY <2>1, <2>2 DEF Boxes
  <2>. QED  BY <1>1, <2>2, <2>3 DEF Gone, x, y, new
<1>. QED  BY <1>5, <1>6

\* When everything made has gone, what is made next waits at either end.
LEMMA MakeMore ==
    ASSUME NEW box \in Boxes, NEW w, Gone(box, w), NEW m \in Nat, box.reply = <<>>, box.sending = <<>>
    PROVE  /\ Gone([Made(box, m) EXCEPT !.reply = Between(2 * box.made, 2 * (box.made + m))], w)
           /\ Gone([Made(box, m) EXCEPT !.sending = Between(2 * box.made, 2 * (box.made + m))], w)
<1>1. PICK k \in Nat : k = box.made  BY DEF Boxes
<1>2. PICK a \in Nat : a = 2 * k  OBVIOUS
<1>3. w \in Nat /\ w <= a /\ Between(w, a) = <<>>  BY <1>1, <1>2 DEF Gone
<1>4. w = a  BY <1>2, <1>3, BetweenIs
<1>5. PICK e \in Nat : e = k + m /\ a <= 2 * e  BY <1>2
<1> DEFINE x == Between(a, 2 * e)
           u == [Made(box, m) EXCEPT !.reply = x]
           v == [Made(box, m) EXCEPT !.sending = x]
<1> HIDE DEF x
<1>6. u.made = e /\ u.wire = box.wire /\ u.reply = x /\ u.sending = <<>>
  BY <1>1, <1>5 DEF Boxes, Made
<1>7. v.made = e /\ v.wire = box.wire /\ v.reply = <<>> /\ v.sending = x
  BY <1>1, <1>5 DEF Boxes, Made
<1> HIDE DEF u, v
<1>8. box.wire = Between(0, w)  BY DEF Gone
<1>9. Gone(u, w)  BY <1>4, <1>5, <1>6, <1>8 DEF Gone, x
<1>10. Gone(v, w)  BY <1>4, <1>5, <1>7, <1>8 DEF Gone, x
<1>. QED  BY <1>1, <1>2, <1>5, <1>9, <1>10 DEF u, v, x

-----------------------------------------------------------------------------
\* A step that reads nothing and keeps the protocol's state keeps what has been fed.
LEMMA FedKept ==
    ASSUME TlsTyped, WholeFed, state' = state, inbox' = inbox, peer'.script = peer.script,
           peer'.arrived \in peer.arrived .. 2 * Len(peer.script)
    PROVE  WholeFed'
<1>1. peer.arrived \in Nat /\ inbox.read \in Nat  BY DEF TlsTyped, Inboxes
<1>2. inbox'.read <= peer'.arrived /\ peer'.arrived <= 2 * Len(peer'.script) /\ Len(peer'.script) \in Nat
  BY <1>1 DEF WholeFed
<1>3. PlainIsWhatArrived'
  <2>1. DataTo(state.last)' = DataTo(state.last)  BY DEF DataTo
  <2>. QED  BY <2>1 DEF WholeFed, PlainIsWhatArrived, ListsInOrder
<1>. QED  BY <1>2, <1>3 DEF WholeFed

\* A step that leaves the outbox alone.
LEMMA TurnKept ==
    ASSUME InTurn, outbox' = outbox, ready' = ready, role' = role, state' = state,
           stage' \in {"connect", "hello"} => stage \in {"connect", "hello"},
           stage' = "connect" => socket' = "none",
           socket = "closed" => socket' = "closed"
    PROVE  InTurn'
<1>1. \A n : Gone(outbox, n)' <=> Gone(outbox, n)  BY DEF Gone
<1>. QED  BY <1>1 DEF InTurn

\* A read of a stream: what it answers is in turn.
LEMMA PumpStep == ASSUME TlsInv, NEW n \in Nat, Pump(n) PROVE TlsInv'
<1> USE DEF TlsInv
<1> DEFINE q == Pumped(n)
           fd == q.fed
           k == fd.sends
           z == Between(2 * outbox.made, 2 * (outbox.made + k))
<1>1. /\ role = "stream" /\ CanPump(n) /\ Took(n, q) /\ stage = "read" /\ socket = "open"
      /\ outbox' = [Made(outbox, k) EXCEPT !.reply = z] /\ outbox.reply = <<>>
      /\ ready' = (ready \/ fd.phase = 3) /\ stage' \in {"thrown", "read"}
      /\ UNCHANGED <<role, peer, writes, socket>>
  BY DEF Pump, CanPump, MadeCells
<1>2. WholeFed' /\ state' \in States
      /\ inbox' \in Inboxes
  BY <1>1, TookStep
<1>3. FedTo(fd, (inbox.read + n) \div 2)  BY <1>1, PumpFeeds
<1>4. state' = [phase |-> fd.phase, failed |-> fd.failed, last |-> fd.last]  BY <1>1 DEF Took
<1> HIDE DEF fd, q
<1>5. fd \in Feds /\ fd.phase >= state.phase /\ (fd.sends > 0 => state.phase <= 2)
      /\ (fd.failed => fd.phase = 4)
  BY <1>1, <1>3 DEF FedTo, Client
<1>6. k \in Nat /\ outbox \in Boxes /\ outbox.made \in Nat  BY <1>5 DEF Feds, TlsTyped, Boxes
<1>7. z \in Seq(Halves)
  <2>1. PICK e \in Nat : e = outbox.made  BY <1>6
  <2>2. \A m \in Nat : Between(2 * e, 2 * (e + m)) \in Seq(Halves)  BY RecordIs
  <2>. QED  BY <1>6, <2>1, <2>2
<1>8. outbox' \in Boxes
  <2>1. PICK b \in Boxes : b = Made(outbox, k)  BY <1>6, BoxMoves
  <2> HIDE DEF z
  <2>. QED  BY <1>1, <1>7, <2>1, BoxMoves
<1>9. TlsTyped'
  <2>1. ready' \in BOOLEAN  BY <1>1 DEF TlsTyped
  <2>2. stage' \in {"connect", "hello", "read", "done", "thrown"}  BY <1>1
  <2>. QED  BY <1>1, <1>2, <1>8, <2>1, <2>2 DEF TlsTyped, Boxes
<1>10. outbox'.sending = outbox.sending
  <2> HIDE DEF z
  <2>. QED  BY <1>1, <1>6 DEF Boxes, Made
<1>11. (ready => state.phase >= 3)'
  <2>1. state'.phase = fd.phase /\ fd.phase \in 1 .. 4 /\ state.phase \in 1 .. 4
    BY <1>4, <1>5 DEF Feds, TlsTyped, States
  <2>2. ready => state.phase >= 3  BY <1>1 DEF InTurn
  <2>3. ready' => ready \/ fd.phase = 3  BY <1>1
  <2>. QED  BY <1>5, <2>1, <2>2, <2>3
<1>12. (outbox.sending # <<>> => ready)'  BY <1>1, <1>10 DEF InTurn
<1>13. (\E m \in Nat : Gone(outbox, m))'
  <2>3. PICK m \in Nat : Gone(outbox, m)  BY <1>1 DEF InTurn
  <2>4. CASE k = 0
    <3>1. z = <<>>
      <4>1. PICK e \in Nat : e = 2 * outbox.made  BY <1>6
      <4>2. Between(e, e) = <<>>  BY BetweenIs
      <4>3. 2 * (outbox.made + 0) = 2 * outbox.made  BY <1>6
      <4>. QED  BY <2>4, <4>1, <4>2, <4>3
    <3>2. outbox' = outbox
      <4>1. PICK e \in Nat : e = outbox.made /\ e + 0 = e  BY <1>6
      <4>2. Made(outbox, k) = [outbox EXCEPT !.made = e]  BY <2>4, <4>1 DEF Made
      <4>3. outbox' = [outbox EXCEPT !.made = e, !.reply = <<>>]  BY <1>1, <3>1, <4>2
      <4> HIDE DEF z
      <4>. QED  BY <1>1, <1>6, <4>1, <4>3 DEF Boxes
    <3>3. Gone(outbox, m)'  BY <2>3, <3>2 DEF Gone
    <3>. QED  BY <3>3
  <2>5. CASE k # 0
    <3>1. state.phase <= 2  BY <1>5, <1>6, <2>5
    <3>2. ~ready /\ outbox.sending = <<>>
      <4>1. state.phase \in 1 .. 4  BY DEF TlsTyped, States
      <4>. QED  BY <1>1, <3>1, <4>1 DEF InTurn
    <3>3. Gone([Made(outbox, k) EXCEPT !.reply = z], m)  BY <1>1, <1>6, <2>3, <3>2, MakeMore
    <3>4. Gone(outbox, m)'
      <4>1. PICK b : b = [Made(outbox, k) EXCEPT !.reply = z]  OBVIOUS
      <4>2. outbox' = b /\ Gone(b, m)  BY <1>1, <3>3, <4>1
      <4>. QED  BY <4>2 DEF Gone
    <3>. QED  BY <3>4
  <2>. QED  BY <2>4, <2>5
<1>14. InTurn'  BY <1>1, <1>11, <1>12, <1>13 DEF InTurn
<1>. QED  BY <1>2, <1>9, <1>14

\* A read of a one-shot: what it answers is written as far as one write goes.
LEMMA OneShotStep ==
    ASSUME TlsInv, NEW n \in Nat, RequestRead(n) \/ ServeRead(n)
    PROVE  TlsInv'
<1> USE DEF TlsInv
<1> DEFINE q == Pumped(n)
           k == q.fed.sends
           z == Between(2 * outbox.made, 2 * (outbox.made + k))
<1>1. /\ role # "stream" /\ CanPump(n) /\ Took(n, q) /\ UNCHANGED <<role, peer, writes, socket>>
      /\ stage' \in {"done", "read", "thrown"} /\ ready' \in BOOLEAN
      /\ \E box \in WriteOnce(Made(outbox, k), z) :
           outbox' \in WriteOnce(Made(box, 1), Record(box.made + 1)) \/ outbox' = box
  <2>1. CASE RequestRead(n)
    <3> DEFINE asks == ~q.fed.failed /\ ~Trapped(q) /\ q.fed.phase = 3 /\ ~ready
    <3>1. /\ role # "stream" /\ CanPump(n) /\ Took(n, q) /\ UNCHANGED <<role, peer, writes, socket>>
          /\ ready' = (ready \/ asks)
          /\ \E box \in WriteOnce(Made(outbox, k), z) :
               outbox' \in IF asks THEN WriteOnce(Made(box, 1), Record(box.made + 1)) ELSE {box}
      BY <2>1 DEF RequestRead, MadeCells
    <3>2. stage' \in {"done", "read", "thrown"}  BY <2>1 DEF RequestRead
    <3>3. ready' \in BOOLEAN  BY <3>1 DEF TlsTyped
    <3> HIDE DEF asks, k, z, q
    <3>. QED  BY <3>1, <3>2, <3>3
  <2>2. CASE ServeRead(n)
    <3> DEFINE answers == q.fed.app # <<>> /\ q.fed.phase = 3
    <3>1. /\ role # "stream" /\ CanPump(n) /\ Took(n, q) /\ UNCHANGED <<role, peer, writes, socket>>
          /\ ready' = answers
          /\ \E box \in WriteOnce(Made(outbox, k), z) :
               outbox' \in IF answers THEN WriteOnce(Made(box, 1), Record(box.made + 1)) ELSE {box}
      BY <2>2 DEF ServeRead, MadeCells
    <3>2. stage' \in {"done", "read", "thrown"}  BY <2>2 DEF ServeRead
    <3>3. ready' \in BOOLEAN  BY <3>1
    <3> HIDE DEF answers, k, z, q
    <3>. QED  BY <3>1, <3>2, <3>3
  <2>. QED  BY <2>1, <2>2
<1>2. WholeFed' /\ state' \in States
      /\ inbox' \in Inboxes
  BY <1>1, TookStep
<1>3. k \in Nat
  <2>1. FedTo(q.fed, (inbox.read + n) \div 2)  BY <1>1, PumpFeeds
  <2>. QED  BY <2>1 DEF FedTo, Feds
<1>4. outbox \in Boxes /\ outbox.made \in Nat  BY DEF TlsTyped, Boxes
<1>5. z \in Seq(Halves)
  <2>1. PICK e \in Nat : e = outbox.made  BY <1>4
  <2>2. \A m \in Nat : Between(2 * e, 2 * (e + m)) \in Seq(Halves)  BY RecordIs
  <2>. QED  BY <1>3, <2>1, <2>2
<1> HIDE DEF q, z
<1>6. outbox' \in Boxes
  <2>1. PICK b \in Boxes : b = Made(outbox, k)  BY <1>3, <1>4, BoxMoves
  <2>2. PICK box \in WriteOnce(b, z) :
          outbox' \in WriteOnce(Made(box, 1), Record(box.made + 1)) \/ outbox' = box
    BY <1>1, <2>1
  <2>3. box \in Boxes  BY <1>5, <2>1, WriteOnceTyped
  <2>4. PICK d \in Boxes : d = Made(box, 1)
    <3>1. PICK m \in Nat : m = 1  OBVIOUS
    <3>2. Made(box, m) \in Boxes  BY <2>3, BoxMoves
    <3>. QED  BY <3>1, <3>2
  <2>5. Record(box.made + 1) \in Seq(Halves)
    <3>1. PICK e \in Nat : e = box.made  BY <2>3 DEF Boxes
    <3>2. Record(e + 1) \in Seq(Halves)  BY RecordIs
    <3>. QED  BY <3>1, <3>2
  <2>6. CASE outbox' \in WriteOnce(Made(box, 1), Record(box.made + 1))
    BY <2>4, <2>5, <2>6, WriteOnceTyped
  <2>. QED  BY <2>2, <2>3, <2>6
<1>7. TlsTyped'
  <2>1. stage' \in {"connect", "hello", "read", "done", "thrown"}  BY <1>1
  <2>. QED  BY <1>1, <1>2, <1>6, <2>1 DEF TlsTyped, Boxes
<1>8. InTurn'
  <2>1. stage' \notin {"connect", "hello"} /\ role' # "stream"  BY <1>1
  <2>. QED  BY <2>1 DEF InTurn
<1>. QED  BY <1>2, <1>7, <1>8

\* init's ClientHello is the first that waits.
LEMMA HelloStep == ASSUME TlsInv, Hello PROVE TlsInv'
<1> USE DEF TlsInv
<1>1. /\ stage = "hello" /\ stage' = "read" /\ UNCHANGED <<role, peer, state, inbox, ready, writes, socket>>
      /\ ~ready /\ outbox = [made |-> 0, reply |-> <<>>, sending |-> <<>>, wire |-> <<>>]
  BY DEF Hello, InTurn
<1>2. PICK h \in Nat : h = 0  OBVIOUS
<1>3. /\ Record(h + 1) = Between(2 * h, 2 * (h + 1)) /\ Record(h + 1) \in Seq(Halves)
  BY RecordIs
<1>4. PICK x \in Seq(Halves) : x = Record(1) /\ x = Between(0, 2)  BY <1>2, <1>3
<1> DEFINE box == [made |-> 1, reply |-> <<>>, sending |-> <<>>, wire |-> <<>>]
<1>5. box \in Boxes /\ [outbox EXCEPT !.made = 1] = box  BY <1>1 DEF Boxes
<1> HIDE DEF box
<1>6. outbox' \in IF role = "stream" THEN {[box EXCEPT !.reply = x]} ELSE WriteOnce(box, x)
  BY <1>4, <1>5 DEF Hello
<1>7. outbox' \in Boxes
  <2>1. CASE role = "stream"
    <3>1. outbox' = [box EXCEPT !.reply = x]  BY <1>6, <2>1
    <3>. QED  BY <1>5, <3>1, BoxMoves
  <2>2. CASE role # "stream"
    <3>1. outbox' \in WriteOnce(box, x)  BY <1>6, <2>2
    <3>. QED  BY <1>5, <3>1, WriteOnceTyped
  <2>. QED  BY <2>1, <2>2
<1>8. TlsTyped'  BY <1>1, <1>7 DEF TlsTyped, Boxes
<1>9. WholeFed'
  <2>1. peer.arrived \in peer.arrived .. 2 * Len(peer.script)  BY DEF TlsTyped, WholeFed
  <2>. QED  BY <1>1, <2>1, FedKept
<1>10. InTurn'
  <2>1. CASE role = "stream"
    <3>1. outbox' = [made |-> 1, reply |-> x, sending |-> <<>>, wire |-> <<>>]
      BY <1>6, <2>1 DEF box
    <3>2. Between(0, 0) = <<>>  BY <1>2, BetweenIs
    <3>3. Gone(outbox, 0)'  BY <1>4, <3>1, <3>2 DEF Gone
    <3>4. outbox'.sending = <<>>  BY <3>1
    <3>5. (\E m \in Nat : Gone(outbox, m))'  BY <3>3
    <3>. QED  BY <1>1, <3>4, <3>5 DEF InTurn
  <2>2. CASE role # "stream"  BY <1>1, <2>2 DEF InTurn
  <2>. QED  BY <2>1, <2>2
<1>. QED  BY <1>8, <1>9, <1>10

\* #writeAll, for the reader and for the writer.
LEMMA WriteStep == ASSUME TlsInv, WriteReply \/ WriteOn PROVE TlsInv'
<1> USE DEF TlsInv
<1>1. /\ UNCHANGED <<role, peer, state, inbox, stage, ready, writes, socket>>
      /\ outbox.reply # <<>> \/ outbox.sending # <<>>
  BY DEF WriteReply, WriteOn
<1>2. outbox \in Boxes /\ outbox.wire \in Seq(Halves) /\ outbox.reply \in Seq(Halves)
      /\ outbox.sending \in Seq(Halves)
  BY DEF TlsTyped, Boxes
<1>3. ASSUME \/ \E n \in 1 .. Len(outbox.reply) :
                  outbox' = [outbox EXCEPT !.wire = @ \o SubSeq(outbox.reply, 1, n), !.reply = Left(@, n)]
             \/ \E n \in 1 .. Len(outbox.sending) :
                  outbox' = [outbox EXCEPT !.wire = @ \o SubSeq(outbox.sending, 1, n), !.sending = Left(@, n)]
      PROVE  /\ outbox' \in Boxes /\ (outbox'.sending # <<>> => outbox.sending # <<>>)
             /\ \A w : Gone(outbox, w) => (\E m \in Nat : Gone(outbox, m))'
  <2>1. ASSUME NEW n \in 1 .. Len(outbox.reply),
               outbox' = [outbox EXCEPT !.wire = @ \o SubSeq(outbox.reply, 1, n), !.reply = Left(@, n)]
        PROVE  /\ outbox' \in Boxes /\ outbox'.sending = outbox.sending
               /\ \A w : Gone(outbox, w) => (\E m \in Nat : Gone(outbox, m))'
    <3>1. PICK x \in Seq(Halves), y \in Seq(Halves) :
            x = outbox.wire \o SubSeq(outbox.reply, 1, n) /\ y = Left(outbox.reply, n)
      BY <1>2, Shortened
    <3>2. outbox' = [outbox EXCEPT !.wire = x, !.reply = y]  BY <2>1, <3>1
    <3>3. outbox' \in Boxes /\ outbox'.sending = outbox.sending  BY <1>2, <3>2 DEF Boxes
    <3>4. ASSUME NEW w, Gone(outbox, w) PROVE (\E m \in Nat : Gone(outbox, m))'
      <4>1. PICK b : b = [outbox EXCEPT !.wire = @ \o SubSeq(outbox.reply, 1, n), !.reply = Left(@, n)]
        OBVIOUS
      <4>2. PICK m : m = w + n  OBVIOUS
      <4>3. Gone(b, m)
        <5>1. n \in Nat  OBVIOUS
        <5>. QED  BY <1>2, <3>4, <4>1, <4>2, <5>1, GoOn
      <4>4. Gone(outbox, m)' /\ m \in Nat  BY <2>1, <4>1, <4>3 DEF Gone
      <4>. QED  BY <4>4
    <3>. QED  BY <3>3, <3>4
  <2>2. ASSUME NEW n \in 1 .. Len(outbox.sending),
               outbox' = [outbox EXCEPT !.wire = @ \o SubSeq(outbox.sending, 1, n), !.sending = Left(@, n)]
        PROVE  /\ outbox' \in Boxes /\ outbox.sending # <<>>
               /\ \A w : Gone(outbox, w) => (\E m \in Nat : Gone(outbox, m))'
    <3>1. PICK x \in Seq(Halves), y \in Seq(Halves) :
            x = outbox.wire \o SubSeq(outbox.sending, 1, n) /\ y = Left(outbox.sending, n)
      BY <1>2, Shortened
    <3>2. outbox' = [outbox EXCEPT !.wire = x, !.sending = y]  BY <2>2, <3>1
    <3>3. outbox' \in Boxes  BY <1>2, <3>2 DEF Boxes
    <3>4. ASSUME NEW w, Gone(outbox, w) PROVE (\E m \in Nat : Gone(outbox, m))'
      <4>1. PICK b : b = [outbox EXCEPT !.wire = @ \o SubSeq(outbox.sending, 1, n), !.sending = Left(@, n)]
        OBVIOUS
      <4>2. PICK m : m = w + n  OBVIOUS
      <4>3. Gone(b, m)
        <5>1. n \in Nat  OBVIOUS
        <5>. QED  BY <1>2, <3>4, <4>1, <4>2, <5>1, GoOn
      <4>4. Gone(outbox, m)' /\ m \in Nat  BY <2>2, <4>1, <4>3 DEF Gone
      <4>. QED  BY <4>4
    <3>5. outbox.sending # <<>>  OBVIOUS
    <3>. QED  BY <3>3, <3>4, <3>5
  <2>. QED  BY <1>3, <2>1, <2>2
<1>4. /\ outbox' \in Boxes /\ (outbox'.sending # <<>> => outbox.sending # <<>>)
      /\ \A w : Gone(outbox, w) => (\E m \in Nat : Gone(outbox, m))'
  <2>1. CASE WriteReply  BY <1>3, <2>1 DEF WriteReply
  <2>2. CASE WriteOn  BY <1>3, <2>2 DEF WriteOn
  <2>. QED  BY <2>1, <2>2
<1>5. TlsTyped'  BY <1>1, <1>4 DEF TlsTyped, Boxes
<1>6. WholeFed'
  <2>1. peer.arrived \in peer.arrived .. 2 * Len(peer.script)  BY DEF TlsTyped, WholeFed
  <2>. QED  BY <1>1, <2>1, FedKept
<1>7. stage \notin {"connect", "hello"}
  <2>1. SUFFICES ASSUME stage \in {"connect", "hello"} PROVE FALSE  OBVIOUS
  <2>2. outbox = [made |-> 0, reply |-> <<>>, sending |-> <<>>, wire |-> <<>>]  BY <2>1 DEF InTurn
  <2>. QED  BY <1>1, <2>2
<1>8. InTurn'  BY <1>1, <1>4, <1>7 DEF InTurn
<1>. QED  BY <1>5, <1>6, <1>8

\* write makes a record that waits behind what has gone.
LEMMA StreamWriteStep == ASSUME TlsInv, StreamWrite PROVE TlsInv'
<1> USE DEF TlsInv
<1>1. /\ role = "stream" /\ ready /\ socket = "open" /\ outbox.reply = <<>> /\ outbox.sending = <<>>
      /\ writes < MaxWrites /\ writes' = writes + 1 /\ state.phase = 3
      /\ UNCHANGED <<role, peer, state, inbox, stage, ready, socket>>
      /\ outbox' = [Made(outbox, 1) EXCEPT !.sending = Record(outbox.made + 1)]
  BY DEF StreamWrite
<1>2. outbox \in Boxes /\ outbox.made \in Nat  BY DEF TlsTyped, Boxes
<1>3. PICK one \in Nat : one = 1  OBVIOUS
<1>4. Record(outbox.made + 1) = Between(2 * outbox.made, 2 * (outbox.made + one))
      /\ Record(outbox.made + 1) \in Seq(Halves)
  <2>1. PICK e \in Nat : e = outbox.made  BY <1>2
  <2>2. Record(e + 1) = Between(2 * e, 2 * (e + 1)) /\ Record(e + 1) \in Seq(Halves)  BY RecordIs
  <2>. QED  BY <1>3, <2>1, <2>2
<1>5. outbox' \in Boxes
  <2>1. PICK b \in Boxes : b = Made(outbox, one)  BY <1>2, BoxMoves
  <2>2. PICK x \in Seq(Halves) : x = Record(outbox.made + 1)  BY <1>4
  <2>3. outbox' = [b EXCEPT !.sending = x]  BY <1>1, <1>3, <2>1, <2>2
  <2>. QED  BY <2>3, BoxMoves
<1>6. TlsTyped'
  <2>1. writes' \in 0 .. MaxWrites  BY <1>1, TlsAssumption DEF TlsTyped
  <2>. QED  BY <1>1, <1>5, <2>1 DEF TlsTyped, Boxes
<1>7. WholeFed'
  <2>1. peer.arrived \in peer.arrived .. 2 * Len(peer.script)  BY DEF TlsTyped, WholeFed
  <2>. QED  BY <1>1, <2>1, FedKept
<1>8. InTurn'
  <2>1. stage \notin {"connect", "hello"}  BY <1>1 DEF InTurn
  <2>2. (\E m \in Nat : Gone(outbox, m))'
    <3>1. PICK m \in Nat : Gone(outbox, m)  BY <1>1 DEF InTurn
    <3>2. PICK b : b = [Made(outbox, one) EXCEPT !.sending = Between(2 * outbox.made, 2 * (outbox.made + one))]
      OBVIOUS
    <3>3. Gone(b, m)  BY <1>1, <1>2, <3>1, <3>2, MakeMore
    <3>4. outbox' = b  BY <1>1, <1>3, <1>4, <3>2
    <3>5. Gone(outbox, m)'  BY <3>3, <3>4 DEF Gone
    <3>. QED  BY <3>5
  <2>. QED  BY <1>1, <2>1, <2>2 DEF InTurn
<1>. QED  BY <1>6, <1>7, <1>8

\* close: the notice may go or not, and nothing is read after it.
LEMMA StreamCloseStep == ASSUME TlsInv, StreamClose PROVE TlsInv'
<1> USE DEF TlsInv
<1>1. /\ role = "stream" /\ ready /\ socket' = "closed" /\ outbox.sending = <<>>
      /\ state' = [state EXCEPT !.phase = 4]
      /\ UNCHANGED <<role, peer, inbox, stage, ready, writes>>
  BY DEF StreamClose
<1>2. PICK n \in 0 .. 2 :
        outbox' = IF state.phase = 4 THEN outbox
                  ELSE [Made(outbox, 1) EXCEPT !.wire = @ \o SubSeq(Record(outbox.made + 1), 1, n)]
  BY DEF StreamClose
<1>3. outbox \in Boxes /\ outbox.made \in Nat  BY DEF TlsTyped, Boxes
<1>4. outbox' \in Boxes /\ outbox'.sending = <<>>
  <2>1. CASE state.phase = 4  BY <1>1, <1>2, <1>3, <2>1
  <2>2. CASE state.phase # 4
    <3>1. PICK b \in Boxes : b = Made(outbox, 1) /\ b.sending = <<>>
      <4>1. PICK one \in Nat : one = 1  OBVIOUS
      <4>2. Made(outbox, one) \in Boxes  BY <1>3, BoxMoves
      <4>3. Made(outbox, 1).sending = <<>>  BY <1>1, <1>3 DEF Made, Boxes
      <4>. QED  BY <4>1, <4>2, <4>3
    <3>2. PICK e \in Nat : e = outbox.made  BY <1>3
    <3>3. PICK r \in Seq(Halves) : r = Record(e + 1) /\ Len(r) = 2  BY RecordIs
    <3>4. SubSeq(r, 1, n) \in Seq(Halves)  BY <3>3
    <3>5. PICK x \in Seq(Halves) : x = b.wire \o SubSeq(r, 1, n)
      <4>1. b.wire \in Seq(Halves)  BY <3>1 DEF Boxes
      <4>. QED  BY <3>4, <4>1, ConcatProperties
    <3>6. outbox' = [b EXCEPT !.wire = x]  BY <1>2, <2>2, <3>1, <3>2, <3>3, <3>5
    <3>. QED  BY <3>1, <3>6 DEF Boxes
  <2>. QED  BY <2>1, <2>2
<1>5. state' \in States /\ state'.phase = 4 /\ state'.last = state.last
  <2>1. 4 \in 1 .. 4  OBVIOUS
  <2>. QED  BY <1>1, <2>1 DEF TlsTyped, States
<1>6. TlsTyped'  BY <1>1, <1>4, <1>5 DEF TlsTyped, Boxes
<1>7. WholeFed'
  <2>1. PlainIsWhatArrived'
    <3>1. DataTo(state.last)' = DataTo(state.last)  BY <1>1, <1>5 DEF DataTo
    <3>. QED  BY <1>1, <1>5, <3>1 DEF WholeFed, PlainIsWhatArrived, ListsInOrder
  <2>. QED  BY <1>1, <1>5, <2>1 DEF WholeFed
<1>8. InTurn'
  <2>1. stage \notin {"connect", "hello"}  BY <1>1 DEF InTurn
  <2>. QED  BY <1>1, <1>4, <1>5, <2>1 DEF InTurn
<1>. QED  BY <1>6, <1>7, <1>8

\* read hands out what is decrypted already.
LEMMA ReadPlainStep == ASSUME TlsInv, ReadPlain PROVE TlsInv'
<1> USE DEF TlsInv
<1>1. /\ inbox.plain # <<>>
      /\ inbox' = [inbox EXCEPT !.out = Append(@, Head(inbox.plain)), !.plain = Tail(@)]
      /\ UNCHANGED <<role, peer, state, outbox, stage, ready, writes, socket>>
  BY DEF ReadPlain
<1>2. PICK S : S = Nat  OBVIOUS
<1>3. PICK o \in Seq(S), l \in Seq(S) : o = inbox.out /\ l = inbox.plain  BY <1>2 DEF TlsTyped, Inboxes
<1>4. Append(o, Head(l)) \in Seq(S) /\ Tail(l) \in Seq(S) /\ Append(o, Head(l)) \o Tail(l) = o \o l
  <2>1. l # <<>> /\ Head(l) \in S /\ Tail(l) \in Seq(S)  BY <1>1, <1>3
  <2>2. PICK h \in S, m \in Seq(S) : h = Head(l) /\ m = Tail(l)  BY <2>1
  <2>3. l = <<h>> \o m  BY <2>1, <2>2
  <2>4. Append(o, h) = o \o <<h>> /\ <<h>> \in Seq(S) /\ Append(o, h) \in Seq(S)  OBVIOUS
  <2>5. PICK v \in Seq(S) : v = <<h>>  BY <2>4
  <2>6. (o \o v) \o m = o \o (v \o m)  BY JoinedInTurn
  <2>. QED  BY <2>2, <2>3, <2>4, <2>5, <2>6
<1>5. PICK x \in Seq(S), y \in Seq(S) : x = Append(o, Head(l)) /\ y = Tail(l) /\ x \o y = o \o l  BY <1>4
<1>6. inbox' = [inbox EXCEPT !.out = x, !.plain = y]  BY <1>1, <1>3, <1>5
<1>7. /\ inbox' \in Inboxes
      /\ inbox'.read = inbox.read /\ inbox'.raw = inbox.raw /\ inbox'.out = x /\ inbox'.plain = y
  BY <1>2, <1>6 DEF TlsTyped, Inboxes
<1>b. inbox'.lost <=> inbox.lost  BY <1>2, <1>6 DEF TlsTyped, Inboxes
<1>8. TlsTyped'  BY <1>1, <1>7 DEF TlsTyped
<1>9. WholeFed'
  <2>1. PlainIsWhatArrived'
    <3>1. inbox'.out \o inbox'.plain = inbox.out \o inbox.plain  BY <1>3, <1>5, <1>7
    <3>2. DataTo(state.last)' = DataTo(state.last)  BY <1>1 DEF DataTo
    <3>3. ListsInOrder(inbox.out \o inbox.plain, DataTo(state.last))'
      BY <3>1, <3>2 DEF WholeFed, PlainIsWhatArrived, ListsInOrder
    <3>4. inbox'.read = inbox.read /\ state' = state /\ peer' = peer  BY <1>1, <1>7
    <3>. QED  BY <1>b, <3>3, <3>4 DEF WholeFed, PlainIsWhatArrived
  <2>. QED  BY <1>1, <1>7, <2>1 DEF WholeFed
<1>10. InTurn'
  <2>1. stage' = "connect" => socket' = "none"  BY <1>1 DEF InTurn
  <2>. QED  BY <1>1, <2>1, TurnKept
<1>. QED  BY <1>8, <1>9, <1>10

\* The other steps touch neither box.
LEMMA OtherStep ==
    ASSUME TlsInv,
           \/ PeerSends \/ PeerEnds \/ OpenStream \/ NewConnection \/ PumpEnds \/ ReadAgain \/ ReadClosed
           \/ CloseFinally \/ UNCHANGED tlsVars
    PROVE  TlsInv'
<1> USE DEF TlsInv
<1>1. /\ UNCHANGED <<role, state, inbox, outbox, ready, writes>>
      /\ socket' \in {"none", "open", "closed"} /\ (socket = "closed" => socket' = "closed")
      /\ stage' \in {"connect", "hello", "read", "done", "thrown"}
      /\ stage' \in {"connect", "hello"} => stage \in {"connect", "hello"}
      /\ stage' = "connect" => socket' = "none"
  <2>0. stage = "connect" => socket = "none"  BY DEF InTurn
  <2>1. CASE PeerSends  BY <2>0, <2>1 DEF PeerSends, TlsTyped
  <2>2. CASE PeerEnds  BY <2>0, <2>2 DEF PeerEnds, TlsTyped
  <2>3. CASE OpenStream
    <3>1. socket # "closed"  BY <2>3 DEF OpenStream, InTurn
    <3>. QED  BY <2>3, <3>1 DEF OpenStream, TlsTyped
  <2>4. CASE NewConnection
    <3>1. socket # "closed"  BY <2>4 DEF NewConnection, InTurn
    <3>. QED  BY <2>4, <3>1 DEF NewConnection, TlsTyped
  <2>5. CASE PumpEnds  BY <2>0, <2>5 DEF PumpEnds, TlsTyped
  <2>6. CASE ReadClosed  BY <2>0, <2>6 DEF ReadClosed, TlsTyped
  <2>7. CASE CloseFinally  BY <2>0, <2>7 DEF CloseFinally, TlsTyped
  <2>8. CASE UNCHANGED tlsVars  BY <2>0, <2>8 DEF tlsVars, TlsTyped
  <2>9. CASE ReadAgain  BY <2>0, <2>9 DEF ReadAgain, TlsTyped
  <2>. QED  BY <2>1, <2>2, <2>3, <2>4, <2>5, <2>6, <2>7, <2>8, <2>9
<1>2. /\ peer' \in [script : Scripts, arrived : Nat, ended : BOOLEAN] /\ peer'.script = peer.script
      /\ peer'.arrived \in peer.arrived .. 2 * Len(peer.script)
  <2>0. /\ peer \in [script : Scripts, arrived : Nat, ended : BOOLEAN]
        /\ peer.arrived \in Nat /\ Len(peer.script) \in Nat /\ peer.arrived <= 2 * Len(peer.script)
    BY DEF TlsTyped, WholeFed
  <2>1. CASE PeerSends
    <3>1. PICK m \in Nat : m = peer.arrived + 1 /\ m <= 2 * Len(peer.script) /\ m >= peer.arrived
      BY <2>0, <2>1 DEF PeerSends
    <3>2. peer' = [peer EXCEPT !.arrived = m]  BY <2>1, <3>1 DEF PeerSends
    <3>3. /\ peer' \in [script : Scripts, arrived : Nat, ended : BOOLEAN] /\ peer'.script = peer.script
          /\ peer'.arrived = m
      BY <2>0, <3>2
    <3>. QED  BY <2>0, <3>1, <3>3
  <2>2. CASE PeerEnds
    <3>1. peer' = [peer EXCEPT !.ended = TRUE]  BY <2>2 DEF PeerEnds
    <3>2. /\ peer' \in [script : Scripts, arrived : Nat, ended : BOOLEAN] /\ peer'.script = peer.script
          /\ peer'.arrived = peer.arrived
      BY <2>0, <3>1
    <3>. QED  BY <2>0, <3>2
  <2>3. CASE UNCHANGED peer  BY <2>0, <2>3
  <2>. QED  BY <2>1, <2>2, <2>3
       DEF OpenStream, NewConnection, PumpEnds, ReadAgain, ReadClosed, CloseFinally, tlsVars
<1>3. TlsTyped'  BY <1>1, <1>2 DEF TlsTyped
<1>4. WholeFed'  BY <1>1, <1>2, FedKept
<1>5. InTurn'  BY <1>1, TurnKept
<1>. QED  BY <1>3, <1>4, <1>5

LEMMA TlsBegins == ASSUME TlsInit PROVE TlsInv
<1>1. PICK h \in Nat : h = 0  OBVIOUS
<1>2. Between(h, h) = <<>>  BY BetweenIs
<1>3. TlsTyped
  <2>1. peer \in [script : Scripts, arrived : Nat, ended : BOOLEAN]
    <3>1. peer \in [script : Scripts, arrived : {0}, ended : {FALSE}]  BY DEF TlsInit
    <3>2. {0} \subseteq Nat /\ {FALSE} \subseteq BOOLEAN  OBVIOUS
    <3>. QED  BY <3>1, <3>2
  <2>2. state \in States
    <3>1. 1 \in 1 .. 4  OBVIOUS
    <3>. QED  BY <3>1 DEF TlsInit, States
  <2>3. <<>> \in Seq(Halves) /\ <<>> \in Seq(Nat)  OBVIOUS
  <2>4. inbox \in Inboxes  BY <2>3 DEF TlsInit, Inboxes
  <2>5. outbox \in [made : Nat, reply : Seq(Halves), sending : Seq(Halves), wire : Seq(Halves)]
    BY <2>3 DEF TlsInit
  <2>6. ready \in BOOLEAN /\ writes \in 0 .. MaxWrites
    <3>1. ready \in BOOLEAN  BY Zenon DEF TlsInit
    <3>2. writes = 0 /\ MaxWrites \in Nat  BY TlsAssumption DEF TlsInit
    <3>3. writes \in 0 .. MaxWrites  BY <3>2
    <3>. QED  BY <3>1, <3>3
  <2>. QED  BY <2>1, <2>2, <2>4, <2>5, <2>6 DEF TlsInit, TlsTyped
<1>4. WholeFed
  <2>1. /\ Len(peer.script) \in Nat /\ peer.arrived = 0 /\ inbox.read = 0 /\ inbox.raw = <<>>
        /\ inbox.out = <<>> /\ inbox.plain = <<>> /\ state.phase = 1
    BY TlsAssumption DEF TlsInit
  <2>2. 0 \div 2 = 0 /\ 2 * (0 \div 2) = 0  OBVIOUS
  <2>3. ~state.failed  BY DEF TlsInit
  <2>6. PlainIsWhatArrived
    <3>1. <<>> \o <<>> = <<>> /\ DOMAIN <<>> = {}  OBVIOUS
    <3>2. 1 .. 0 = {} /\ 0 + 1 .. 0 = {}  OBVIOUS
    <3>3. DataTo(0) = {}  BY <3>2 DEF DataTo
    <3>4. ListsInOrder(<<>>, {})  BY <3>1 DEF ListsInOrder
    <3>5. state.last = 0  BY DEF TlsInit
    <3>. QED  BY <2>1, <2>2, <3>1, <3>2, <3>3, <3>4, <3>5 DEF PlainIsWhatArrived
  <2>7. state.last <= 0  BY DEF TlsInit
  <2>. QED  BY <1>1, <1>2, <2>1, <2>2, <2>3, <2>6, <2>7 DEF WholeFed
<1>5. InTurn
  <2>1. Gone(outbox, h)  BY <1>1, <1>2 DEF TlsInit, Gone
  <2>. QED  BY <2>1 DEF TlsInit, InTurn
<1>. QED  BY <1>3, <1>4, <1>5 DEF TlsInv

LEMMA TlsStep == ASSUME TlsInv, [TlsNext]_tlsVars PROVE TlsInv'
<1>1. ASSUME NEW n \in 1 .. MaxRead, Pump(n) \/ RequestRead(n) \/ ServeRead(n) PROVE TlsInv'
  <2>1. n \in Nat  BY TlsAssumption
  <2>. QED  BY <1>1, <2>1, PumpStep, OneShotStep
<1>. QED
  BY <1>1, OtherStep, HelloStep, WriteStep, ReadPlainStep, StreamWriteStep, StreamCloseStep DEF TlsNext

\* However the sockets cut what is read and what is written, however reads and writes of a stream
\* overlap, and whatever the peer sends, records that do not open and records behind a close
\* included: the data handed out and held is that of the records taken, each once and in order; none
\* that is whole is left out but after the end of the connection or a trap; and the records of an open
\* stream go out whole, in the order they were made (#pump, #writeAll, tlsClientFeed, tlsServerFeed).
THEOREM RecordsAreWhole == TlsSpec => []RecordsStayWhole
<1>1. ASSUME TlsInv PROVE RecordsStayWhole
  <2>0. TlsTyped /\ WholeFed /\ InTurn  BY <1>1 DEF TlsInv
  <2>1. TlsTypeOK
    <3>1. PICK a \in Nat : a = inbox.read  BY <2>0 DEF TlsTyped, Inboxes
    <3>2. Len(inbox.raw) <= a
      <4>1. 0 \in Nat /\ 2 * 0 <= a  OBVIOUS
      <4>2. PICK x \in Nat : x = 2 * (a \div 2) /\ x <= a  BY <4>1, HalfOf
      <4>3. Len(Between(x, a)) = a - x  BY <4>2, BetweenIs
      <4>. QED  BY <2>0, <3>1, <4>2, <4>3 DEF WholeFed
    <3>3. peer.script \in Scripts /\ peer.arrived \in Nat /\ state.phase \in 1 .. 4 /\ state.failed \in BOOLEAN
      BY <2>0 DEF TlsTyped, States
    <3>4. state.last \in 0 .. inbox.read \div 2 /\ inbox.lost \in BOOLEAN
      <4>1. state.last \in Nat /\ inbox.lost \in BOOLEAN  BY <2>0 DEF TlsTyped, States, Inboxes
      <4>2. a \div 2 \in Nat /\ state.last <= a \div 2  BY <2>0, <3>1 DEF WholeFed
      <4>. QED  BY <3>1, <4>1, <4>2
    <3>. QED  BY <2>0, <3>1, <3>2, <3>3, <3>4 DEF TlsTypeOK, TlsTyped, WholeFed
  <2>2. ASSUME role = "stream", socket = "open"
        PROVE  (outbox.wire \o outbox.reply) \o outbox.sending = Between(0, 2 * outbox.made)
    <3>1. PICK n \in Nat : Gone(outbox, n)  BY <2>0, <2>2 DEF InTurn
    <3>2. PICK m \in Nat, h \in Nat : m = 2 * outbox.made /\ h = 0  BY <2>0 DEF TlsTyped
    <3>3. n <= m /\ h <= n  BY <3>1, <3>2 DEF Gone
    <3>4. PICK x \in Seq(Halves), y \in Seq(Halves), z \in Seq(Halves) :
            x = Between(h, n) /\ y = Between(n, m) /\ z = Between(h, m)
      <4>1. Between(h, n) \in Seq(Halves) /\ Between(n, m) \in Seq(Halves)  BY <3>3, BetweenIs
      <4>2. h <= m  BY <3>2
      <4>3. Between(h, m) \in Seq(Halves)  BY <4>2, BetweenIs
      <4>. QED  BY <4>1, <4>3
    <3>5. x \o y = z  BY <3>3, <3>4, BetweenJoins
    <3>6. x \o <<>> = x /\ z \o <<>> = z  BY ConcatEmptySeq
    <3>7. CASE outbox.reply = Between(n, 2 * outbox.made) /\ outbox.sending = <<>>
      BY <3>1, <3>2, <3>4, <3>5, <3>6, <3>7 DEF Gone
    <3>8. CASE outbox.reply = <<>> /\ outbox.sending = Between(n, 2 * outbox.made)
      BY <3>1, <3>2, <3>4, <3>5, <3>6, <3>8 DEF Gone
    <3>. QED  BY <3>1, <3>7, <3>8 DEF Gone
  <2>. QED  BY <2>0, <2>1, <2>2 DEF RecordsStayWhole, WireIsWhole, WholeFed
<1>2. TlsInit => TlsInv  BY TlsBegins
<1>3. TlsInv /\ [TlsNext]_tlsVars => TlsInv'  BY TlsStep
<1>. QED  BY <1>1, <1>2, <1>3, PTL DEF TlsSpec
=============================================================================

------------------------------- MODULE Stream -------------------------------
(***************************************************************************)
(* packages/stream/host: a wac transform run on a worker as a readable and *)
(* writable pair.  Two byte rings in shared memory (layout.ts): the main   *)
(* thread's feed() fills the input ring and its pull() empties the output  *)
(* ring (bridge.ts); the worker's read() and write() are the other ends    *)
(* (worker.ts).  The transform is src/transform.wac's passthrough.         *)
(*                                                                         *)
(* One step is one shared access another thread can tell apart.  The event *)
(* counters IN_SEQ and OUT_SEQ have one waiter each and are kept as "bumped *)
(* since its load": inMoved, outMoved.  Byte number k of the input is the   *)
(* number k.                                                               *)
(***************************************************************************)
EXTENDS Integers, Sequences

CONSTANTS
    CAP,         \* bytes per ring
    WIDTH,       \* values an Int32Array element can hold: 2^32 in the code
    MaxBytes,    \* bound: bytes the producer writes in all
    MaxChunk     \* bound: bytes in one chunk, larger than CAP too

ASSUME SizesAssumption ==
    /\ CAP \in Nat \ {0} /\ MaxBytes \in Nat /\ MaxChunk \in Nat
    /\ WIDTH \in Nat \ {0} /\ WIDTH % 2 = 0

VARIABLES
    inHead, inTail, inEof, inErr, inMem, inMoved,
    outHead, outTail, outDone, outStatus, outMem, outMoved,
    p, fed,          \* feed's registers; bytes it has put in the ring
    t, taken, put,   \* the worker's registers; bytes read and written by it
    c, got           \* where pull is; what it has enqueued

inRing == <<inHead, inTail, inEof, inErr, inMem, inMoved>>
outRing == <<outHead, outTail, outDone, outStatus, outMem, outMoved>>
streamVars == <<inRing, outRing, p, fed, t, taken, put, c, got>>

Int32(x) == ((x + WIDTH \div 2) % WIDTH) - WIDTH \div 2

Cells == 0 .. CAP - 1
Bytes == 1 .. MaxBytes
SmallerOf(a, b) == IF a < b THEN a ELSE b

\* ringWrite: src into the ring from position head, wrapping.
RingWrite(ring, head, src) ==
    [k \in Cells |-> LET i == ((k - head) % CAP) + 1 IN
                     IF i <= Len(src) THEN src[i] ELSE ring[k]]

\* ringRead: n bytes from position tail, wrapping.
RingRead(ring, tail, n) == [i \in 1 .. n |-> ring[(tail + i - 1) % CAP]]

RoomOneMore(head, tail) == CAP + 1 - (head - tail)     \* mutant
Room(head, tail) == CAP - (head - tail)

StreamInit ==
    /\ inHead = 0 /\ inTail = 0 /\ inEof = FALSE /\ inErr = FALSE
    /\ outHead = 0 /\ outTail = 0 /\ outDone = FALSE /\ outStatus = "running"
    /\ inMem = [k \in Cells |-> 0] /\ outMem = [k \in Cells |-> 0]
    /\ inMoved = FALSE /\ outMoved = FALSE
    /\ p = [pc |-> "open", left |-> 0, tail |-> 0] /\ fed = 0
    /\ t = [pc |-> "seq", buf |-> <<>>, tail |-> 0, status |-> "running"]
    /\ taken = 0 /\ put = 0
    /\ c = "seq" /\ got = <<>>

-----------------------------------------------------------------------------
(* The producer: the writable's write, close and abort *)

WriteChunk(n) ==
    /\ p.pc = "open" /\ fed + n <= MaxBytes
    /\ p' = [p EXCEPT !.pc = "feed", !.left = n]
    /\ UNCHANGED <<inRing, outRing, fed, t, taken, put, c, got>>

\* feed loads both counters; with no room it waits for IN_TAIL to move.
FeedLoad ==
    /\ p.pc = "feed"
    /\ p' = [p EXCEPT !.tail = inTail,
                      !.pc = IF Room(inHead, inTail) = 0 THEN "full" ELSE "copy"]
    /\ UNCHANGED <<inRing, outRing, fed, t, taken, put, c, got>>
FeedWake ==
    /\ p.pc = "full" /\ inTail # p.tail
    /\ p' = [p EXCEPT !.pc = "feed"]
    /\ UNCHANGED <<inRing, outRing, fed, t, taken, put, c, got>>
FeedCopy ==
    /\ p.pc = "copy"
    /\ LET n == SmallerOf(Room(inHead, p.tail), p.left) IN
       /\ inMem' = RingWrite(inMem, inHead, [i \in 1 .. n |-> fed + i])
       /\ inHead' = Int32(inHead + n)
       /\ fed' = fed + n
       /\ p' = [pc |-> IF p.left = n THEN "open" ELSE "feed",
                left |-> p.left - n, tail |-> 0]
    /\ inMoved' = TRUE
    /\ UNCHANGED <<inTail, inEof, inErr, outRing, t, taken, put, c, got>>

CloseSilent ==      \* mutant: no signal
    /\ p.pc = "open" /\ inEof' = TRUE
    /\ p' = [p EXCEPT !.pc = "closed"]
    /\ UNCHANGED <<inHead, inTail, inErr, inMem, inMoved, outRing, fed, t, taken,
                   put, c, got>>
Close ==
    /\ p.pc = "open"
    /\ inEof' = TRUE /\ inMoved' = TRUE
    /\ p' = [p EXCEPT !.pc = "closed"]
    /\ UNCHANGED <<inHead, inTail, inErr, inMem, outRing, fed, t, taken, put, c, got>>

\* abort, in two stores: IN_ERR, then IN_EOF and the signal.
Abort ==
    /\ p.pc = "open"
    /\ inErr' = TRUE
    /\ p' = [p EXCEPT !.pc = "aborting"]
    /\ UNCHANGED <<inHead, inTail, inEof, inMem, inMoved, outRing, fed, t, taken,
                   put, c, got>>
AbortEof ==
    /\ p.pc = "aborting"
    /\ inEof' = TRUE /\ inMoved' = TRUE
    /\ p' = [p EXCEPT !.pc = "aborted"]
    /\ UNCHANGED <<inHead, inTail, inErr, inMem, outRing, fed, t, taken, put, c, got>>

-----------------------------------------------------------------------------
(* The worker: read *)

ReadSeq ==
    /\ t.pc = "seq"
    /\ inMoved' = FALSE
    /\ t' = [t EXCEPT !.pc = "head"]
    /\ UNCHANGED <<inHead, inTail, inEof, inErr, inMem, outRing, p, fed, taken, put,
                   c, got>>

\* IN_HEAD is loaded; what is there is copied out and IN_TAIL stored.
ReadData ==
    /\ t.pc = "head" /\ inHead - inTail > 0
    /\ LET n == inHead - inTail IN
       /\ t' = [t EXCEPT !.pc = "write", !.buf = RingRead(inMem, inTail, n)]
       /\ inTail' = Int32(inTail + n)
       /\ taken' = taken + n
    /\ UNCHANGED <<inHead, inEof, inErr, inMem, inMoved, outRing, p, fed, put, c, got>>
ReadNothing ==
    /\ t.pc = "head" /\ ~(inHead - inTail > 0)
    /\ t' = [t EXCEPT !.pc = "err"]
    /\ UNCHANGED <<inRing, outRing, p, fed, taken, put, c, got>>

\* Then IN_ERR, then IN_EOF, each in a load of its own, then the wait.
ReadErr ==
    /\ t.pc = "err"
    /\ t' = IF inErr THEN [t EXCEPT !.pc = "status", !.status = "failed"]
            ELSE [t EXCEPT !.pc = "eof"]
    /\ UNCHANGED <<inRing, outRing, p, fed, taken, put, c, got>>
ReadEof ==
    /\ t.pc = "eof"
    /\ t' = IF inEof THEN [t EXCEPT !.pc = "status", !.status = "ok"]
            ELSE [t EXCEPT !.pc = "sleep"]
    /\ UNCHANGED <<inRing, outRing, p, fed, taken, put, c, got>>
ReadWake ==
    /\ t.pc = "sleep" /\ inMoved
    /\ t' = [t EXCEPT !.pc = "seq"]
    /\ UNCHANGED <<inRing, outRing, p, fed, taken, put, c, got>>

(* The worker: write, and the end of the transform *)

WriteLoad ==
    /\ t.pc = "write"
    /\ t' = [t EXCEPT !.tail = outTail,
                      !.pc = IF Room(outHead, outTail) = 0 THEN "full" ELSE "copy"]
    /\ UNCHANGED <<inRing, outRing, p, fed, taken, put, c, got>>
WriteWake ==
    /\ t.pc = "full" /\ outTail # t.tail
    /\ t' = [t EXCEPT !.pc = "write"]
    /\ UNCHANGED <<inRing, outRing, p, fed, taken, put, c, got>>
WriteCopy ==
    /\ t.pc = "copy"
    /\ LET n == SmallerOf(Room(outHead, t.tail), Len(t.buf)) IN
       /\ outMem' = RingWrite(outMem, outHead, SubSeq(t.buf, 1, n))
       /\ outHead' = Int32(outHead + n)
       /\ put' = put + n
       /\ t' = [t EXCEPT !.pc = IF n = Len(t.buf) THEN "seq" ELSE "write",
                         !.buf = SubSeq(t.buf, n + 1, Len(t.buf)), !.tail = 0]
    /\ outMoved' = TRUE
    /\ UNCHANGED <<inRing, outTail, outDone, outStatus, p, fed, taken, c, got>>

\* A trap in wac, wherever the transform's own code runs.
Trap ==
    /\ t.pc \in {"seq", "write"}
    /\ t' = [t EXCEPT !.pc = "status", !.status = "threw"]
    /\ UNCHANGED <<inRing, outRing, p, fed, taken, put, c, got>>

\* STATUS is stored, then OUT_DONE, and the consumer is told.
StoreStatus ==
    /\ t.pc = "status"
    /\ outStatus' = t.status
    /\ t' = [t EXCEPT !.pc = "done"]
    /\ UNCHANGED <<inRing, outHead, outTail, outDone, outMem, outMoved, p, fed,
                   taken, put, c, got>>
StoreDone ==
    /\ t.pc = "done"
    /\ outDone' = TRUE /\ outMoved' = TRUE
    /\ t' = [t EXCEPT !.pc = "returned"]
    /\ UNCHANGED <<inRing, outHead, outTail, outStatus, outMem, p, fed, taken, put,
                   c, got>>

-----------------------------------------------------------------------------
(* The consumer: the readable's pull and cancel *)

PullSeq ==
    /\ c = "seq"
    /\ outMoved' = FALSE
    /\ c' = "head"
    /\ UNCHANGED <<inRing, outHead, outTail, outDone, outStatus, outMem, p, fed, t,
                   taken, put, got>>
PullData ==
    /\ c = "head" /\ outHead > outTail
    /\ got' = got \o RingRead(outMem, outTail, outHead - outTail)
    /\ outTail' = outHead
    /\ c' = "seq"
    /\ UNCHANGED <<inRing, outHead, outDone, outStatus, outMem, outMoved, p, fed, t,
                   taken, put>>
PullNothing ==
    /\ c = "head" /\ ~(outHead > outTail)
    /\ c' = "done"
    /\ UNCHANGED <<inRing, outRing, p, fed, t, taken, put, got>>

Verdict == IF outStatus = "ok" THEN "closed" ELSE "error"

PullDone ==
    /\ c = "done"
    /\ c' = IF outDone THEN Verdict ELSE "sleep"
    /\ UNCHANGED <<inRing, outRing, p, fed, t, taken, put, got>>
PullWake ==
    /\ c = "sleep" /\ outMoved
    /\ c' = "seq"
    /\ UNCHANGED <<inRing, outRing, p, fed, t, taken, put, got>>

\* The consumer cancels: the worker is terminated where it stands.
Cancel ==
    /\ c \notin {"closed", "error", "cancelled"}
    /\ c' = "cancelled"
    /\ t' = [t EXCEPT !.pc = "terminated"]
    /\ UNCHANGED <<inRing, outRing, p, fed, taken, put, got>>

-----------------------------------------------------------------------------
Producer == FeedLoad \/ FeedWake \/ FeedCopy \/ AbortEof
Worker ==
    \/ ReadSeq \/ ReadData \/ ReadNothing \/ ReadErr \/ ReadEof \/ ReadWake
    \/ WriteLoad \/ WriteWake \/ WriteCopy \/ StoreStatus \/ StoreDone
Consumer == PullSeq \/ PullData \/ PullNothing \/ PullDone \/ PullWake
Outside ==
    \/ \E n \in 1 .. MaxChunk : WriteChunk(n)
    \/ Close \/ Abort \/ Trap \/ Cancel
StreamNext == Producer \/ Worker \/ Consumer \/ Outside

\* Both threads run and the consumer keeps reading; nobody need write, close,
\* abort or cancel.
StreamSpec == /\ StreamInit /\ [][StreamNext]_streamVars
        /\ WF_streamVars(Producer) /\ WF_streamVars(Worker) /\ WF_streamVars(Consumer)

-----------------------------------------------------------------------------
(* Properties *)

Counters == -(WIDTH \div 2) .. WIDTH \div 2 - 1

\* Every register and every word of shared memory holds a value of its kind.
StreamTypeOK ==
    /\ inHead \in Counters /\ inTail \in Counters
    /\ outHead \in Counters /\ outTail \in Counters
    /\ inEof \in BOOLEAN /\ inErr \in BOOLEAN /\ outDone \in BOOLEAN
    /\ inMoved \in BOOLEAN /\ outMoved \in BOOLEAN
    /\ outStatus \in {"running", "ok", "failed", "threw"}
    /\ inMem \in [Cells -> Nat] /\ outMem \in [Cells -> Nat]
    /\ p \in [pc : {"open", "feed", "full", "copy", "closed", "aborting", "aborted"},
              left : Nat, tail : Counters]
    /\ t \in [pc : {"seq", "head", "err", "eof", "sleep", "write", "full", "copy",
                    "status", "done", "returned", "terminated"},
              buf : Seq(Nat), tail : Counters,
              status : {"running", "ok", "failed", "threw"}]
    /\ c \in {"seq", "head", "done", "sleep", "closed", "error", "cancelled"}
    /\ fed \in Nat /\ taken \in Nat /\ put \in Nat /\ got \in Seq(Nat)

\* "head - tail is the amount available": the two counters of each ring tell
\* exactly how many bytes lie unread in it.
AvailableIsExact ==
    /\ inHead - inTail = fed - taken
    /\ outHead - outTail = put - Len(got)

\* No writer overwrites what its reader has not taken: every unread byte of each
\* ring is where the reader will look for it.
UnreadIntact ==
    /\ fed - taken <= CAP /\ put - Len(got) <= CAP
    /\ \A i \in taken + 1 .. fed : inMem[(i - 1) % CAP] = i
    /\ \A i \in Len(got) + 1 .. put : outMem[(i - 1) % CAP] = i

\* The consumer is handed the input's bytes in order, none twice, none skipped.
InOrder == \A i \in 1 .. Len(got) : got[i] = i

\* A consumer that stops reading stops the producer: what the two rings and the
\* transform's own chunk hold is all that is ever in flight.
BackPressure == fed - Len(got) <= 3 * CAP

\* The stream closes cleanly only for a transform that said so, and errors only
\* for one that failed.
VerdictIsTheTransforms ==
    /\ c = "closed" => t.status = "ok"
    /\ c = "error" => t.status \in {"failed", "threw"}

\* When the producer has closed or aborted, the consumer learns the end.
EndIsHeard == inEof ~> c \in {"closed", "error", "cancelled"}

\* A stream that closes cleanly carried the whole of an input that was closed and
\* not aborted: read's and pull's checks for the end never run ahead of the data.
CleanMeansWhole == c = "closed" => Len(got) = fed /\ ~inErr

\* The rings are sound: available is what is there, nothing unread is overwritten, bytes arrive in
\* order, what is in flight is bounded, and the end says what the transform said.
RingsAreSound ==
    StreamTypeOK /\ AvailableIsExact /\ UnreadIntact /\ InOrder /\ BackPressure /\ VerdictIsTheTransforms
=============================================================================

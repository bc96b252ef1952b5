---------------------------- MODULE BridgeProofs ----------------------------
(***************************************************************************)
(* For every number of slots, buffers and calls: the bridge's registers    *)
(* and shared words keep their types, and the request pool is exact.       *)
(*                                                                         *)
(* ReqPoolExact is not inductive.  That publish never attaches a buffer    *)
(* over another one needs to know that a slot in CLAIMED or READY has no   *)
(* request attached (RequestAttached), and that the slot the worker fills  *)
(* is in one of those states (WorkersSlot), which take's and failPending's *)
(* exchanges could spoil; both need to know where each thread is           *)
(* (WorkerAt, HostAt).  That a handler's answer is typed needs every       *)
(* request to name a call that was submitted (RequestsKnown).              *)
(*                                                                         *)
(* The second half is about the slots: whose they are, and the response    *)
(* buffers attached to them.  TInv is an invariant of every bridge:        *)
(* tickets are never shared, nobody holds a slot that is being given back, *)
(* and a slot in use is always somebody's (NoSlotStranded).  RInv holds    *)
(* while the responder has not gone and no call is cancelled before the    *)
(* host has taken it (Quiet): what the host is doing is at a slot that is  *)
(* in the state the code expects, and the response pool is exact.          *)
(* README.md says what happens to RInv outside of that.                    *)
(***************************************************************************)
EXTENDS Bridge, TLAPS, SequenceTheorems, WellFoundedInduction

Given == 1 .. Len(shape)    \* the calls submitted so far

\* What the worker's registers mean at each of its program points.
WorkerAt ==
    /\ w.pc = "idle" => w.fn = "none"
    /\ w.fn = "none" => w.pc = "idle"
    /\ w.pc \in {"claim", "reqbuf", "await", "waitAny"} => w.loop = w.pc
    /\ w.pc = "fill" => w.loop = "reqbuf" /\ w.buf \in Bufs
    /\ w.pc \in {"read", "handback", "decide"} => w.loop = "await"
    /\ w.pc = "cancel" <=> w.fn = "cancel"
    /\ w.pc = "claim" => w.slot \in Slots
    /\ w.loop = "claim" => w.fn = "submit"
    /\ w.loop = "reqbuf" => w.fn = "submit"
    /\ w.loop = "await" => w.fn \in {"submit", "collect"}
    /\ w.fn \in {"submit", "collect"} => w.loop \in {"claim", "reqbuf", "await"}
    /\ w.fn = "waitAny" => w.loop = "waitAny"
    /\ w.fn = "submit" => w.call \in Given
    /\ w.loop \in {"reqbuf", "await"} \/ w.fn = "cancel" => w.slot \in Slots

\* The same of the host's.
HostAt ==
    /\ h.pc \in {"sweep", "fail"} => h.ret = h.pc /\ h.slot # 0
    /\ h.pc = "taken" => h.ret = "sweep"
    /\ h.pc \in {"taken", "reply", "write", "publish"} => h.slot \in Slots
    /\ Len(shape) <= MaxCalls

\* What the state of a slot can be while one of the threads is busy with it.
WorkersSlot ==
    /\ w.loop = "reqbuf" => status[w.slot] \in {"CLAIMED", "READY"}
    /\ w.pc \in {"read", "handback", "decide"} => status[w.slot] = "READY"
    /\ h.pc = "taken" => status[h.slot] \in {"PENDING", "CANCELLED"}

\* A request is attached to a slot only from its publication until take, and until
\* then or in take's hands it is never empty.
RequestAttached ==
    /\ \A s \in Slots : reqBuf[s] # 0 => /\ status[s] \in {"PENDING", "CANCELLED"}
                                         /\ reqMem[reqBuf[s]] # <<>>
                                         /\ ~(h.pc = "taken" /\ h.slot = s)
    /\ \A s \in Slots : status[s] = "PENDING" /\ op[s] # "CONTINUE" =>
          \/ reqBuf[s] # 0
          \/ h.pc = "taken" /\ h.slot = s /\ h.payload # <<>>

\* Every unit of a request, wherever it is, belongs to a call that was submitted.
Ours(p) == \A i \in DOMAIN p : p[i][1] \in Given
RequestsKnown ==
    /\ \A b \in Bufs : Ours(reqMem[b])
    /\ Ours(h.payload)
    /\ \A s \in Slots : Ours(partial[s])
    /\ \A k \in handlers : k.whole # <<>> /\ Ours(k.whole)

\* The inductive invariant.
IInv ==
    /\ TypeOK /\ WorkerAt /\ HostAt /\ WorkersSlot
    /\ RequestAttached /\ RequestsKnown /\ ReqPoolExact

-----------------------------------------------------------------------------
\* What the bridge does to payloads (pieces, tails, joined requests) gives payloads.
LEMMA Payload ==
    /\ <<>> \in Payloads
    /\ \A p, r \in Payloads : p \o r \in Payloads
    /\ \A p \in Payloads : \A m \in 1 .. Len(p) + 1, n \in 0 .. Len(p) :
          SubSeq(p, m, n) \in Payloads
    /\ \A p \in Payloads : Len(p) \in Nat
    /\ \A c \in 0 .. MaxCalls, i \in Nat : << <<c, i>> >> \in Payloads
    /\ Message \in Payloads
<1>1. \A c \in 0 .. MaxCalls, i \in Nat : << <<c, i>> >> \in Payloads
  BY DEF Payloads, Units
<1>2. \A p \in Payloads : \A m \in 1 .. Len(p) + 1, n \in 0 .. Len(p) :
        SubSeq(p, m, n) \in Payloads
  BY DEF Payloads
<1>3. Message \in Payloads
  BY <1>1, SizesAssumption DEF Message
<1>. QED  BY <1>1, <1>2, <1>3 DEF Payloads

\* Joining and cutting requests brings in no unit of a call nobody submitted.
LEMMA OursFacts ==
    /\ Ours(<<>>)
    /\ \A p, r \in Payloads : Ours(p) /\ Ours(r) => Ours(p \o r)
    /\ \A p \in Payloads : Ours(p) /\ p # <<>> => p[1][1] \in Given
    /\ \A c \in Given, i \in Nat : Ours(<< <<c, i>> >>)
<1>1. \A p, r \in Payloads : Ours(p) /\ Ours(r) => Ours(p \o r)
  BY DEF Ours, Payloads
<1>2. \A p \in Payloads : Ours(p) /\ p # <<>> => p[1][1] \in Given
  BY DEF Ours, Payloads
<1>3. \A c \in Given, i \in Nat : Ours(<< <<c, i>> >>)
  BY DEF Ours
<1>4. Ours(<<>>)
  BY DEF Ours
<1>. QED  BY <1>1, <1>2, <1>3, <1>4

\* What a capability answers is a payload.
LEMMA AnswerPayload ==
    ASSUME shape \in Seq(Shapes), Len(shape) <= MaxCalls, NEW c \in Given
    PROVE  Answer(c) \in Payloads
<1>1. shape[c] \in Shapes  BY DEF Given
<1>2. shape[c].len \in Nat  BY <1>1, ShapesAssumption
<1>3. c \in 0 .. MaxCalls  BY SizesAssumption DEF Given
<1> DEFINE n == shape[c].len
<1>4. Answer(c) \in [1 .. n -> Units]
  <2>1. \A i \in 1 .. n : <<c, i>> \in Units  BY <1>2, <1>3 DEF Units
  <2>. QED  BY <2>1 DEF Answer
<1>5. \A f \in [1 .. n -> Units] : f \in Seq(Units)  BY <1>2, IsASeq
<1>. QED  BY <1>4, <1>5 DEF Payloads


\* The idle registers are well typed, as are the small constants used in them.
LEMMA Idles ==
    /\ WorkerIdle \in WorkerRegs /\ HostIdle \in HostRegs
    /\ 0 \in 0 .. N /\ 0 \in 0 .. MaxCalls /\ 0 \in 0 .. BUFS /\ 1 \in 0 .. N + 1
    /\ <<>> \in Payloads /\ Message \in Payloads
<1>1. <<>> \in Payloads /\ Message \in Payloads  BY Payload
<1>2. /\ 0 \in 0 .. N /\ 0 \in 0 .. MaxCalls /\ 0 \in 0 .. BUFS /\ 0 \in 0 .. N + 1
      /\ 1 \in 0 .. N + 1
  BY SizesAssumption
<1>3. WorkerIdle \in WorkerRegs  BY <1>1, <1>2 DEF WorkerIdle, WorkerRegs, ResStatus
<1>4. HostIdle \in HostRegs  BY <1>1, <1>2 DEF HostIdle, HostRegs, ResStatus
<1>. QED  BY <1>1, <1>2, <1>3, <1>4

\* So are the host's registers after it has moved to the next slot (sweep, reply).
LEMMA Nexts ==
    ASSUME h \in HostRegs, h.slot <= N
    PROVE  /\ SweepNext \in HostRegs /\ Return \in HostRegs
           /\ [h EXCEPT !.slot = @ + 1] \in HostRegs
<1>1. h.slot + 1 \in 0 .. N + 1  BY SizesAssumption DEF HostRegs
<1>2. SweepNext \in HostRegs  BY <1>1, Idles DEF SweepNext, HostRegs
<1>3. Return \in HostRegs
  <2>1. CASE h.ret = "loop"  BY <2>1, Idles DEF Return
  <2>2. CASE h.ret # "loop"
    <3>1. h.ret \in {"sweep", "fail"}  BY <2>2 DEF HostRegs
    <3>. QED  BY <1>1, <2>2, <3>1, Idles DEF Return, HostRegs
  <2>. QED  BY <2>1, <2>2
<1>. QED  BY <1>1, <1>2, <1>3 DEF HostRegs

\* gone() and the other throws leave well-typed registers and tickets.
LEMMA RaiseType ==
    ASSUME ticket \in [Calls -> Tickets], Raise
    PROVE  w' \in WorkerRegs /\ ticket' \in [Calls -> Tickets]
<1>1. NoTicket \in Tickets  BY Idles DEF NoTicket, Tickets
<1>. QED  BY <1>1, Idles DEF Raise

\* acquireBuf returns a buffer of the pool that nobody holds.
LEMMA FirstFreeType ==
    ASSUME NEW held, FreeBufs(held) # {}
    PROVE  FirstFree(held) \in Bufs /\ FirstFree(held) \notin held
<1> DEFINE F == FreeBufs(held)
<1>1. F \subseteq Nat /\ F # {}  BY DEF FreeBufs, Bufs
<1>2. \E b \in F : \A x \in F : b <= x
  <2> DEFINE R == OpToRel(<, Nat)
  <2>1. IsWellFoundedOn(R, Nat)  BY NatLessThanWellFounded
  <2> HIDE DEF R
  <2>2. \E b \in F : \A x \in F : ~ (<<x, b>> \in R)  BY <1>1, <2>1, WFMin
  <2>3. \A x, b \in Nat : x < b => <<x, b>> \in R
    <3> SUFFICES ASSUME NEW x \in Nat, NEW b \in Nat, x < b PROVE <<x, b>> \in R
      OBVIOUS
    <3>1. <<x, b>> \in Nat \X Nat /\ <<x, b>>[1] < <<x, b>>[2]  OBVIOUS
    <3>. QED  BY <3>1, Zenon DEF R, OpToRel
  <2>4. PICK b \in F : \A x \in F : ~ (<<x, b>> \in R)  BY <2>2
  <2>5. \A x \in F : x \in Nat /\ b \in Nat /\ ~ (x < b)  BY <1>1, <2>3, <2>4
  <2>6. \A x \in F : b <= x  BY <2>5
  <2>. QED  BY <2>4, <2>6
<1>3. FirstFree(held) \in F  BY <1>2 DEF FirstFree
<1>. QED  BY <1>3 DEF FreeBufs

\* A live ticket names a slot of the ring.
LEMMA LiveSlot ==
    ASSUME TypeOK, NEW c \in Calls, Live(c)
    PROVE  ticket[c].slot \in Slots
<1>1. ticket[c].slot \in 0 .. N /\ ticket[c].slot # 0
  BY SizesAssumption DEF TypeOK, Tickets, Live
<1>. QED  BY <1>1, SizesAssumption DEF Slots

\* parkForHost before the wait: either the call raises or the worker is parked.
LEMMA ParkCases ==
    ASSUME TypeOK, Park
    PROVE  /\ w.pc = "park" /\ w'.pc \in {"idle", "parked"}
           /\ w' = WorkerIdle \/ w' = [w EXCEPT !.pc = "parked"]
BY DEF Park, Raise, WorkerIdle, TypeOK, WorkerRegs

\* parkForHost after the wait: either the call raises or its loop starts again.
LEMMA UnparkCases ==
    ASSUME TypeOK, NEW t, Unpark(t)
    PROVE  /\ w.pc = "parked" /\ w'.pc \in {"idle", "seen"}
           /\ w' = WorkerIdle \/ \E l : w' = [w EXCEPT !.pc = "seen", !.late = l]
<1>1. CASE hostGone
  <2>1. w.pc = "parked" /\ w' = WorkerIdle  BY <1>1 DEF Unpark, Raise
  <2>. QED  BY <2>1 DEF WorkerIdle
<1>2. CASE ~hostGone
  <2>1. w.pc = "parked" /\ w' = [w EXCEPT !.pc = "seen", !.late = w.late \/ t]
    BY <1>2 DEF Unpark
  <2>. QED  BY <2>1 DEF TypeOK, WorkerRegs
<1>. QED  BY <1>1, <1>2

\* claim at a slot that is taken: raise, park, or look at the next slot.
LEMMA ClaimNextCases ==
    ASSUME TypeOK, ClaimNext
    PROVE  /\ w.pc = "claim" /\ w'.pc \in {"idle", "park", "claim"}
           /\ \/ w' = WorkerIdle \/ w' = [w EXCEPT !.pc = "park"]
              \/ w.slot < N /\ \E a : w' = [w EXCEPT !.slot = @ + 1, !.allReady = a]
<1> DEFINE all == w.allReady /\ HoldsAnswer(w.slot)
<1>1. w.pc = "claim"  BY DEF ClaimNext
<1>2. \/ w' = WorkerIdle \/ w' = [w EXCEPT !.pc = "park"]
      \/ w.slot < N /\ w' = [w EXCEPT !.slot = @ + 1, !.allReady = all]
  BY DEF ClaimNext, Raise
<1> HIDE DEF all
<1>3. w'.pc \in {"idle", "park", "claim"}
  <2>1. w \in WorkerRegs  BY DEF TypeOK
  <2>2. CASE w' = WorkerIdle  BY <2>2 DEF WorkerIdle
  <2>3. CASE w' = [w EXCEPT !.pc = "park"]  BY <2>1, <2>3 DEF WorkerRegs
  <2>4. CASE w' = [w EXCEPT !.slot = @ + 1, !.allReady = all]
    BY <1>1, <2>1, <2>4 DEF WorkerRegs
  <2>. QED  BY <1>2, <2>2, <2>3, <2>4
<1>. QED  BY <1>1, <1>2, <1>3

\* Every step of either thread keeps every register and shared word in its type.
LEMMA TypeStep == ASSUME IInv, Next PROVE TypeOK'
<1> USE DEF IInv, reqPool, resArea, program, tables
<1>a. /\ w \in WorkerRegs /\ h \in HostRegs
      /\ \A s \in Slots : gen[s] + 1 \in Nat
      /\ ticket \in [Calls -> Tickets]
  BY DEF TypeOK
<1>b. \A c \in Calls : ticket[c].slot \in 0 .. N /\ c \in 0 .. MaxCalls
  BY <1>a, SizesAssumption DEF Calls, Tickets
<1>1. ASSUME NEW sh \in Shapes, Submit(sh) PROVE TypeOK'
  <2>1. Len(shape) + 1 \in 0 .. MaxCalls  BY <1>1, SizesAssumption DEF TypeOK, Submit
  <2>2. w' \in WorkerRegs  BY <1>1, <2>1, Idles DEF Submit, WorkerRegs
  <2>3. shape' \in Seq(Shapes)  BY <1>1 DEF Submit, TypeOK
  <2>. QED  BY <1>1, <2>2, <2>3 DEF Submit, TypeOK
<1>2. ASSUME NEW c \in Calls, Collect(c) PROVE TypeOK'
  <2>1. w' \in WorkerRegs  BY <1>2, <1>b, Idles DEF Collect, WorkerRegs
  <2>. QED  BY <1>2, <2>1 DEF Collect, TypeOK
<1>3. ASSUME NEW c \in Calls, CancelReady(c) PROVE TypeOK'
  BY <1>3, <1>a, Idles DEF CancelReady, Release, TypeOK, States
<1>4. ASSUME NEW c \in Calls, CancelBump(c) PROVE TypeOK'
  <2>1. w' \in WorkerRegs  BY <1>4, <1>b, Idles DEF CancelBump, WorkerRegs
  <2>. QED  BY <1>4, <1>a, <2>1 DEF CancelBump, TypeOK
<1>5. ASSUME NEW set \in SUBSET Calls, NEW timed \in BOOLEAN, WaitAny(set, timed)
      PROVE  TypeOK'
  <2>1. w' \in WorkerRegs  BY <1>5, Idles DEF WaitAny, WorkerRegs
  <2>. QED  BY <1>5, <2>1 DEF WaitAny, TypeOK
<1>6. CASE Look
  <2>1. w.loop \in {"claim", "reqbuf", "await", "waitAny"}
    BY <1>6, <1>a DEF Look, WorkerAt, WorkerRegs
  <2>2. (IF w.loop = "claim" THEN 1 ELSE w.slot) \in 0 .. N
    BY <1>a, SizesAssumption DEF WorkerRegs
  <2>3. w' \in WorkerRegs  BY <1>6, <1>a, <2>1, <2>2 DEF Look, WorkerRegs
  <2>. QED  BY <1>6, <2>3 DEF Look, TypeOK
<1>7. CASE Park
  <2>1. w' \in WorkerRegs /\ ticket' \in [Calls -> Tickets]
    <3>1. CASE hostGone  BY <1>7, <3>1, <1>a, RaiseType DEF Park
    <3>2. CASE ~hostGone  BY <1>7, <3>2, <1>a DEF Park, WorkerRegs
    <3>. QED  BY <3>1, <3>2
  <2>. QED  BY <1>7, <2>1 DEF Park, TypeOK
<1>8. ASSUME NEW timeout \in BOOLEAN, Unpark(timeout) PROVE TypeOK'
  <2>1. w' \in WorkerRegs /\ ticket' \in [Calls -> Tickets]
    <3>1. CASE hostGone  BY <1>8, <3>1, <1>a, RaiseType DEF Unpark
    <3>2. CASE ~hostGone
      <4> DEFINE late == w.late \/ timeout
      <4>1. late \in BOOLEAN  OBVIOUS
      <4>2. w' = [w EXCEPT !.pc = "seen", !.late = late]  BY <1>8, <3>2 DEF Unpark
      <4> HIDE DEF late
      <4>. QED  BY <1>8, <3>2, <4>1, <4>2, <1>a DEF Unpark, WorkerRegs
    <3>. QED  BY <3>1, <3>2
  <2>. QED  BY <1>8, <2>1 DEF Unpark, TypeOK
<1>9. CASE ClaimSlot
  <2>1. w.slot \in Slots /\ w.slot \in 0 .. N  BY <1>9, <1>a DEF ClaimSlot, WorkerAt, WorkerRegs
  <2>2. [slot |-> w.slot, gen |-> gen[w.slot]] \in Tickets  BY <2>1 DEF TypeOK, Tickets
  <2>3. w' \in WorkerRegs  BY <1>9, <1>a DEF ClaimSlot, WorkerRegs
  <2>. QED  BY <1>9, <2>1, <2>2, <2>3 DEF ClaimSlot, TypeOK, States
<1>10. CASE ClaimNext
  <2> DEFINE all == w.allReady /\ HoldsAnswer(w.slot)
  <2>1. w' \in WorkerRegs /\ ticket' \in [Calls -> Tickets]
    <3>1. CASE Raise  BY <3>1, <1>a, RaiseType
    <3>2. CASE w' = [w EXCEPT !.pc = "park"] /\ UNCHANGED ticket
      BY <3>2, <1>a DEF WorkerRegs
    <3>3. CASE /\ w.slot < N /\ UNCHANGED ticket
               /\ w' = [w EXCEPT !.slot = @ + 1, !.allReady = all]
      <4>1. w.slot + 1 \in 0 .. N  BY <3>3, <1>a, SizesAssumption DEF WorkerRegs
      <4>2. all \in BOOLEAN  BY <1>a DEF WorkerRegs, HoldsAnswer
      <4> HIDE DEF all
      <4>. QED  BY <3>3, <4>1, <4>2, <1>a DEF WorkerRegs
    <3>. QED  BY <1>10, <3>1, <3>2, <3>3 DEF ClaimNext
  <2>. QED  BY <1>10, <2>1 DEF ClaimNext, TypeOK
<1>11. CASE TakeReqBuf
  <2>1. CASE FreeBufs(reqHeld) = {}
    <3>1. w' \in WorkerRegs  BY <1>11, <2>1, <1>a DEF TakeReqBuf, WorkerRegs
    <3>. QED  BY <1>11, <2>1, <3>1 DEF TakeReqBuf, TypeOK
  <2>2. CASE FreeBufs(reqHeld) # {}
    <3> DEFINE b == FirstFree(reqHeld)
    <3>1. b \in Bufs /\ b \in 0 .. BUFS  BY <2>2, FirstFreeType DEF Bufs
    <3>a. w' = [w EXCEPT !.pc = "fill", !.buf = b] /\ reqHeld' = reqHeld \union {b}
      BY <1>11, <2>2 DEF TakeReqBuf
    <3> HIDE DEF b
    <3>2. w' \in WorkerRegs  BY <3>1, <3>a, <1>a DEF WorkerRegs
    <3>. QED  BY <1>11, <3>a, <3>1, <3>2 DEF TakeReqBuf, TypeOK
  <2>. QED  BY <2>1, <2>2
<1>12. CASE PublishPiece
  <2>1. /\ w.call \in Given /\ w.sent + 1 \in Nat /\ w.buf \in 0 .. BUFS
        /\ w.call \in 0 .. MaxCalls
    BY <1>12, <1>a DEF PublishPiece, WorkerAt, WorkerRegs
  <2>2. shape[w.call].op \in Ops
    BY <2>1, ShapesAssumption DEF TypeOK, Given, Ops
  <2>3. << <<w.call, w.sent + 1>> >> \in Payloads  BY <2>1, Payload
  <2>4. w' \in WorkerRegs  BY <1>12, <2>1, <1>a, Idles DEF PublishPiece, WorkerRegs
  <2>5. op' \in [Slots -> Ops]  BY <1>12, <2>2 DEF PublishPiece, TypeOK, Ops
  <2>6. reqMem' \in [Bufs -> Payloads]  BY <1>12, <2>3 DEF PublishPiece, TypeOK
  <2>7. reqBuf' \in [Slots -> 0 .. BUFS]  BY <1>12, <2>1 DEF PublishPiece, TypeOK
  <2>8. status' \in [Slots -> States]  BY <1>12 DEF PublishPiece, TypeOK, States
  <2>. QED  BY <1>12, <2>4, <2>5, <2>6, <2>7, <2>8 DEF PublishPiece, TypeOK
<1>13. CASE AwaitReady
  <2>1. w' \in WorkerRegs  BY <1>13, <1>a DEF AwaitReady, WorkerRegs
  <2>. QED  BY <1>13, <2>1 DEF AwaitReady, TypeOK
<1>14. CASE ReadRes
  <2>1. w.slot \in Slots  BY <1>14 DEF ReadRes, WorkerAt
  <2> DEFINE bytes == IF resBuf[w.slot] = 0 THEN inline[w.slot] ELSE resMem[resBuf[w.slot]]
  <2>2. /\ resStatus[w.slot] \in ResStatus /\ resBuf[w.slot] \in 0 .. BUFS
        /\ resBuf[w.slot] # 0 => resBuf[w.slot] \in Bufs
    BY <2>1 DEF TypeOK, Bufs
  <2>3. bytes \in Payloads  BY <2>1, <2>2 DEF TypeOK
  <2> HIDE DEF bytes
  <2>4. w' = [w EXCEPT !.pc = "handback", !.status = resStatus[w.slot],
                       !.buf = resBuf[w.slot], !.bytes = bytes]
    BY <1>14 DEF ReadRes, bytes
  <2>5. w' \in WorkerRegs  BY <2>2, <2>3, <2>4, <1>a DEF WorkerRegs
  <2>. QED  BY <1>14, <2>5 DEF ReadRes, TypeOK
<1>15. CASE HandBack
  <2>1. w' \in WorkerRegs  BY <1>15, <1>a, Idles DEF HandBack, WorkerRegs
  <2>. QED  BY <1>15, <2>1, Idles DEF HandBack, TypeOK
<1>16. CASE NextPiece
  <2>1. w' \in WorkerRegs  BY <1>16, <1>a, Idles DEF NextPiece, WorkerRegs, ResStatus
  <2>. QED  BY <1>16, <2>1 DEF NextPiece, TypeOK
<1>17. CASE PieceFailed
  <2>1. w' \in WorkerRegs /\ ticket' \in [Calls -> Tickets]
    BY <1>17, <1>a, RaiseType DEF PieceFailed
  <2>. QED  BY <1>17, <1>a, <2>1, Idles DEF PieceFailed, Release, TypeOK, States
<1>18. CASE CollectMore
  <2>1. w.got \o w.bytes \in Payloads  BY <1>a, Payload DEF WorkerRegs
  <2>2. w' \in WorkerRegs
    BY <1>18, <1>a, <2>1, Idles DEF CollectMore, WorkerRegs, ResStatus
  <2>. QED  BY <1>18, <2>2 DEF CollectMore, TypeOK, States, Ops
<1>19. CASE CollectLast
  BY <1>19, <1>a, Idles DEF CollectLast, Release, TypeOK, States
<1>20. CASE CancelStore
  BY <1>20, Idles DEF CancelStore, TypeOK, States
<1>21. CASE WaitScan
  <2>1. w' \in WorkerRegs
    <3>1. CASE w' = WorkerIdle  BY <3>1, Idles
    <3>2. CASE w' = [w EXCEPT !.pc = "park"]  BY <3>2, <1>a DEF WorkerRegs
    <3>. QED  BY <1>21, <3>1, <3>2 DEF WaitScan
  <2>. QED  BY <1>21, <2>1 DEF WaitScan, TypeOK
<1>31. CASE LoopWake
  <2>1. h' \in HostRegs  BY <1>31, Idles DEF LoopWake, HostRegs
  <2>. QED  BY <1>31, <2>1 DEF LoopWake, TypeOK
<1>32. CASE SweepSkip  BY <1>32, <1>a, Nexts DEF SweepSkip, TypeOK
<1>33. CASE SweepDone
  <2>1. h' \in HostRegs  BY <1>33, <1>a, Idles, SizesAssumption DEF SweepDone, HostRegs
  <2>. QED  BY <1>33, <2>1 DEF SweepDone, TypeOK
<1>34. CASE Abandon
  <2>1. h' \in HostRegs  BY <1>34, <1>a, Nexts DEF Abandon
  <2>. QED  BY <1>34, <2>1, Idles DEF Abandon, DetachBoth, TypeOK, States
<1>35. CASE Take
  <2>1. h.slot \in Slots  BY <1>35, <1>a DEF Take, HostAt, HostRegs, Slots
  <2> DEFINE bytes == IF reqBuf[h.slot] = 0 THEN <<>> ELSE reqMem[reqBuf[h.slot]]
  <2>2. /\ gen[h.slot] \in Nat /\ reqBuf[h.slot] \in 0 .. BUFS
        /\ reqBuf[h.slot] # 0 => reqBuf[h.slot] \in Bufs
    BY <2>1 DEF TypeOK, Bufs
  <2>3. bytes \in Payloads  BY <2>1, <2>2, Idles DEF TypeOK
  <2> HIDE DEF bytes
  <2>4. h' = [h EXCEPT !.pc = "taken", !.gen = gen[h.slot], !.payload = bytes]
    BY <1>35 DEF Take, bytes
  <2>5. h' \in HostRegs  BY <2>2, <2>3, <2>4, <1>a DEF HostRegs
  <2>. QED  BY <1>35, <2>5, Idles DEF Take, TypeOK
<1>c. h.pc \in {"taken", "reply", "write", "publish"} => h.slot \in Slots /\ h.slot <= N
  BY <1>a DEF HostAt, Slots
<1>36. CASE TakeLost  BY <1>36, <1>a, <1>c, Nexts DEF TakeLost, TypeOK
<1>37. CASE TakeContinue
  <2>1. finalStatus[h.slot] \in ResStatus /\ pending[h.slot] \in Payloads
    BY <1>37, <1>c DEF TakeContinue, Taken, TypeOK
  <2>2. h' \in HostRegs  BY <1>37, <1>a, <2>1, Idles DEF TakeContinue, Replying, HostRegs
  <2>. QED  BY <1>37, <2>2, Idles DEF TakeContinue, Taken, TypeOK, States
<1>38. CASE TakePush
  <2>1. partial[h.slot] \o h.payload \in Payloads
    BY <1>38, <1>a, <1>c, Payload DEF TakePush, Taken, TypeOK, HostRegs
  <2>2. h' \in HostRegs  BY <1>38, <1>a, Idles DEF TakePush, Replying, HostRegs, ResStatus
  <2>3. partial' \in [Slots -> Payloads]  BY <1>38, <2>1 DEF TakePush, TypeOK
  <2>. QED  BY <1>38, <2>2, <2>3 DEF TakePush, Taken, TypeOK, States
<1>39. CASE TakeDispatch
  <2>1. /\ partial[h.slot] \o h.payload \in Payloads
        /\ h.slot \in Slots /\ h.gen \in Nat
    BY <1>39, <1>a, <1>c, Payload DEF TakeDispatch, Taken, TypeOK, HostRegs
  <2>2. [slot |-> h.slot, gen |-> h.gen, whole |-> Joined(h.slot)] \in Handlers
    BY <2>1 DEF Joined, Handlers
  <2>3. h' \in HostRegs  BY <1>39, <1>a, <1>c, Nexts DEF TakeDispatch, Taken
  <2>. QED  BY <1>39, <2>2, <2>3, Idles DEF TakeDispatch, Taken, TypeOK, States
<1>40. CASE TakeUnknown
  <2>1. h' \in HostRegs
    BY <1>40, <1>a, Idles DEF TakeUnknown, Replying, HostRegs, ResStatus
  <2>. QED  BY <1>40, <2>1, Idles DEF TakeUnknown, Taken, TypeOK, States
<1>41. CASE Reply
  <2>1. gen[h.slot] \in Nat  BY <1>41, <1>c DEF Reply, TypeOK
  <2>2. h' \in HostRegs  BY <1>41, <1>a, <2>1 DEF Reply, HostRegs
  <2>. QED  BY <1>41, <2>2 DEF Reply, TypeOK
<1>42. CASE WriteStale  BY <1>42, <1>a, <1>c, Nexts DEF WriteStale, TypeOK
<1>43. CASE Write
  <2> DEFINE pooled == Len(h.body) > INLINE /\ FreeBufs(resHeld) # {}
             room == IF pooled THEN BUF ELSE INLINE
             more == Len(h.body) > room
             fits == IF more THEN SubSeq(h.body, 1, room) ELSE h.body
             st == IF more THEN "MORE" ELSE h.status
  <2>1. h.body \in Payloads /\ h.status \in ResStatus /\ Len(h.body) \in Nat
    BY <1>a, Payload DEF HostRegs
  <2>2. room \in Nat  BY SizesAssumption
  <2>3. h.slot \in Slots  BY <1>43, <1>c DEF Write
  <2>4. fits \in Payloads
    <3>1. CASE more
      <4>1. 1 \in 1 .. Len(h.body) + 1 /\ room \in 0 .. Len(h.body)
        BY <3>1, <2>1, <2>2
      <4>. QED  BY <3>1, <4>1, <2>1, Payload
    <3>2. CASE ~more  BY <3>2, <2>1
    <3>. QED  BY <3>1, <3>2
  <2>5. more => TailOf(h.body, room) \in Payloads
    <3>1. SUFFICES ASSUME more PROVE TailOf(h.body, room) \in Payloads  OBVIOUS
    <3>2. room + 1 \in 1 .. Len(h.body) + 1 /\ Len(h.body) \in 0 .. Len(h.body)
      BY <3>1, <2>1, <2>2
    <3>. QED  BY <3>2, <2>1, Payload DEF TailOf
  <2>6. st \in ResStatus  BY <2>1 DEF ResStatus
  <2>7. h' \in HostRegs  BY <1>43, <1>a DEF Write, HostRegs
  <2> HIDE DEF pooled, fits, st
  <2>8. resStatus' \in [Slots -> ResStatus]
    <3>1. resStatus' = [resStatus EXCEPT ![h.slot] = st]  BY <1>43 DEF Write, st, pooled
    <3>. QED  BY <3>1, <2>3, <2>6 DEF TypeOK
  <2>9. pending' \in [Slots -> Payloads] /\ finalStatus' \in [Slots -> ResStatus]
    <3>1. IF more
          THEN /\ pending' = [pending EXCEPT ![h.slot] = TailOf(h.body, room)]
               /\ finalStatus' = [finalStatus EXCEPT ![h.slot] = h.status]
          ELSE UNCHANGED <<pending, finalStatus>>
      BY <1>43 DEF Write, pooled
    <3> HIDE DEF more, room
    <3>. QED  BY <3>1, <2>1, <2>3, <2>5 DEF TypeOK
  <2>10. /\ resHeld' \in SUBSET Bufs /\ resMem' \in [Bufs -> Payloads]
         /\ resBuf' \in [Slots -> 0 .. BUFS] /\ inline' \in [Slots -> Payloads]
    <3>1. CASE pooled
      <4>1. FirstFree(resHeld) \in Bufs /\ FirstFree(resHeld) \in 0 .. BUFS
        BY <3>1, FirstFreeType DEF pooled, Bufs
      <4>2. /\ resHeld' = resHeld \union {FirstFree(resHeld)}
            /\ resMem' = [resMem EXCEPT ![FirstFree(resHeld)] = fits]
            /\ resBuf' = [resBuf EXCEPT ![h.slot] = FirstFree(resHeld)]
            /\ UNCHANGED inline
        BY <1>43, <3>1 DEF Write, pooled, fits
      <4>. QED  BY <4>1, <4>2, <2>4 DEF TypeOK
    <3>2. CASE ~pooled
      <4>1. /\ inline' = [inline EXCEPT ![h.slot] = fits]
            /\ resBuf' = [resBuf EXCEPT ![h.slot] = 0]
            /\ UNCHANGED <<resHeld, resMem>>
        BY <1>43, <3>2 DEF Write, pooled, fits
      <4>. QED  BY <4>1, <2>4, Idles DEF TypeOK
    <3>. QED  BY <3>1, <3>2
  <2>11. UNCHANGED <<status, gen, op, reqBuf, reqHeld, reqMem, doneMoved, hostMoved,
                     hostGone, w, ticket, shape, partial, handlers>>
    BY <1>43 DEF Write
  <2>. QED  BY <2>7, <2>8, <2>9, <2>10, <2>11 DEF TypeOK
<1>44. CASE Publish
  BY <1>44, <1>a, <1>c, Nexts DEF Publish, TypeOK, States
<1>45. CASE PublishLost
  <2>1. h' \in HostRegs  BY <1>45, <1>a, <1>c, Nexts DEF PublishLost
  <2>. QED  BY <1>45, <2>1, Idles DEF PublishLost, TypeOK
<1>46. CASE FailSkip  BY <1>46, <1>a, Nexts DEF FailSkip, TypeOK
<1>47. CASE FailSlot
  <2>1. h' \in HostRegs
    BY <1>47, <1>a, Idles DEF FailSlot, Replying, HostRegs, ResStatus
  <2>. QED  BY <1>47, <2>1, Idles DEF FailSlot, DetachRequest, TypeOK, States
<1>48. CASE FailDone  BY <1>48, Idles DEF FailDone, TypeOK
<1>49. ASSUME NEW k \in handlers, Complete(k) PROVE TypeOK'
  <2>1. k \in Handlers /\ k.whole \in Payloads /\ k.slot \in 0 .. N + 1
    BY SMTT(60), SizesAssumption DEF TypeOK, Handlers, Slots
  <2>2. k.whole[1][1] \in Given  BY <2>1, OursFacts DEF RequestsKnown
  <2> DEFINE c == k.whole[1][1]
  <2>3. shape[c].status \in ResStatus
    BY SMTT(60), <2>2, ShapesAssumption DEF TypeOK, Given, ResStatus
  <2>4. Answer(c) \in Payloads  BY <2>2, AnswerPayload DEF TypeOK, HostAt
  <2> HIDE DEF c
  <2>5. h' \in HostRegs
    <3>1. CASE StillOurs(k)
      <4>1. h' = [HostIdle EXCEPT !.pc = "reply", !.slot = k.slot,
                                  !.status = shape[c].status, !.body = Answer(c)]
        BY <1>49, <3>1 DEF Complete, c
      <4>. QED  BY <4>1, <2>1, <2>3, <2>4, Idles DEF HostRegs
    <3>2. CASE ~StillOurs(k)  BY <1>49, <3>2, <1>a DEF Complete
    <3>. QED  BY <3>1, <3>2
  <2>. QED  BY <1>49, <2>5 DEF Complete, TypeOK
<1>50. CASE Stop
  <2>1. h' \in HostRegs  BY <1>50, Idles DEF Stop, HostRegs
  <2>. QED  BY <1>50, <2>1 DEF Stop, TypeOK
<1>51. CASE Program  BY <1>51, <1>1, <1>2, <1>3, <1>4, <1>5 DEF Program
<1>52. CASE Worker
  BY <1>52, <1>6, <1>7, <1>8, <1>9, <1>10, <1>11, <1>12, <1>13, <1>14, <1>15, <1>16,
     <1>17, <1>18, <1>19, <1>20, <1>21 DEF Worker, Wake
<1>53. CASE Timeout  BY <1>53, <1>8 DEF Timeout
<1>54. CASE Host
  BY <1>54, <1>31, <1>32, <1>33, <1>34, <1>35, <1>36, <1>37, <1>38, <1>39, <1>40, <1>41,
     <1>42, <1>43, <1>44, <1>45, <1>46, <1>47, <1>48 DEF Host
<1>55. CASE HandlerDone  BY <1>55, <1>49 DEF HandlerDone
<1>. QED  BY <1>50, <1>51, <1>52, <1>53, <1>54, <1>55 DEF Next

\* Every step keeps the worker's registers as its program point says.
LEMMA WorkerStep == ASSUME IInv, Next PROVE WorkerAt'
<1> USE DEF IInv, reqPool, resArea, program, tables
<1>1. CASE Park
  <2>1. CASE w' = WorkerIdle
    BY <1>1, <2>1 DEF Park, WorkerIdle, WorkerAt
  <2>2. CASE w' = [w EXCEPT !.pc = "parked"]
    BY <1>1, <2>2, ParkCases DEF Park, WorkerAt, WorkerRegs, TypeOK, Given
  <2>. QED  BY <1>1, <2>1, <2>2, ParkCases
<1>2. ASSUME NEW timeout \in BOOLEAN, Unpark(timeout) PROVE WorkerAt'
  <2>1. CASE w' = WorkerIdle
    BY <1>2, <2>1 DEF Unpark, WorkerIdle, WorkerAt
  <2>2. ASSUME NEW l, w' = [w EXCEPT !.pc = "seen", !.late = l] PROVE WorkerAt'
    BY ZenonT(60), <1>2, <2>2, UnparkCases DEF Unpark, WorkerAt, WorkerRegs, TypeOK, Given
  <2>. QED  BY <1>2, <2>1, <2>2, UnparkCases
<1>3. CASE ClaimNext
  <2>1. CASE w' = WorkerIdle
    BY <1>3, <2>1 DEF ClaimNext, WorkerIdle, WorkerAt
  <2>2. CASE w' = [w EXCEPT !.pc = "park"]
    BY <1>3, <2>2, ClaimNextCases DEF ClaimNext, WorkerAt, WorkerRegs, TypeOK, Given
  <2>3. ASSUME NEW a, w.slot < N, w' = [w EXCEPT !.slot = @ + 1, !.allReady = a]
        PROVE  WorkerAt'
    <3>1. w.slot + 1 \in Slots
      BY <2>3, <1>3, SizesAssumption DEF ClaimNext, WorkerAt, Slots
    <3>. QED
      BY ZenonT(60), <1>3, <2>3, <3>1, ClaimNextCases
      DEF ClaimNext, WorkerAt, WorkerRegs, TypeOK, Given
  <2>. QED  BY <1>3, <2>1, <2>2, <2>3, ClaimNextCases
<1>4. CASE TakeReqBuf
  <2>1. CASE FreeBufs(reqHeld) = {}
    BY ZenonT(60), <1>4, <2>1 DEF TakeReqBuf, WorkerAt, WorkerRegs, TypeOK, Given
  <2>2. CASE FreeBufs(reqHeld) # {}
    <3>1. FirstFree(reqHeld) \in Bufs  BY <2>2, FirstFreeType
    <3>. QED
      BY ZenonT(60), <1>4, <2>2, <3>1 DEF TakeReqBuf, WorkerAt, WorkerRegs, TypeOK, Given
  <2>. QED  BY <2>1, <2>2
<1> USE SizesAssumption DEF WorkerAt, WorkerRegs, TypeOK, Given, Slots, Bufs
<1>5. ASSUME NEW sh \in Shapes, Submit(sh)
      PROVE  WorkerAt'
  BY <1>5 DEF Submit, WorkerIdle
<1>6. ASSUME NEW c \in Calls, Collect(c)
      PROVE  WorkerAt'
  BY SMTT(60), <1>6, LiveSlot DEF Collect, WorkerIdle
<1>7. ASSUME NEW c \in Calls, CancelBump(c)
      PROVE  WorkerAt'
  BY <1>7, LiveSlot DEF CancelBump, WorkerIdle
<1>8. ASSUME NEW set \in SUBSET Calls, NEW timed \in BOOLEAN, WaitAny(set, timed)
      PROVE  WorkerAt'
  BY <1>8 DEF WaitAny, WorkerIdle
<1>9. CASE Look  BY <1>9 DEF Look
<1>10. CASE ClaimSlot  BY <1>10 DEF ClaimSlot
<1>11. CASE PublishPiece  BY <1>11 DEF PublishPiece, WorkerIdle
<1>12. CASE AwaitReady  BY <1>12 DEF AwaitReady
<1>13. CASE ReadRes  BY <1>13 DEF ReadRes
<1>14. CASE HandBack  BY <1>14 DEF HandBack
<1>15. CASE NextPiece  BY <1>15 DEF NextPiece
<1>16. CASE PieceFailed
  BY <1>16 DEF PieceFailed, Raise, WorkerIdle, NoTicket, Release
<1>17. CASE CollectMore  BY <1>17 DEF CollectMore
<1>18. CASE CollectLast  BY <1>18 DEF CollectLast, WorkerIdle, Release
<1>19. CASE CancelStore  BY <1>19 DEF CancelStore, WorkerIdle
<1>20. CASE WaitScan  BY SMTT(60), <1>20 DEF WaitScan, WorkerIdle, IsDone, Live
<1>f. CASE UNCHANGED <<w, shape>>  BY <1>f
<1>p. CASE Program
  BY SMTT(60), <1>p, <1>5, <1>6, <1>7, <1>8, <1>f
  DEF Program, CancelReady, Release
<1>w. CASE Worker
  BY <1>w, <1>9, <1>1, <1>2, <1>10, <1>3, <1>4, <1>11, <1>12, <1>13, <1>14, <1>15,
     <1>16, <1>17, <1>18, <1>19, <1>20
  DEF Worker, Wake
<1>h. CASE Host
  BY <1>h, <1>f
  DEF Host, LoopWake, SweepSkip, SweepDone, Abandon, Take, TakeLost, TakeContinue,
     TakePush, TakeDispatch, TakeUnknown, Reply, WriteStale, Write, Publish,
     PublishLost, FailSkip, FailSlot, FailDone, Taken
<1>t. CASE Timeout  BY <1>t, <1>2 DEF Timeout
<1>d. CASE HandlerDone  BY <1>d, <1>f DEF HandlerDone, Complete
<1>s. CASE Stop  BY <1>s, <1>f DEF Stop
<1>. QED  BY <1>p, <1>w, <1>h, <1>t, <1>d, <1>s DEF Next

\* Every step keeps the host's registers as its program point says.
LEMMA HostStep == ASSUME IInv, Next PROVE HostAt'
<1> USE DEF IInv, reqPool, resArea, program, tables
<1>1. ASSUME NEW k \in handlers, Complete(k) PROVE HostAt'
  <2>1. k.slot \in Slots  BY DEF TypeOK, Handlers
  <2>. QED  BY <1>1, <2>1 DEF Complete, HostIdle, HostAt
<1> USE SizesAssumption DEF HostAt, HostRegs, TypeOK, Slots
<1>2. ASSUME NEW sh \in Shapes, Submit(sh)
      PROVE  HostAt'
  BY <1>2 DEF Submit, WorkerIdle
<1>3. CASE LoopWake  BY <1>3 DEF LoopWake, HostIdle
<1>4. CASE SweepSkip  BY <1>4 DEF SweepSkip, SweepNext, HostIdle
<1>5. CASE SweepDone  BY <1>5 DEF SweepDone, HostIdle
<1>6. CASE Abandon  BY <1>6 DEF Abandon, SweepNext, HostIdle, DetachBoth
<1>7. CASE Take  BY <1>7 DEF Take
<1>8. CASE TakeLost  BY <1>8 DEF TakeLost, SweepNext, HostIdle
<1>9. CASE TakeContinue  BY <1>9 DEF TakeContinue, Replying, Taken
<1>10. CASE TakePush  BY <1>10 DEF TakePush, Replying, Taken
<1>11. CASE TakeDispatch
  BY <1>11 DEF TakeDispatch, SweepNext, HostIdle, Taken, Joined
<1>12. CASE TakeUnknown  BY <1>12 DEF TakeUnknown, Replying, Taken
<1>13. CASE Reply  BY <1>13 DEF Reply
<1>14. CASE WriteStale  BY <1>14 DEF WriteStale, Return, HostIdle
<1>15. CASE Write  BY <1>15 DEF Write, FreeBufs, FirstFree, TailOf
<1>16. CASE Publish  BY <1>16 DEF Publish, Return, HostIdle, PublishWins
<1>17. CASE PublishLost  BY <1>17 DEF PublishLost, Return, HostIdle, PublishWins
<1>18. CASE FailSkip  BY <1>18 DEF FailSkip
<1>19. CASE FailSlot  BY <1>19 DEF FailSlot, Replying, DetachRequest
<1>20. CASE FailDone  BY <1>20 DEF FailDone, HostIdle
<1>21. CASE Stop  BY <1>21 DEF Stop, HostIdle
<1>f. CASE UNCHANGED <<h, shape>>  BY <1>f
<1>p. CASE Program
  BY <1>p, <1>2, <1>f
  DEF Program, Collect, CancelReady, CancelBump, WaitAny, Release
<1>w. CASE Worker
  BY <1>w, <1>f
  DEF Worker, Look, Park, Unpark, ClaimSlot, ClaimNext, TakeReqBuf, PublishPiece,
     AwaitReady, ReadRes, HandBack, NextPiece, PieceFailed, CollectMore, CollectLast,
     CancelStore, WaitScan, Wake, Release
<1>h. CASE Host
  BY <1>h, <1>3, <1>4, <1>5, <1>6, <1>7, <1>8, <1>9, <1>10, <1>11, <1>12, <1>13,
     <1>14, <1>15, <1>16, <1>17, <1>18, <1>19, <1>20
  DEF Host
<1>t. CASE Timeout  BY <1>t, <1>f DEF Timeout, Unpark
<1>d. CASE HandlerDone  BY <1>d, <1>1 DEF HandlerDone
<1>s. CASE Stop  BY <1>s, <1>21
<1>. QED  BY <1>p, <1>w, <1>h, <1>t, <1>d, <1>s DEF Next

\* No step takes a slot away from the thread that is filling, reading or taking it.
LEMMA SlotStep == ASSUME IInv, Next PROVE WorkersSlot'
<1> USE DEF IInv, reqPool, resArea, program, tables
<1>1. CASE Park
  <2>1. CASE w' = WorkerIdle
    BY <1>1, <2>1 DEF Park, WorkerIdle, WorkersSlot
  <2>2. CASE w' = [w EXCEPT !.pc = "parked"]
    BY <1>1, <2>2 DEF Park, WorkersSlot, WorkerRegs, TypeOK
  <2>. QED  BY <1>1, <2>1, <2>2, ParkCases
<1>2. ASSUME NEW timeout \in BOOLEAN, Unpark(timeout) PROVE WorkersSlot'
  <2>1. CASE w' = WorkerIdle
    BY <1>2, <2>1 DEF Unpark, WorkerIdle, WorkersSlot
  <2>2. ASSUME NEW l, w' = [w EXCEPT !.pc = "seen", !.late = l] PROVE WorkersSlot'
    BY <1>2, <2>2, UnparkCases DEF Unpark, WorkersSlot, WorkerRegs, TypeOK
  <2>. QED  BY <1>2, <2>1, <2>2, UnparkCases
<1>3. CASE ClaimNext
  <2>1. w.loop = "claim" /\ w'.pc \notin {"read", "handback", "decide"} /\ w'.loop # "reqbuf"
    <3>1. w.loop = "claim" /\ w.pc = "claim"  BY <1>3, ClaimNextCases DEF WorkerAt
    <3>2. CASE w' = WorkerIdle  BY <3>1, <3>2 DEF WorkerIdle
    <3>3. CASE w' = [w EXCEPT !.pc = "park"]  BY <3>1, <3>3 DEF TypeOK, WorkerRegs
    <3>4. ASSUME NEW a, w' = [w EXCEPT !.slot = @ + 1, !.allReady = a]
          PROVE  w'.pc = w.pc /\ w'.loop = w.loop
      BY <3>4 DEF TypeOK, WorkerRegs
    <3>. QED  BY <1>3, <3>1, <3>2, <3>3, <3>4, ClaimNextCases
  <2>. QED  BY <1>3, <2>1 DEF ClaimNext, WorkersSlot
<1>4. CASE TakeReqBuf
  <2>1. /\ w'.loop = w.loop /\ w'.slot = w.slot
        /\ w'.pc \notin {"read", "handback", "decide"}
    BY ZenonT(60), <1>4 DEF TakeReqBuf, TypeOK, WorkerRegs
  <2>. QED  BY <1>4, <2>1 DEF TakeReqBuf, WorkersSlot
<1> USE DEF WorkersSlot, WorkerAt, HostAt, WorkerRegs, HostRegs, TypeOK, Slots
<1>5. ASSUME NEW sh \in Shapes, Submit(sh)
      PROVE  WorkersSlot'
  BY <1>5 DEF Submit, WorkerIdle
<1>6. ASSUME NEW c \in Calls, Collect(c)
      PROVE  WorkersSlot'
  BY <1>6 DEF Collect, WorkerIdle, Live
<1>7. ASSUME NEW c \in Calls, CancelReady(c)
      PROVE  WorkersSlot'
  BY <1>7 DEF CancelReady, Release, Live
<1>8. ASSUME NEW c \in Calls, CancelBump(c)
      PROVE  WorkersSlot'
  BY <1>8 DEF CancelBump, WorkerIdle, Live
<1>9. ASSUME NEW set \in SUBSET Calls, NEW timed \in BOOLEAN, WaitAny(set, timed)
      PROVE  WorkersSlot'
  BY <1>9 DEF WaitAny, WorkerIdle
<1>10. CASE Look  BY <1>10 DEF Look
<1>11. CASE ClaimSlot  BY <1>11 DEF ClaimSlot
<1>12. CASE PublishPiece  BY <1>12 DEF PublishPiece, WorkerIdle
<1>13. CASE AwaitReady  BY <1>13 DEF AwaitReady
<1>14. CASE ReadRes  BY <1>14 DEF ReadRes
<1>15. CASE HandBack  BY <1>15 DEF HandBack
<1>16. CASE NextPiece  BY <1>16 DEF NextPiece
<1>17. CASE PieceFailed
  BY <1>17 DEF PieceFailed, Raise, WorkerIdle, NoTicket, Release
<1>18. CASE CollectMore  BY <1>18 DEF CollectMore
<1>19. CASE CollectLast  BY <1>19 DEF CollectLast, WorkerIdle, Release
<1>20. CASE CancelStore  BY <1>20 DEF CancelStore, WorkerIdle
<1>21. CASE WaitScan  BY <1>21 DEF WaitScan, WorkerIdle, IsDone, Live
<1>22. CASE LoopWake  BY <1>22 DEF LoopWake, HostIdle
<1>23. CASE SweepSkip  BY <1>23 DEF SweepSkip, SweepNext, HostIdle
<1>24. CASE SweepDone  BY <1>24 DEF SweepDone, HostIdle
<1>25. CASE Abandon  BY <1>25 DEF Abandon, SweepNext, HostIdle, DetachBoth
<1>26. CASE Take  BY <1>26 DEF Take
<1>27. CASE TakeLost  BY <1>27 DEF TakeLost, SweepNext, HostIdle
<1>28. CASE TakeContinue  BY <1>28 DEF TakeContinue, Replying, Taken
<1>29. CASE TakePush  BY <1>29 DEF TakePush, Replying, Taken
<1>30. CASE TakeDispatch
  BY <1>30 DEF TakeDispatch, SweepNext, HostIdle, Taken, Joined
<1>31. CASE TakeUnknown  BY <1>31 DEF TakeUnknown, Replying, Taken
<1>32. CASE Reply  BY <1>32 DEF Reply
<1>33. CASE WriteStale  BY <1>33 DEF WriteStale, Return, HostIdle
<1>34. CASE Write  BY <1>34 DEF Write, FreeBufs, FirstFree, TailOf
<1>35. CASE Publish  BY <1>35 DEF Publish, Return, HostIdle, PublishWins
<1>36. CASE PublishLost  BY <1>36 DEF PublishLost, Return, HostIdle, PublishWins
<1>37. CASE FailSkip  BY <1>37 DEF FailSkip
<1>38. CASE FailSlot  BY <1>38 DEF FailSlot, Replying, DetachRequest
<1>39. CASE FailDone  BY <1>39 DEF FailDone, HostIdle
<1>40. ASSUME NEW k \in handlers, Complete(k)
       PROVE  WorkersSlot'
  BY <1>40 DEF Complete, HostIdle, StillOurs
<1>41. CASE Stop  BY <1>41 DEF Stop, HostIdle
<1>p. CASE Program
  BY <1>p, <1>5, <1>6, <1>7, <1>8, <1>9
  DEF Program
<1>w. CASE Worker
  BY <1>w, <1>10, <1>1, <1>2, <1>11, <1>3, <1>4, <1>12, <1>13, <1>14, <1>15, <1>16,
     <1>17, <1>18, <1>19, <1>20, <1>21
  DEF Worker, Wake
<1>h. CASE Host
  BY <1>h, <1>22, <1>23, <1>24, <1>25, <1>26, <1>27, <1>28, <1>29, <1>30, <1>31,
     <1>32, <1>33, <1>34, <1>35, <1>36, <1>37, <1>38, <1>39
  DEF Host
<1>t. CASE Timeout  BY <1>t, <1>2 DEF Timeout
<1>d. CASE HandlerDone  BY <1>d, <1>40 DEF HandlerDone
<1>s. CASE Stop  BY <1>s, <1>41
<1>. QED  BY <1>p, <1>w, <1>h, <1>t, <1>d, <1>s DEF Next

\* publish, take, abandon and failPending attach and detach requests in that order.
LEMMA AttachedStep == ASSUME IInv, Next PROVE RequestAttached'
<1> USE DEF IInv, reqPool, resArea, program, tables
<1> USE DEF RequestAttached, WorkersSlot, WorkerAt, HostAt, TypeOK, HostRegs, Slots,
   Bufs
<1>1. ASSUME NEW c \in Calls, CancelReady(c)
      PROVE  RequestAttached'
  BY <1>1 DEF CancelReady, Release, Live
<1>2. CASE ClaimSlot  BY SMTT(60), <1>2 DEF ClaimSlot
<1>3. CASE PublishPiece  BY SMTT(60), <1>3 DEF PublishPiece, WorkerIdle
<1>4. CASE PieceFailed  BY <1>4 DEF PieceFailed, Raise, WorkerIdle, NoTicket, Release
<1>5. CASE CollectMore  BY SMTT(60), <1>5 DEF CollectMore
<1>6. CASE CollectLast  BY <1>6 DEF CollectLast, WorkerIdle, Release
<1>7. CASE CancelStore  BY <1>7 DEF CancelStore, WorkerIdle
<1>8. CASE LoopWake  BY <1>8 DEF LoopWake, HostIdle
<1>9. CASE SweepSkip  BY <1>9 DEF SweepSkip, SweepNext, HostIdle
<1>10. CASE SweepDone  BY <1>10 DEF SweepDone, HostIdle
<1>11. CASE Abandon  BY <1>11 DEF Abandon, SweepNext, HostIdle, DetachBoth
<1>12. CASE Take  BY <1>12 DEF Take
<1>13. CASE TakeLost  BY <1>13 DEF TakeLost, SweepNext, HostIdle
<1>14. CASE TakeContinue  BY <1>14 DEF TakeContinue, Replying, Taken
<1>15. CASE TakePush  BY <1>15 DEF TakePush, Replying, Taken
<1>16. CASE TakeDispatch
  BY <1>16 DEF TakeDispatch, SweepNext, HostIdle, Taken, Joined
<1>17. CASE TakeUnknown  BY <1>17 DEF TakeUnknown, Replying, Taken
<1>18. CASE Reply  BY <1>18 DEF Reply
<1>19. CASE WriteStale  BY <1>19 DEF WriteStale, Return, HostIdle
<1>20. CASE Write  BY <1>20 DEF Write, FreeBufs, FirstFree, TailOf
<1>21. CASE Publish  BY <1>21 DEF Publish, Return, HostIdle, PublishWins
<1>22. CASE PublishLost  BY <1>22 DEF PublishLost, Return, HostIdle, PublishWins
<1>23. CASE FailSkip  BY <1>23 DEF FailSkip
<1>24. CASE FailSlot  BY ZenonT(60), <1>24 DEF FailSlot, Replying, DetachRequest
<1>25. CASE FailDone  BY <1>25 DEF FailDone, HostIdle
<1>26. ASSUME NEW k \in handlers, Complete(k)
       PROVE  RequestAttached'
  BY <1>26 DEF Complete, HostIdle, StillOurs
<1>27. CASE Stop  BY <1>27 DEF Stop, HostIdle
<1>f. CASE UNCHANGED <<status, op, reqBuf, reqMem, h>>  BY <1>f
<1>p. CASE Program
  BY <1>p, <1>1, <1>f
  DEF Program, Submit, Collect, CancelBump, WaitAny
<1>w. CASE Worker
  BY <1>w, <1>2, <1>3, <1>4, <1>5, <1>6, <1>7, <1>f
  DEF Worker, Look, Park, Unpark, ClaimNext, TakeReqBuf, AwaitReady, ReadRes,
     HandBack, NextPiece, WaitScan, Wake
<1>h. CASE Host
  BY <1>h, <1>8, <1>9, <1>10, <1>11, <1>12, <1>13, <1>14, <1>15, <1>16, <1>17, <1>18,
     <1>19, <1>20, <1>21, <1>22, <1>23, <1>24, <1>25
  DEF Host
<1>t. CASE Timeout  BY <1>t, <1>f DEF Timeout, Unpark
<1>d. CASE HandlerDone  BY <1>d, <1>26 DEF HandlerDone
<1>s. CASE Stop  BY <1>s, <1>27
<1>. QED  BY <1>p, <1>w, <1>h, <1>t, <1>d, <1>s DEF Next

\* No step makes up a request: pieces, joins and copies stay with submitted calls.
LEMMA KnownStep == ASSUME IInv, Next PROVE RequestsKnown'
<1> USE DEF IInv, reqPool, resArea, program, tables
<1>1. CASE PublishPiece
  <2>1. w.call \in Given /\ w.sent + 1 \in Nat
    BY <1>1 DEF PublishPiece, WorkerAt, WorkerRegs, TypeOK
  <2>2. Ours(<< <<w.call, w.sent + 1>> >>)  BY <2>1, OursFacts
  <2>3. \A p : Ours(p)' <=> Ours(p)  BY <1>1 DEF PublishPiece, Ours, Given
  <2>. QED  BY <1>1, <2>2, <2>3 DEF PublishPiece, RequestsKnown, TypeOK
<1>2. CASE Take
  <2>1. h.slot \in Slots  BY <1>2 DEF Take, HostAt, TypeOK, HostRegs, Slots
  <2> DEFINE bytes == IF reqBuf[h.slot] = 0 THEN <<>> ELSE reqMem[reqBuf[h.slot]]
  <2>2. Ours(bytes)
    <3>1. reqBuf[h.slot] # 0 => reqBuf[h.slot] \in Bufs  BY <2>1 DEF TypeOK, Bufs
    <3>. QED  BY <3>1, OursFacts DEF RequestsKnown
  <2>3. h'.payload = bytes  BY <1>2 DEF Take, TypeOK, HostRegs
  <2> HIDE DEF bytes
  <2>. QED  BY <1>2, <2>2, <2>3 DEF Take, RequestsKnown, Ours, Given
<1>3. CASE TakePush
  <2>1. h.slot \in Slots  BY <1>3 DEF TakePush, Taken, HostAt
  <2>2. Ours(partial[h.slot] \o h.payload)
    BY <2>1, OursFacts DEF RequestsKnown, TypeOK, HostRegs
  <2>3. h'.payload = <<>>  BY <1>3 DEF TakePush, Replying, TypeOK, HostRegs
  <2>4. \A p : Ours(p)' <=> Ours(p)  BY <1>3 DEF TakePush, Taken, Ours, Given
  <2>. QED
    BY <1>3, <2>1, <2>2, <2>3, <2>4, OursFacts DEF TakePush, Taken, RequestsKnown, TypeOK
<1>4. CASE TakeDispatch
  <2>1. h.slot \in Slots /\ op[h.slot] # "CONTINUE" /\ status[h.slot] = "PENDING"
    BY <1>4 DEF TakeDispatch, Taken, HostAt
  <2>2. h.payload # <<>>  BY <1>4, <2>1 DEF TakeDispatch, Taken, RequestAttached
  <2>3. partial[h.slot] \in Payloads /\ h.payload \in Payloads  BY <2>1 DEF TypeOK, HostRegs
  <2>4. Ours(Joined(h.slot))  BY <2>1, <2>3, OursFacts DEF RequestsKnown, Joined
  <2>5. Joined(h.slot) # <<>>  BY <2>2, <2>3 DEF Joined, Payloads
  <2>6. h'.payload = <<>>  BY <1>4 DEF TakeDispatch, SweepNext, HostIdle
  <2>7. \A p : Ours(p)' <=> Ours(p)  BY <1>4 DEF TakeDispatch, Taken, Ours, Given
  <2>8. \A k \in handlers' : k.whole # <<>> /\ Ours(k.whole)
    BY <1>4, <2>4, <2>5 DEF TakeDispatch, RequestsKnown
  <2>9. \A s \in Slots : Ours(partial'[s])
    BY <1>4, <2>1, OursFacts DEF TakeDispatch, RequestsKnown, TypeOK
  <2>. QED
    BY <1>4, <2>6, <2>7, <2>8, <2>9, OursFacts DEF TakeDispatch, Taken, RequestsKnown
<1> USE DEF RequestsKnown, Ours, Given, TypeOK, HostRegs, Slots, Bufs
<1>5. ASSUME NEW sh \in Shapes, Submit(sh)
      PROVE  RequestsKnown'
  BY <1>5 DEF Submit, WorkerIdle
<1>6. CASE LoopWake  BY <1>6 DEF LoopWake, HostIdle
<1>7. CASE SweepSkip  BY <1>7 DEF SweepSkip, SweepNext, HostIdle
<1>8. CASE SweepDone  BY <1>8 DEF SweepDone, HostIdle
<1>9. CASE Abandon  BY <1>9 DEF Abandon, SweepNext, HostIdle, DetachBoth
<1>10. CASE TakeLost  BY <1>10 DEF TakeLost, SweepNext, HostIdle
<1>11. CASE TakeContinue  BY <1>11 DEF TakeContinue, Replying, Taken
<1>12. CASE TakeUnknown  BY <1>12 DEF TakeUnknown, Replying, Taken
<1>13. CASE Reply  BY <1>13 DEF Reply
<1>14. CASE WriteStale  BY <1>14 DEF WriteStale, Return, HostIdle
<1>15. CASE Write  BY <1>15 DEF Write, FreeBufs, FirstFree, TailOf
<1>16. CASE Publish  BY <1>16 DEF Publish, Return, HostIdle, PublishWins
<1>17. CASE PublishLost  BY <1>17 DEF PublishLost, Return, HostIdle, PublishWins
<1>18. CASE FailSkip  BY <1>18 DEF FailSkip
<1>19. CASE FailSlot  BY <1>19 DEF FailSlot, Replying, DetachRequest
<1>20. CASE FailDone  BY <1>20 DEF FailDone, HostIdle
<1>21. ASSUME NEW k \in handlers, Complete(k)
       PROVE  RequestsKnown'
  BY <1>21 DEF Complete, HostIdle, StillOurs
<1>22. CASE Stop  BY <1>22 DEF Stop, HostIdle
<1>f. CASE UNCHANGED <<reqMem, shape, h, partial, handlers>>  BY <1>f
<1>p. CASE Program
  BY <1>p, <1>5, <1>f
  DEF Program, Collect, CancelReady, CancelBump, WaitAny, Release
<1>w. CASE Worker
  BY <1>w, <1>1, <1>f
  DEF Worker, Look, Park, Unpark, ClaimSlot, ClaimNext, TakeReqBuf, AwaitReady,
     ReadRes, HandBack, NextPiece, PieceFailed, CollectMore, CollectLast, CancelStore,
     WaitScan, Wake, Release
<1>h. CASE Host
  BY <1>h, <1>6, <1>7, <1>8, <1>9, <1>2, <1>10, <1>11, <1>3, <1>4, <1>12, <1>13,
     <1>14, <1>15, <1>16, <1>17, <1>18, <1>19, <1>20
  DEF Host
<1>t. CASE Timeout  BY <1>t, <1>f DEF Timeout, Unpark
<1>d. CASE HandlerDone  BY <1>d, <1>21 DEF HandlerDone
<1>s. CASE Stop  BY <1>s, <1>22
<1>. QED  BY <1>p, <1>w, <1>h, <1>t, <1>d, <1>s DEF Next

\* No step loses a request buffer or gives one to two slots.
LEMMA PoolStep == ASSUME IInv, Next PROVE ReqPoolExact'
<1> USE DEF IInv, reqPool, resArea, program, tables
<1>1. ASSUME NEW timeout \in BOOLEAN, Unpark(timeout) PROVE ReqPoolExact'
  <2>1. w.pc # "fill" /\ w'.pc # "fill"
    BY <1>1, UnparkCases
  <2>. QED  BY <1>1, <2>1 DEF Unpark, ReqPoolExact
<1>2. CASE ClaimNext
  <2>1. w.pc # "fill" /\ w'.pc # "fill"
    BY <1>2, ClaimNextCases
  <2>. QED  BY <1>2, <2>1 DEF ClaimNext, ReqPoolExact
<1>3. CASE TakeReqBuf
  <2>1. CASE FreeBufs(reqHeld) = {}
    BY <1>3, <2>1 DEF TakeReqBuf, ReqPoolExact, TypeOK, WorkerRegs
  <2>2. CASE FreeBufs(reqHeld) # {}
    <3> DEFINE b == FirstFree(reqHeld)
    <3>1. b \in Bufs /\ b \notin reqHeld  BY <2>2, FirstFreeType
    <3>2. b # 0  BY <3>1 DEF Bufs
    <3>3. /\ reqHeld' = reqHeld \union {b} /\ reqBuf' = reqBuf
          /\ w.pc # "fill" /\ w'.pc = "fill" /\ w'.buf = b
      BY <1>3, <2>2 DEF TakeReqBuf, TypeOK, WorkerRegs
    <3> HIDE DEF b
    <3>. QED  BY <3>1, <3>2, <3>3 DEF ReqPoolExact
  <2>. QED  BY <2>1, <2>2
<1>4. CASE PublishPiece
  <2> DEFINE s0 == w.slot
             b0 == w.buf
  <2>1. s0 \in Slots /\ b0 \in Bufs /\ b0 # 0 /\ status[s0] \in {"CLAIMED", "READY"}
    BY <1>4 DEF PublishPiece, WorkerAt, WorkersSlot, Bufs
  <2>2. reqBuf[s0] = 0  BY <2>1 DEF RequestAttached
  <2>3. w'.pc # "fill"  BY <1>4 DEF PublishPiece, WorkerIdle, TypeOK, WorkerRegs
  <2>4. w.pc = "fill" /\ reqBuf' = [reqBuf EXCEPT ![s0] = b0] /\ reqHeld' = reqHeld
    BY <1>4 DEF PublishPiece
  <2>5. \A s \in Slots : reqBuf'[s] = IF s = s0 THEN b0 ELSE reqBuf[s]
    BY <2>1, <2>4 DEF TypeOK
  <2>6. b0 \in reqHeld /\ \A s \in Slots : reqBuf[s] # b0  BY <2>4 DEF ReqPoolExact
  <2>7. ReqPoolExact!1'  BY <2>5, <2>6 DEF ReqPoolExact
  <2>8. ReqPoolExact!2'  BY <2>4, <2>5, <2>6 DEF ReqPoolExact
  <2>9. ReqPoolExact!3'
    <3>1. SUFFICES ASSUME NEW b \in reqHeld PROVE \E s \in Slots : reqBuf'[s] = b
      BY <2>4
    <3>2. CASE b = b0  BY <3>2, <2>1, <2>5
    <3>3. CASE b # b0
      <4>1. PICK s \in Slots : reqBuf[s] = b  BY <3>3 DEF ReqPoolExact
      <4>2. b # 0  BY DEF TypeOK, Bufs
      <4>. QED  BY <4>1, <4>2, <2>2, <2>5
    <3>. QED  BY <3>2, <3>3
  <2>. QED  BY <2>3, <2>7, <2>8, <2>9 DEF ReqPoolExact
<1>5. CASE FailSlot
  <2>1. h.slot \in Slots  BY <1>5 DEF FailSlot, HostAt, TypeOK, HostRegs, Slots
  <2>2. CASE status[h.slot] = "PENDING"
    <3>1. /\ reqBuf' = [reqBuf EXCEPT ![h.slot] = 0]
          /\ reqHeld' = reqHeld \ {reqBuf[h.slot]} /\ w' = w
      BY <1>5, <2>2 DEF FailSlot, DetachRequest
    <3>. QED  BY <3>1, <2>1, <1>5 DEF ReqPoolExact, TypeOK, Bufs
  <2>3. CASE status[h.slot] # "PENDING"
    BY <1>5, <2>3 DEF FailSlot, ReqPoolExact
  <2>. QED  BY <2>2, <2>3
<1> USE DEF ReqPoolExact, RequestAttached, WorkersSlot, WorkerAt, HostAt, TypeOK,
   WorkerRegs, HostRegs, Slots, Bufs
<1>6. ASSUME NEW sh \in Shapes, Submit(sh)
      PROVE  ReqPoolExact'
  BY <1>6 DEF Submit, WorkerIdle
<1>7. ASSUME NEW c \in Calls, Collect(c)
      PROVE  ReqPoolExact'
  BY <1>7 DEF Collect, WorkerIdle, Live
<1>8. ASSUME NEW c \in Calls, CancelBump(c)
      PROVE  ReqPoolExact'
  BY <1>8 DEF CancelBump, WorkerIdle, Live
<1>9. ASSUME NEW set \in SUBSET Calls, NEW timed \in BOOLEAN, WaitAny(set, timed)
      PROVE  ReqPoolExact'
  BY <1>9 DEF WaitAny, WorkerIdle
<1>10. CASE Look  BY <1>10 DEF Look
<1>11. CASE Park  BY <1>11 DEF Park, Raise, WorkerIdle, NoTicket
<1>12. CASE ClaimSlot  BY <1>12 DEF ClaimSlot
<1>13. CASE AwaitReady  BY <1>13 DEF AwaitReady
<1>14. CASE ReadRes  BY <1>14 DEF ReadRes
<1>15. CASE HandBack  BY <1>15 DEF HandBack
<1>16. CASE NextPiece  BY <1>16 DEF NextPiece
<1>17. CASE PieceFailed
  BY <1>17 DEF PieceFailed, Raise, WorkerIdle, NoTicket, Release
<1>18. CASE CollectMore  BY <1>18 DEF CollectMore
<1>19. CASE CollectLast  BY <1>19 DEF CollectLast, WorkerIdle, Release
<1>20. CASE CancelStore  BY <1>20 DEF CancelStore, WorkerIdle
<1>21. CASE WaitScan  BY <1>21 DEF WaitScan, WorkerIdle, IsDone, Live
<1>22. CASE Abandon  BY <1>22 DEF Abandon, SweepNext, HostIdle, DetachBoth
<1>23. CASE Take  BY SMTT(60), <1>23 DEF Take
<1>f. CASE UNCHANGED <<reqBuf, reqHeld, w>>  BY <1>f
<1>p. CASE Program
  BY <1>p, <1>6, <1>7, <1>8, <1>9, <1>f
  DEF Program, CancelReady, Release
<1>w. CASE Worker
  BY <1>w, <1>10, <1>11, <1>1, <1>12, <1>2, <1>3, <1>4, <1>13, <1>14, <1>15, <1>16,
     <1>17, <1>18, <1>19, <1>20, <1>21
  DEF Worker, Wake
<1>h. CASE Host
  BY <1>h, <1>22, <1>23, <1>5, <1>f
  DEF Host, LoopWake, SweepSkip, SweepDone, TakeLost, TakeContinue, TakePush,
     TakeDispatch, TakeUnknown, Reply, WriteStale, Write, Publish, PublishLost,
     FailSkip, FailDone, Taken
<1>t. CASE Timeout  BY <1>t, <1>1 DEF Timeout
<1>d. CASE HandlerDone  BY <1>d, <1>f DEF HandlerDone, Complete
<1>s. CASE Stop  BY <1>s, <1>f DEF Stop
<1>. QED  BY <1>p, <1>w, <1>h, <1>t, <1>d, <1>s DEF Next

-----------------------------------------------------------------------------
\* The responder and the worker start in a state that satisfies the invariant.
LEMMA InitInv == ASSUME Init PROVE IInv
<1>1. TypeOK
  <2>1. NoTicket \in Tickets  BY Idles DEF NoTicket, Tickets
  <2>2. w \in WorkerRegs /\ h \in HostRegs  BY Idles DEF Init
  <2>3. ticket \in [Calls -> Tickets] /\ shape \in Seq(Shapes)  BY <2>1 DEF Init
  <2>. QED
    BY <2>2, <2>3, Idles DEF Init, TypeOK, States, Ops, ResStatus
<1>2. WorkerAt
  BY DEF Init, WorkerAt, WorkerIdle
<1>3. HostAt /\ WorkersSlot
  BY SizesAssumption DEF Init, HostAt, WorkersSlot, WorkerIdle, HostIdle
<1>4. RequestAttached  BY DEF Init, RequestAttached
<1>5. RequestsKnown  BY DEF Init, RequestsKnown, Ours, HostIdle
<1>6. ReqPoolExact  BY DEF Init, ReqPoolExact, WorkerIdle
<1>. QED  BY <1>1, <1>2, <1>3, <1>4, <1>5, <1>6 DEF IInv

\* A step that changes nothing keeps the invariant.
LEMMA StutterInv == ASSUME IInv, UNCHANGED vars PROVE IInv'
<1> USE DEF vars, reqPool, resArea, program, tables
<1>1. TypeOK'  BY DEF IInv, TypeOK
<1>2. WorkerAt' /\ HostAt'  BY DEF IInv, WorkerAt, HostAt, Given
<1>3. WorkersSlot'  BY DEF IInv, WorkersSlot
<1>4. RequestAttached'  BY DEF IInv, RequestAttached
<1>5. RequestsKnown'  BY DEF IInv, RequestsKnown, Ours, Given
<1>6. ReqPoolExact'  BY DEF IInv, ReqPoolExact
<1>. QED  BY <1>1, <1>2, <1>3, <1>4, <1>5, <1>6 DEF IInv

\* The invariant holds in every state of every execution of the bridge.
THEOREM Invariance == Spec => []IInv
<1>1. Init => IInv  BY InitInv
<1>2. IInv /\ [Next]_vars => IInv'
  <2>1. ASSUME IInv, Next PROVE IInv'
    BY <2>1, TypeStep, WorkerStep, HostStep, SlotStep, AttachedStep, KnownStep, PoolStep
    DEF IInv
  <2>. QED  BY <2>1, StutterInv
<1>. QED  BY <1>1, <1>2, PTL DEF Spec

\* Every register of call.ts and respond.ts and every word of the control block
\* holds a value of its kind, for every ring, pool and number of calls.
THEOREM TypeCorrect == Spec => []TypeOK
<1>1. IInv => TypeOK  BY DEF IInv
<1>. QED  BY <1>1, Invariance, PTL

\* takeReqBuf, publish, take, abandon and failPending never lose a request buffer
\* and never give one to two slots, for every ring, pool and number of calls and
\* whatever the program cancels, abandons or stops.
THEOREM RequestPool == Spec => []ReqPoolExact
<1>1. IInv => ReqPoolExact  BY DEF IInv
<1>. QED  BY <1>1, Invariance, PTL

-----------------------------------------------------------------------------
(* The slots *)

\* Call c is the one whose ticket slot s answers to now.
Holds(c, s) == ticket[c].slot = s /\ ticket[c].gen = gen[s]

-----------------------------------------------------------------------------
(* Tickets: invariants of every bridge *)

\* Calls are numbered as they are submitted, and the one being submitted is the last.
Numbered ==
    /\ \A c \in Calls : c \notin Given => ticket[c] = NoTicket
    /\ w.fn = "submit" => w.call = Len(shape)

\* From claim on, a submit holds its slot by its ticket, and so does a collect.
WorkerHolds ==
    /\ w.fn = "submit" /\ w.loop = "claim" => ticket[w.call] = NoTicket
    /\ w.fn = "submit" /\ w.loop # "claim" => Holds(w.call, w.slot)
    /\ w.fn = "collect" => w.call \in Given /\ Holds(w.call, w.slot)

\* No ticket is ahead of its slot, and no two are the same.
TicketsApart ==
    /\ \A c \in Calls : ticket[c].slot # 0 => ticket[c].gen <= gen[ticket[c].slot]
    /\ \A c, d \in Calls :
          ticket[c].slot # 0 /\ ticket[c].slot = ticket[d].slot /\ ticket[c].gen = ticket[d].gen
            => c = d

\* Nobody holds a free slot, nor one that is being or has been cancelled.
Loose(s) == status[s] \in {"FREE", "CANCELLED"} \/ (w.pc = "cancel" /\ w.slot = s)
Unheld == \A s \in Slots : Loose(s) => \A c \in Calls : ~Holds(c, s)

\* Every slot that claim has passed over holds an answer, as far as it has noted.
Scanned ==
    w.pc = "claim" /\ w.allReady => \A s \in Slots : s < w.slot => status[s] = "READY"

\* failPending is running only in a responder that has gone, which stop() alone does.
StopAt ==
    /\ h.pc = "fail" \/ h.ret = "fail" => hostGone
    /\ hostGone => MayStop

TInv == /\ Numbered /\ WorkerHolds /\ TicketsApart /\ Unheld
        /\ Scanned /\ StopAt /\ NoSlotStranded

-----------------------------------------------------------------------------
(* The response: invariants while nothing is cancelled before it is taken *)

\* The host is in reply or write, for the slot h.slot.
Replies == h.pc \in {"reply", "write", "publish"}
\* The responder is there, and only calls the host has taken are cancelled.
Quiet == ~hostGone /\ "PENDING" \notin CancelFrom

\* stillOurs() of a handler.
Current(k) == k.gen = gen[k.slot]

\* The slot the host works on is in the state take, reply or write found it in, or was
\* cancelled since it was taken; a cancel under way is of a slot the host has taken.
HostsSlot ==
    /\ h.pc = "taken" => status[h.slot] = "PENDING" /\ h.gen = gen[h.slot]
    /\ Replies => status[h.slot] \in {"RUNNING", "CANCELLED"}
    /\ w.pc = "cancel" => status[w.slot] \in {"RUNNING", "READY"}

\* A handler whose generation is still its slot's is the only one there, its slot runs, and
\* nobody is answering or cancelling it.
HandlersRun ==
    /\ \A k \in handlers : k.gen <= gen[k.slot]
    /\ \A k \in handlers : Current(k) =>
          /\ status[k.slot] = "RUNNING"
          /\ ~(Replies /\ h.slot = k.slot)
          /\ ~(w.pc = "cancel" /\ w.slot = k.slot)
    /\ \A k, l \in handlers : Current(k) /\ k.slot = l.slot /\ k.gen = l.gen => k = l

\* A response buffer is attached from write until readRes or release, and at no other time.
ResponseAttached ==
    /\ \A s \in Slots : resBuf[s] # 0 =>
          \/ status[s] \in {"READY", "CANCELLED"}
          \/ h.pc = "publish" /\ h.slot = s
    /\ h.pc \in {"reply", "write"} => resBuf[h.slot] = 0
    /\ w.pc = "handback" => w.buf = resBuf[w.slot]
    /\ w.pc = "decide" \/ w.loop = "reqbuf" => resBuf[w.slot] = 0

RInv == HostsSlot /\ HandlersRun /\ ResponseAttached /\ ResPoolExact

-----------------------------------------------------------------------------
(* What the steps that wait or raise do, field by field *)

\* The call goes on: its registers are as they were, its place in the code apart.
GoesOn == /\ w'.fn = w.fn /\ w'.loop = w.loop /\ w'.call = w.call /\ w'.sent = w.sent
          /\ w'.buf = w.buf /\ w'.status = w.status /\ w'.bytes = w.bytes
          /\ w'.got = w.got /\ ticket' = ticket

\* gone() and the other throws: a submit that raises hands out no ticket.
LEMMA RaiseEffect ==
    ASSUME TypeOK, Raise
    PROVE  /\ w'.pc = "idle" /\ w'.fn = "none" /\ w'.loop = "none" /\ w' = WorkerIdle
           /\ \A c \in Calls : ticket'[c] = IF w.fn = "submit" /\ c = w.call THEN NoTicket
                                           ELSE ticket[c]
BY DEF Raise, WorkerIdle, TypeOK, WorkerRegs

\* parkForHost, before and after the wait: gone() raises, or the loop goes on.
LEMMA ParkEffect ==
    ASSUME TypeOK, Park \/ \E t \in BOOLEAN : Unpark(t)
    PROVE  /\ w.pc \in {"park", "parked"}
           /\ UNCHANGED <<status, gen, op, reqPool, resArea, hostGone, shape, h, tables>>
           /\ \/ hostGone /\ Raise
              \/ ~hostGone /\ GoesOn /\ w'.slot = w.slot /\ w'.pc \in {"parked", "seen"}
<1>1. CASE Park
  <2>1. CASE hostGone  BY <1>1, <2>1 DEF Park
  <2>2. CASE ~hostGone  BY <1>1, <2>2 DEF Park, GoesOn, TypeOK, WorkerRegs
  <2>. QED  BY <2>1, <2>2
<1>2. ASSUME NEW t \in BOOLEAN, Unpark(t)
      PROVE  /\ w.pc \in {"park", "parked"}
             /\ UNCHANGED <<status, gen, op, reqPool, resArea, hostGone, shape, h, tables>>
             /\ \/ hostGone /\ Raise
                \/ ~hostGone /\ GoesOn /\ w'.slot = w.slot /\ w'.pc \in {"parked", "seen"}
  <2>1. CASE hostGone  BY <1>2, <2>1 DEF Unpark
  <2>2. CASE ~hostGone
    <3> DEFINE l == w.late \/ t
    <3>1. w' = [w EXCEPT !.pc = "seen", !.late = l] /\ ticket' = ticket  BY <1>2, <2>2 DEF Unpark
    <3> HIDE DEF l
    <3>. QED  BY <1>2, <2>2, <3>1 DEF Unpark, GoesOn, TypeOK, WorkerRegs
  <2>. QED  BY <2>1, <2>2
<1>. QED  BY <1>1, <1>2

\* claim at a slot that is not free: on to the next, park, or raise after the last.
LEMMA ClaimEffect ==
    ASSUME TypeOK, ClaimNext
    PROVE  /\ w.pc = "claim"
           /\ UNCHANGED <<status, gen, op, reqPool, resArea, hostGone, shape, h, tables>>
           /\ \/ /\ Raise /\ w.slot = N /\ w.allReady /\ status[w.slot] = "READY"
              \/ /\ GoesOn /\ w.slot < N /\ w'.pc = "claim" /\ w'.slot = w.slot + 1
                 /\ w'.allReady = (w.allReady /\ status[w.slot] = "READY")
              \/ GoesOn /\ w'.pc = "park" /\ w'.slot = w.slot
<1> DEFINE all == w.allReady /\ HoldsAnswer(w.slot)
<1>1. /\ w.pc = "claim"
      /\ UNCHANGED <<status, gen, op, reqPool, resArea, hostGone, shape, h, tables>>
  BY DEF ClaimNext
<1>2. \/ w.slot < N /\ w' = [w EXCEPT !.slot = @ + 1, !.allReady = all] /\ UNCHANGED ticket
      \/ w.slot = N /\ all /\ Raise
      \/ w' = [w EXCEPT !.pc = "park"] /\ UNCHANGED ticket
  BY DEF ClaimNext
<1>3. all = (w.allReady /\ status[w.slot] = "READY")  BY DEF HoldsAnswer
<1> HIDE DEF all
<1>4. CASE w.slot < N /\ w' = [w EXCEPT !.slot = @ + 1, !.allReady = all] /\ UNCHANGED ticket
  <2>1. GoesOn /\ w'.pc = "claim" /\ w'.slot = w.slot + 1 /\ w'.allReady = all
    BY <1>1, <1>4 DEF GoesOn, TypeOK, WorkerRegs
  <2>. QED  BY <1>1, <1>3, <1>4, <2>1
<1>5. CASE w.slot = N /\ all /\ Raise
  BY <1>1, <1>3, <1>5
<1>6. CASE w' = [w EXCEPT !.pc = "park"] /\ UNCHANGED ticket
  <2>1. GoesOn /\ w'.pc = "park" /\ w'.slot = w.slot  BY <1>6 DEF GoesOn, TypeOK, WorkerRegs
  <2>. QED  BY <1>1, <2>1
<1>. QED  BY <1>2, <1>4, <1>5, <1>6

\* takeReqBuf: a free buffer is taken, or the worker parks.
LEMMA TakeReqBufEffect ==
    ASSUME TypeOK, TakeReqBuf
    PROVE  /\ w.pc = "reqbuf" /\ w'.pc \in {"park", "fill"} /\ w'.slot = w.slot
           /\ w'.fn = w.fn /\ w'.loop = w.loop /\ w'.call = w.call /\ w'.sent = w.sent
           /\ w'.got = w.got
           /\ UNCHANGED <<status, gen, op, reqBuf, reqMem, resArea, hostGone, program, h,
                          tables>>
<1>1. w.pc = "reqbuf" /\ UNCHANGED <<status, gen, op, reqBuf, reqMem, resArea, hostGone, program, h, tables>>
  BY DEF TakeReqBuf
<1>2. \/ w' = [w EXCEPT !.pc = "park"] \/ \E b : w' = [w EXCEPT !.pc = "fill", !.buf = b]
  BY DEF TakeReqBuf
<1>. QED  BY <1>1, <1>2 DEF TypeOK, WorkerRegs

\* A ticket is its two words.
LEMMA TicketFields ==
    ASSUME TypeOK
    PROVE  /\ \A c \in Calls : ticket[c].slot \in 0 .. N /\ ticket[c].gen \in Nat
           /\ \A c \in Calls : \A s, g : ticket[c] = [slot |-> s, gen |-> g]
                                       <=> ticket[c].slot = s /\ ticket[c].gen = g
           /\ NoTicket.slot = 0 /\ NoTicket.gen = 0
BY DEF TypeOK, Tickets, NoTicket

\* release() and cancel move a slot's generation on, and with it every ticket dies.
LEMMA Bump ==
    ASSUME TypeOK, TicketsApart, NEW s \in Slots, gen' = [gen EXCEPT ![s] = @ + 1],
           \A c \in Calls : ticket'[c] = ticket[c] \/ ticket'[c] = NoTicket
    PROVE  /\ TicketsApart'
           /\ \A c \in Calls : ~(ticket'[c].slot = s /\ ticket'[c].gen = gen'[s])
           /\ \A t \in Slots : t # s => gen'[t] = gen[t]
<1>1. gen[s] \in Nat /\ gen'[s] = gen[s] + 1 /\ \A t \in Slots : t # s => gen'[t] = gen[t]
  BY DEF TypeOK
<1>2. \A c \in Calls : \/ ticket'[c].slot = ticket[c].slot /\ ticket'[c].gen = ticket[c].gen
                       \/ ticket'[c].slot = 0
  BY TicketFields
<1>3. \A c \in Calls : ticket[c].slot # 0 => ticket[c].slot \in Slots /\ ticket[c].gen \in Nat
  BY TicketFields, SizesAssumption DEF Slots
<1>4. \A c \in Calls : ticket'[c].slot # 0 => ticket'[c].gen <= gen[ticket'[c].slot]
  BY <1>2 DEF TicketsApart
<1>5. \A c \in Calls : ticket'[c].slot # 0 => /\ ticket'[c].gen <= gen'[ticket'[c].slot]
                                              /\ ticket'[c].slot = s => ticket'[c].gen < gen'[s]
  <2> TAKE c \in Calls
  <2> HAVE ticket'[c].slot # 0
  <2>1. ticket'[c].slot \in Slots /\ ticket'[c].gen \in Nat  BY <1>2, <1>3
  <2>2. gen[ticket'[c].slot] \in Nat  BY <2>1 DEF TypeOK
  <2>. QED  BY <1>1, <1>4, <2>1, <2>2
<1>6. s # 0 /\ gen'[s] \in Nat  BY <1>1, SizesAssumption DEF Slots
<1>7. \A c \in Calls : ~(ticket'[c].slot = s /\ ticket'[c].gen = gen'[s])  BY <1>5, <1>6
<1>. QED  BY <1>1, <1>2, <1>5, <1>7 DEF TicketsApart

\* What is written of a body when there is room for so many units.
Fits(body, room) == IF Len(body) > room THEN SubSeq(body, 1, room) ELSE body

\* write: the answer, or its first piece, goes to a buffer nobody holds or inline.
LEMMA WriteEffect ==
    ASSUME Write
    PROVE  /\ h.pc = "write" /\ gen[h.slot] = h.gen /\ h' = [h EXCEPT !.pc = "publish"]
           /\ UNCHANGED <<status, gen, op, reqPool, hostGone, w, program, partial, handlers>>
           /\ \E room \in {BUF, INLINE} :
                /\ \/ \E b \in Bufs : /\ b \notin resHeld /\ resHeld' = resHeld \union {b}
                                      /\ resMem' = [resMem EXCEPT ![b] = Fits(h.body, room)]
                                      /\ resBuf' = [resBuf EXCEPT ![h.slot] = b]
                                      /\ UNCHANGED inline
                   \/ /\ inline' = [inline EXCEPT ![h.slot] = Fits(h.body, room)]
                      /\ resBuf' = [resBuf EXCEPT ![h.slot] = 0]
                      /\ UNCHANGED <<resHeld, resMem>>
                /\ \/ /\ Len(h.body) > room
                      /\ resStatus' = [resStatus EXCEPT ![h.slot] = "MORE"]
                      /\ pending' = [pending EXCEPT ![h.slot] = TailOf(h.body, room)]
                      /\ finalStatus' = [finalStatus EXCEPT ![h.slot] = h.status]
                   \/ /\ ~(Len(h.body) > room)
                      /\ resStatus' = [resStatus EXCEPT ![h.slot] = h.status]
                      /\ UNCHANGED <<pending, finalStatus>>
<1>1. CASE Len(h.body) > INLINE /\ FreeBufs(resHeld) # {}
  <2> DEFINE b == FirstFree(resHeld)
  <2>1. b \in Bufs /\ b \notin resHeld  BY <1>1, FirstFreeType
  <2>2. /\ resHeld' = resHeld \union {b} /\ resBuf' = [resBuf EXCEPT ![h.slot] = b]
        /\ resMem' = [resMem EXCEPT ![b] = Fits(h.body, BUF)] /\ UNCHANGED inline
    BY <1>1 DEF Write, Fits
  <2>3. \/ /\ Len(h.body) > BUF
           /\ resStatus' = [resStatus EXCEPT ![h.slot] = "MORE"]
           /\ pending' = [pending EXCEPT ![h.slot] = TailOf(h.body, BUF)]
           /\ finalStatus' = [finalStatus EXCEPT ![h.slot] = h.status]
        \/ /\ ~(Len(h.body) > BUF)
           /\ resStatus' = [resStatus EXCEPT ![h.slot] = h.status]
           /\ UNCHANGED <<pending, finalStatus>>
    BY <1>1 DEF Write
  <2> HIDE DEF b
  <2>4. /\ h.pc = "write" /\ gen[h.slot] = h.gen /\ h' = [h EXCEPT !.pc = "publish"]
        /\ UNCHANGED <<status, gen, op, reqPool, hostGone, w, program, partial, handlers>>
    BY DEF Write
  <2>5. BUF \in {BUF, INLINE}  OBVIOUS
  <2>. QED  BY <2>1, <2>2, <2>3, <2>4, <2>5
<1>2. CASE ~(Len(h.body) > INLINE /\ FreeBufs(resHeld) # {})
  <2>2. /\ inline' = [inline EXCEPT ![h.slot] = Fits(h.body, INLINE)]
        /\ resBuf' = [resBuf EXCEPT ![h.slot] = 0] /\ UNCHANGED <<resHeld, resMem>>
    BY <1>2 DEF Write, Fits
  <2>3. \/ /\ Len(h.body) > INLINE
           /\ resStatus' = [resStatus EXCEPT ![h.slot] = "MORE"]
           /\ pending' = [pending EXCEPT ![h.slot] = TailOf(h.body, INLINE)]
           /\ finalStatus' = [finalStatus EXCEPT ![h.slot] = h.status]
        \/ /\ ~(Len(h.body) > INLINE)
           /\ resStatus' = [resStatus EXCEPT ![h.slot] = h.status]
           /\ UNCHANGED <<pending, finalStatus>>
    BY <1>2 DEF Write
  <2>4. /\ h.pc = "write" /\ gen[h.slot] = h.gen /\ h' = [h EXCEPT !.pc = "publish"]
        /\ UNCHANGED <<status, gen, op, reqPool, hostGone, w, program, partial, handlers>>
    BY DEF Write
  <2>5. INLINE \in {BUF, INLINE}  OBVIOUS
  <2>. QED  BY <2>2, <2>3, <2>4, <2>5
<1>. QED  BY <1>1, <1>2

\* A generation that moves on leaves the slot's handlers behind.
LEMMA HandlersBump ==
    ASSUME TypeOK, HandlersRun, NEW s \in Slots, gen' = [gen EXCEPT ![s] = @ + 1],
           handlers' = handlers, h' = h,
           \A x \in Slots : x # s => status'[x] = status[x],
           w'.pc = "cancel" => w'.slot = s
    PROVE  HandlersRun'
<1>1. gen[s] \in Nat /\ gen'[s] = gen[s] + 1 /\ \A x \in Slots : x # s => gen'[x] = gen[x]
  BY DEF TypeOK
<1>2. \A k \in handlers : k.slot \in Slots /\ k.gen \in Nat /\ gen[k.slot] \in Nat /\ k.gen <= gen[k.slot]
  BY DEF TypeOK, Handlers, HandlersRun
<1>3. \A k \in handlers : /\ k.gen <= gen'[k.slot]
                          /\ Current(k)' => Current(k) /\ k.slot # s
  <2> TAKE k \in handlers
  <2>1. CASE k.slot = s  BY <1>1, <1>2, <2>1 DEF Current
  <2>2. CASE k.slot # s  BY <1>1, <1>2, <2>2 DEF Current
  <2>. QED  BY <2>1, <2>2
<1>. QED  BY <1>2, <1>3 DEF HandlersRun, Replies

\* Submitting, claiming and raising keep the numbering.
LEMMA NumberedStep == ASSUME IInv, TInv, Next PROVE Numbered'
<1> USE DEF reqPool, resArea, program, tables
<1>a. TypeOK  BY DEF IInv
<1>1. CASE Park
  <2>1. CASE hostGone /\ Raise
    BY <1>1, <2>1, <1>a, RaiseEffect, ParkEffect DEF IInv, TInv, Numbered, WorkerHolds, Holds, Given, WorkerAt
  <2>2. CASE ~hostGone /\ GoesOn /\ w'.slot = w.slot /\ w'.pc \in {"parked", "seen"}
    BY <1>1, <2>2, <1>a, ParkEffect DEF GoesOn, IInv, TInv, Numbered, WorkerHolds, Holds, Given, WorkerAt
  <2>. QED  BY <1>1, <2>1, <2>2, <1>a, ParkEffect
<1>2. ASSUME NEW timeout \in BOOLEAN, Unpark(timeout) PROVE Numbered'
  <2>1. CASE hostGone /\ Raise
    BY <1>2, <2>1, <1>a, RaiseEffect, ParkEffect DEF IInv, TInv, Numbered, WorkerHolds, Holds, Given, WorkerAt
  <2>2. CASE ~hostGone /\ GoesOn /\ w'.slot = w.slot /\ w'.pc \in {"parked", "seen"}
    BY <1>2, <2>2, <1>a, ParkEffect DEF GoesOn, IInv, TInv, Numbered, WorkerHolds, Holds, Given, WorkerAt
  <2>. QED  BY <1>2, <2>1, <2>2, <1>a, ParkEffect
<1>3. CASE ClaimNext
  <2>0. /\ w.pc = "claim"
        /\ UNCHANGED <<status, gen, op, reqPool, resArea, hostGone, shape, h, tables>>
    BY <1>3, <1>a, ClaimEffect
  <2>1. CASE Raise
    BY <2>0, <2>1, <1>a, RaiseEffect DEF IInv, TInv, Numbered, WorkerHolds, Holds, Given, WorkerAt
  <2>2. CASE GoesOn /\ w'.pc \in {"claim", "park"}
    BY <2>0, <2>2 DEF GoesOn, IInv, TInv, Numbered, WorkerHolds, Holds, Given, WorkerAt
  <2>. QED  BY <1>3, <2>1, <2>2, <1>a, ClaimEffect
<1>4. CASE TakeReqBuf
  BY <1>4, <1>a, TakeReqBufEffect DEF IInv, TInv, Numbered, WorkerHolds, Holds, Given, WorkerAt
<1>5. ASSUME NEW sh \in Shapes, Submit(sh) PROVE Numbered'
  BY <1>5 DEF Submit, WorkerIdle, IInv, TInv, Numbered, WorkerHolds, Holds, Given,
     WorkerAt, TypeOK, WorkerRegs, Calls, NoTicket
<1>6. ASSUME NEW c \in Calls, Collect(c) PROVE Numbered'
  BY <1>6 DEF Collect, WorkerIdle, Live, IInv, TInv, Numbered, WorkerHolds, Holds,
     Given, WorkerAt, TypeOK, WorkerRegs, Calls, NoTicket
<1>7. ASSUME NEW c \in Calls, CancelBump(c) PROVE Numbered'
  BY <1>7 DEF CancelBump, WorkerIdle, Live, IInv, TInv, Numbered, WorkerHolds, Holds,
     Given, WorkerAt, TypeOK, WorkerRegs, Calls, NoTicket
<1>8. ASSUME NEW set \in SUBSET Calls, NEW timed \in BOOLEAN, WaitAny(set, timed) PROVE
      Numbered'
  BY <1>8 DEF WaitAny, WorkerIdle, IInv, TInv, Numbered, WorkerHolds, Holds, Given,
     WorkerAt, TypeOK, WorkerRegs, Calls, NoTicket
<1>9. CASE Look
  BY <1>9 DEF Look, IInv, TInv, Numbered, WorkerHolds, Holds, Given, WorkerAt, TypeOK,
     WorkerRegs, Calls, NoTicket
<1>10. CASE ClaimSlot
  BY <1>10 DEF ClaimSlot, IInv, TInv, Numbered, WorkerHolds, Holds, Given, WorkerAt,
     TypeOK, WorkerRegs, Calls, NoTicket
<1>11. CASE PublishPiece
  BY <1>11 DEF PublishPiece, WorkerIdle, IInv, TInv, Numbered, WorkerHolds, Holds,
     Given, WorkerAt, TypeOK, WorkerRegs, Calls, NoTicket
<1>12. CASE AwaitReady
  BY <1>12 DEF AwaitReady, IInv, TInv, Numbered, WorkerHolds, Holds, Given, WorkerAt,
     TypeOK, WorkerRegs, Calls, NoTicket
<1>13. CASE ReadRes
  BY <1>13 DEF ReadRes, IInv, TInv, Numbered, WorkerHolds, Holds, Given, WorkerAt,
     TypeOK, WorkerRegs, Calls, NoTicket
<1>14. CASE HandBack
  BY <1>14 DEF HandBack, IInv, TInv, Numbered, WorkerHolds, Holds, Given, WorkerAt,
     TypeOK, WorkerRegs, Calls, NoTicket
<1>15. CASE NextPiece
  BY <1>15 DEF NextPiece, IInv, TInv, Numbered, WorkerHolds, Holds, Given, WorkerAt,
     TypeOK, WorkerRegs, Calls, NoTicket
<1>16. CASE PieceFailed
  BY <1>16 DEF PieceFailed, Raise, WorkerIdle, NoTicket, Release, IInv, TInv, Numbered,
     WorkerHolds, Holds, Given, WorkerAt, TypeOK, WorkerRegs, Calls
<1>17. CASE CollectMore
  BY <1>17 DEF CollectMore, IInv, TInv, Numbered, WorkerHolds, Holds, Given, WorkerAt,
     TypeOK, WorkerRegs, Calls, NoTicket
<1>18. CASE CollectLast
  BY <1>18 DEF CollectLast, WorkerIdle, Release, IInv, TInv, Numbered, WorkerHolds,
     Holds, Given, WorkerAt, TypeOK, WorkerRegs, Calls, NoTicket
<1>19. CASE CancelStore
  BY <1>19 DEF CancelStore, WorkerIdle, IInv, TInv, Numbered, WorkerHolds, Holds, Given,
     WorkerAt, TypeOK, WorkerRegs, Calls, NoTicket
<1>20. CASE WaitScan
  BY <1>20 DEF WaitScan, WorkerIdle, IsDone, Live, IInv, TInv, Numbered, WorkerHolds,
     Holds, Given, WorkerAt, TypeOK, WorkerRegs, Calls, NoTicket
<1>f. CASE UNCHANGED <<shape, ticket, w>>  BY <1>f DEF TInv, Numbered, Holds, Given
<1>p. CASE Program
  BY <1>p, <1>5, <1>6, <1>7, <1>8, <1>f
  DEF Program, CancelReady, Release
<1>w. CASE Worker
  BY <1>w, <1>9, <1>1, <1>2, <1>10, <1>3, <1>4, <1>11, <1>12, <1>13, <1>14, <1>15,
     <1>16, <1>17, <1>18, <1>19, <1>20
  DEF Worker, Wake
<1>h. CASE Host
  BY <1>h, <1>f
  DEF Host, LoopWake, SweepSkip, SweepDone, Abandon, Take, TakeLost, TakeContinue,
      TakePush, TakeDispatch, TakeUnknown, Reply, WriteStale, Write, Publish,
      PublishLost, FailSkip, FailSlot, FailDone, DetachBoth, Taken, DetachRequest
<1>t. CASE Timeout  BY <1>t, <1>2 DEF Timeout
<1>d. CASE HandlerDone  BY <1>d, <1>f DEF HandlerDone, Complete
<1>s. CASE Stop  BY <1>s, <1>f DEF Stop
<1>. QED  BY <1>p, <1>w, <1>h, <1>t, <1>d, <1>s DEF Next

\* The worker keeps the slot it claimed or is collecting from until it lets it go.
LEMMA WorkerHoldsStep == ASSUME IInv, TInv, Next PROVE WorkerHolds'
<1> USE DEF reqPool, resArea, program, tables
<1>a. TypeOK  BY DEF IInv
<1>1. ASSUME NEW sh \in Shapes, Submit(sh) PROVE WorkerHolds'
  <2>0. Len(shape) \in Nat  BY <1>a DEF TypeOK
  <2>1. Len(shape) + 1 \in Calls /\ Len(shape) + 1 \notin Given
    BY <1>1, <2>0, SizesAssumption DEF Submit, Calls, Given
  <2>2. ticket[Len(shape) + 1] = NoTicket  BY <2>1 DEF TInv, Numbered
  <2>. QED  BY <1>1, <2>2 DEF Submit, WorkerIdle, WorkerHolds
<1>2. ASSUME NEW c \in Calls, Collect(c) PROVE WorkerHolds'
  <2>1. ticket[c] = [slot |-> ticket[c].slot, gen |-> gen[ticket[c].slot]] /\ ticket[c] # NoTicket
    BY <1>2 DEF Collect, Live, IInv, TypeOK, Tickets, NoTicket
  <2>2. c \in Given  BY <2>1 DEF TInv, Numbered
  <2>. QED  BY <1>2, <2>1, <2>2 DEF Collect, WorkerIdle, WorkerHolds, Holds, Given
<1>3. CASE Park
  <2>1. CASE hostGone /\ Raise
    BY <1>3, <2>1, <1>a, RaiseEffect, ParkEffect DEF IInv, TInv, Numbered, WorkerHolds, Holds, Given, WorkerAt
  <2>2. CASE ~hostGone /\ GoesOn /\ w'.slot = w.slot /\ w'.pc \in {"parked", "seen"}
    BY <1>3, <2>2, <1>a, ParkEffect DEF GoesOn, IInv, TInv, Numbered, WorkerHolds, Holds, Given, WorkerAt
  <2>. QED  BY <1>3, <2>1, <2>2, <1>a, ParkEffect
<1>4. ASSUME NEW timeout \in BOOLEAN, Unpark(timeout) PROVE WorkerHolds'
  <2>1. CASE hostGone /\ Raise
    BY <1>4, <2>1, <1>a, RaiseEffect, ParkEffect DEF IInv, TInv, Numbered, WorkerHolds, Holds, Given, WorkerAt
  <2>2. CASE ~hostGone /\ GoesOn /\ w'.slot = w.slot /\ w'.pc \in {"parked", "seen"}
    BY <1>4, <2>2, <1>a, ParkEffect DEF GoesOn, IInv, TInv, Numbered, WorkerHolds, Holds, Given, WorkerAt
  <2>. QED  BY <1>4, <2>1, <2>2, <1>a, ParkEffect
<1>5. CASE ClaimNext
  <2>0. /\ w.pc = "claim"
        /\ UNCHANGED <<status, gen, op, reqPool, resArea, hostGone, shape, h, tables>>
    BY <1>5, <1>a, ClaimEffect
  <2>1. CASE Raise
    BY <2>0, <2>1, <1>a, RaiseEffect DEF IInv, TInv, Numbered, WorkerHolds, Holds, Given, WorkerAt
  <2>2. CASE GoesOn /\ w'.pc \in {"claim", "park"}
    BY <2>0, <2>2 DEF GoesOn, IInv, TInv, Numbered, WorkerHolds, Holds, Given, WorkerAt
  <2>. QED  BY <1>5, <2>1, <2>2, <1>a, ClaimEffect
<1>6. CASE TakeReqBuf
  BY <1>6, <1>a, TakeReqBufEffect DEF IInv, TInv, Numbered, WorkerHolds, Holds, Given, WorkerAt
<1>7. ASSUME NEW c \in Calls, CancelReady(c) PROVE WorkerHolds'
  BY <1>7 DEF CancelReady, Release, Live, IInv, TInv, Numbered, WorkerHolds, Holds,
     Given, WorkerAt, TypeOK, WorkerRegs, Calls, NoTicket
<1>8. ASSUME NEW c \in Calls, CancelBump(c) PROVE WorkerHolds'
  BY <1>8 DEF CancelBump, WorkerIdle, Live, IInv, TInv, Numbered, WorkerHolds, Holds,
     Given, WorkerAt, TypeOK, WorkerRegs, Calls, NoTicket
<1>9. ASSUME NEW set \in SUBSET Calls, NEW timed \in BOOLEAN, WaitAny(set, timed) PROVE
      WorkerHolds'
  BY <1>9 DEF WaitAny, WorkerIdle, IInv, TInv, Numbered, WorkerHolds, Holds, Given,
     WorkerAt, TypeOK, WorkerRegs, Calls, NoTicket
<1>10. CASE Look
  BY <1>10 DEF Look, IInv, TInv, Numbered, WorkerHolds, Holds, Given, WorkerAt, TypeOK,
     WorkerRegs, Calls, NoTicket
<1>11. CASE ClaimSlot
  BY <1>11 DEF ClaimSlot, IInv, TInv, Numbered, WorkerHolds, Holds, Given, WorkerAt,
     TypeOK, WorkerRegs, Calls, NoTicket
<1>12. CASE PublishPiece
  BY <1>12 DEF PublishPiece, WorkerIdle, IInv, TInv, Numbered, WorkerHolds, Holds,
     Given, WorkerAt, TypeOK, WorkerRegs, Calls, NoTicket
<1>13. CASE AwaitReady
  BY <1>13 DEF AwaitReady, IInv, TInv, Numbered, WorkerHolds, Holds, Given, WorkerAt,
     TypeOK, WorkerRegs, Calls, NoTicket
<1>14. CASE ReadRes
  BY <1>14 DEF ReadRes, IInv, TInv, Numbered, WorkerHolds, Holds, Given, WorkerAt,
     TypeOK, WorkerRegs, Calls, NoTicket
<1>15. CASE HandBack
  BY <1>15 DEF HandBack, IInv, TInv, Numbered, WorkerHolds, Holds, Given, WorkerAt,
     TypeOK, WorkerRegs, Calls, NoTicket
<1>16. CASE NextPiece
  BY <1>16 DEF NextPiece, IInv, TInv, Numbered, WorkerHolds, Holds, Given, WorkerAt,
     TypeOK, WorkerRegs, Calls, NoTicket
<1>17. CASE PieceFailed
  BY <1>17 DEF PieceFailed, Raise, WorkerIdle, NoTicket, Release, IInv, TInv, Numbered,
     WorkerHolds, Holds, Given, WorkerAt, TypeOK, WorkerRegs, Calls
<1>18. CASE CollectMore
  BY <1>18 DEF CollectMore, IInv, TInv, Numbered, WorkerHolds, Holds, Given, WorkerAt,
     TypeOK, WorkerRegs, Calls, NoTicket
<1>19. CASE CollectLast
  BY <1>19 DEF CollectLast, WorkerIdle, Release, IInv, TInv, Numbered, WorkerHolds,
     Holds, Given, WorkerAt, TypeOK, WorkerRegs, Calls, NoTicket
<1>20. CASE CancelStore
  BY <1>20 DEF CancelStore, WorkerIdle, IInv, TInv, Numbered, WorkerHolds, Holds, Given,
     WorkerAt, TypeOK, WorkerRegs, Calls, NoTicket
<1>21. CASE WaitScan
  BY <1>21 DEF WaitScan, WorkerIdle, IsDone, Live, IInv, TInv, Numbered, WorkerHolds,
     Holds, Given, WorkerAt, TypeOK, WorkerRegs, Calls, NoTicket
<1>f. CASE UNCHANGED <<shape, ticket, w, gen>>  BY <1>f DEF TInv, WorkerHolds, Holds, Given
<1>p. CASE Program
  BY <1>p, <1>1, <1>2, <1>7, <1>8, <1>9
  DEF Program
<1>w. CASE Worker
  BY <1>w, <1>10, <1>3, <1>4, <1>11, <1>5, <1>6, <1>12, <1>13, <1>14, <1>15, <1>16,
     <1>17, <1>18, <1>19, <1>20, <1>21
  DEF Worker, Wake
<1>h. CASE Host
  BY <1>h, <1>f
  DEF Host, LoopWake, SweepSkip, SweepDone, Abandon, Take, TakeLost, TakeContinue,
      TakePush, TakeDispatch, TakeUnknown, Reply, WriteStale, Write, Publish,
      PublishLost, FailSkip, FailSlot, FailDone, DetachBoth, Taken, DetachRequest
<1>t. CASE Timeout  BY <1>t, <1>4 DEF Timeout
<1>d. CASE HandlerDone  BY <1>d, <1>f DEF HandlerDone, Complete
<1>s. CASE Stop  BY <1>s, <1>f DEF Stop
<1>. QED  BY <1>p, <1>w, <1>h, <1>t, <1>d, <1>s DEF Next

\* A ticket is made by claim at a slot nobody holds, and release and cancel
\* leave every ticket of the slot behind.
LEMMA TicketsApartStep == ASSUME IInv, TInv, Next PROVE TicketsApart'
<1> USE DEF reqPool, resArea, program, tables
<1>a. TypeOK  BY DEF IInv
<1>1. ASSUME NEW c \in Calls, CancelReady(c) PROVE TicketsApart'
  <2>1. ticket[c].slot \in Slots  BY <1>1, <1>a, LiveSlot DEF CancelReady
  <2>2. gen' = [gen EXCEPT ![ticket[c].slot] = @ + 1]  BY <1>1 DEF CancelReady, Release
  <2>3. \A x \in Calls : ticket'[x] = ticket[x] \/ ticket'[x] = NoTicket  BY <1>1 DEF CancelReady, Release
  <2>. QED  BY <1>a, <2>1, <2>2, <2>3, Bump DEF TInv
<1>2. ASSUME NEW c \in Calls, CancelBump(c) PROVE TicketsApart'
  <2>1. ticket[c].slot \in Slots  BY <1>2, <1>a, LiveSlot DEF CancelBump
  <2>2. gen' = [gen EXCEPT ![ticket[c].slot] = @ + 1]  BY <1>2 DEF CancelBump
  <2>3. \A x \in Calls : ticket'[x] = ticket[x] \/ ticket'[x] = NoTicket  BY <1>2 DEF CancelBump
  <2>. QED  BY <1>a, <2>1, <2>2, <2>3, Bump DEF TInv
<1>3. CASE Park
  <2>1. \A c \in Calls : ticket'[c] = ticket[c] \/ ticket'[c] = NoTicket
    BY <1>3, <1>a, RaiseEffect, ParkEffect DEF GoesOn
  <2>2. gen' = gen  BY <1>3, <1>a, ParkEffect
  <2>3. \A c \in Calls : \/ ticket'[c].slot = ticket[c].slot /\ ticket'[c].gen = ticket[c].gen
                         \/ ticket'[c].slot = 0
    BY <2>1, <1>a, TicketFields
  <2>. QED  BY <2>2, <2>3 DEF TInv, TicketsApart
<1>4. ASSUME NEW timeout \in BOOLEAN, Unpark(timeout) PROVE TicketsApart'
  <2>1. \A c \in Calls : ticket'[c] = ticket[c] \/ ticket'[c] = NoTicket
    BY <1>4, <1>a, RaiseEffect, ParkEffect DEF GoesOn
  <2>2. gen' = gen  BY <1>4, <1>a, ParkEffect
  <2>3. \A c \in Calls : \/ ticket'[c].slot = ticket[c].slot /\ ticket'[c].gen = ticket[c].gen
                         \/ ticket'[c].slot = 0
    BY <2>1, <1>a, TicketFields
  <2>. QED  BY <2>2, <2>3 DEF TInv, TicketsApart
<1>5. CASE ClaimSlot
  <2>1. w.slot \in Slots /\ w.call \in Calls /\ gen[w.slot] \in Nat
    BY <1>5, SizesAssumption DEF ClaimSlot, IInv, WorkerAt, HostAt, TypeOK, Given, Calls
  <2>2. \A c \in Calls : ~(ticket[c].slot = w.slot /\ ticket[c].gen = gen[w.slot])
    BY <1>5, <2>1 DEF ClaimSlot, TInv, Unheld, Loose, Holds
  <2>3. \A c \in Calls : ticket'[c] = IF c = w.call THEN [slot |-> w.slot, gen |-> gen[w.slot]]
                                        ELSE ticket[c]
    BY <1>5, <2>1 DEF ClaimSlot, TypeOK, IInv
  <2>4. \A c \in Calls : IF c = w.call
                          THEN ticket'[c].slot = w.slot /\ ticket'[c].gen = gen[w.slot]
                          ELSE ticket'[c].slot = ticket[c].slot /\ ticket'[c].gen = ticket[c].gen
    BY <2>3
  <2>5. gen' = gen  BY <1>5 DEF ClaimSlot
  <2>. QED  BY <2>1, <2>2, <2>4, <2>5 DEF TInv, TicketsApart
<1>6. CASE ClaimNext
  <2>1. \A c \in Calls : ticket'[c] = ticket[c] \/ ticket'[c] = NoTicket
    BY <1>6, <1>a, RaiseEffect, ClaimEffect DEF GoesOn
  <2>2. gen' = gen  BY <1>6, <1>a, ClaimEffect
  <2>3. \A c \in Calls : \/ ticket'[c].slot = ticket[c].slot /\ ticket'[c].gen = ticket[c].gen
                         \/ ticket'[c].slot = 0
    BY <2>1, <1>a, TicketFields
  <2>. QED  BY <2>2, <2>3 DEF TInv, TicketsApart
<1>7. CASE PieceFailed
  <2>1. w.slot \in Slots  BY <1>7 DEF PieceFailed, IInv, WorkerAt
  <2>2. gen' = [gen EXCEPT ![w.slot] = @ + 1]  BY <1>7 DEF PieceFailed, Release
  <2>3. \A x \in Calls : ticket'[x] = ticket[x] \/ ticket'[x] = NoTicket  BY <1>7, <1>a, RaiseEffect DEF PieceFailed
  <2>. QED  BY <1>a, <2>1, <2>2, <2>3, Bump DEF TInv
<1>8. CASE CollectLast
  <2>1. w.slot \in Slots  BY <1>8 DEF CollectLast, IInv, WorkerAt
  <2>2. gen' = [gen EXCEPT ![w.slot] = @ + 1]  BY <1>8 DEF CollectLast, Release
  <2>3. \A x \in Calls : ticket'[x] = ticket[x] \/ ticket'[x] = NoTicket  BY <1>8 DEF CollectLast, Release
  <2>. QED  BY <1>a, <2>1, <2>2, <2>3, Bump DEF TInv
<1>f. CASE UNCHANGED <<ticket, gen>>  BY <1>f DEF TInv, TicketsApart, Holds, Given
<1>p. CASE Program
  BY <1>p, <1>1, <1>2, <1>f
  DEF Program, Submit, Collect, WaitAny
<1>w. CASE Worker
  BY <1>w, <1>3, <1>4, <1>5, <1>6, <1>7, <1>8, <1>f
  DEF Worker, Wake, Look, TakeReqBuf, PublishPiece, AwaitReady, ReadRes, HandBack,
      NextPiece, CollectMore, CancelStore, WaitScan
<1>h. CASE Host
  BY <1>h, <1>f
  DEF Host, LoopWake, SweepSkip, SweepDone, Abandon, Take, TakeLost, TakeContinue,
      TakePush, TakeDispatch, TakeUnknown, Reply, WriteStale, Write, Publish,
      PublishLost, FailSkip, FailSlot, FailDone, DetachBoth, Taken, DetachRequest
<1>t. CASE Timeout  BY <1>t, <1>4 DEF Timeout
<1>d. CASE HandlerDone  BY <1>d, <1>f DEF HandlerDone, Complete
<1>s. CASE Stop  BY <1>s, <1>f DEF Stop
<1>. QED  BY <1>p, <1>w, <1>h, <1>t, <1>d, <1>s DEF Next

\* A slot is given back, or begins to be cancelled, only as its generation moves on.
LEMMA UnheldStep == ASSUME IInv, TInv, Next PROVE Unheld'
<1> USE DEF reqPool, resArea, program, tables
<1>a. TypeOK  BY DEF IInv
<1>1. ASSUME NEW c \in Calls, CancelReady(c) PROVE Unheld'
  <2>1. ticket[c].slot \in Slots  BY <1>1, <1>a, LiveSlot DEF CancelReady
  <2>2. gen' = [gen EXCEPT ![ticket[c].slot] = @ + 1]  BY <1>1 DEF CancelReady, Release
  <2>3. \A x \in Calls : ticket'[x] = ticket[x] \/ ticket'[x] = NoTicket  BY <1>1 DEF CancelReady, Release
  <2>4. \A x \in Calls : ~(ticket'[x].slot = ticket[c].slot /\ ticket'[x].gen = gen'[ticket[c].slot])
    BY <1>a, <2>1, <2>2, <2>3, Bump DEF TInv
  <2>5. \A x \in Slots : x # ticket[c].slot => gen'[x] = gen[x]  BY <1>a, <2>1, <2>2, <2>3, Bump DEF TInv
  <2>6. \A x \in Calls : \/ ticket'[x].slot = ticket[x].slot /\ ticket'[x].gen = ticket[x].gen
                         \/ ticket'[x].slot = 0
    BY <2>3, <1>a, TicketFields
  <2>7. \A x \in Slots : x # 0  BY DEF Slots
  <2>8. \A x \in Slots : x # ticket[c].slot /\ Loose(x)' => Loose(x)
    BY <1>1, <1>a, <2>1 DEF CancelReady, Release, Loose, TypeOK, WorkerRegs
  <2>9. \A x \in Slots : x # ticket[c].slot /\ Loose(x)' => \A y \in Calls : ~Holds(y, x)
    BY <2>8 DEF TInv, Unheld
  <2>10. \A x \in Slots : x # ticket[c].slot /\ Loose(x)' => \A y \in Calls : ~Holds(y, x)'
    BY <2>5, <2>6, <2>7, <2>9 DEF Holds
  <2>. QED  BY <2>4, <2>10 DEF Unheld, Holds
<1>2. ASSUME NEW c \in Calls, CancelBump(c) PROVE Unheld'
  <2>1. ticket[c].slot \in Slots  BY <1>2, <1>a, LiveSlot DEF CancelBump
  <2>2. gen' = [gen EXCEPT ![ticket[c].slot] = @ + 1]  BY <1>2 DEF CancelBump
  <2>3. \A x \in Calls : ticket'[x] = ticket[x] \/ ticket'[x] = NoTicket  BY <1>2 DEF CancelBump
  <2>4. \A x \in Calls : ~(ticket'[x].slot = ticket[c].slot /\ ticket'[x].gen = gen'[ticket[c].slot])
    BY <1>a, <2>1, <2>2, <2>3, Bump DEF TInv
  <2>5. \A x \in Slots : x # ticket[c].slot => gen'[x] = gen[x]  BY <1>a, <2>1, <2>2, <2>3, Bump DEF TInv
  <2>6. \A x \in Calls : \/ ticket'[x].slot = ticket[x].slot /\ ticket'[x].gen = ticket[x].gen
                         \/ ticket'[x].slot = 0
    BY <2>3, <1>a, TicketFields
  <2>7. \A x \in Slots : x # 0  BY DEF Slots
  <2>8. \A x \in Slots : x # ticket[c].slot /\ Loose(x)' => Loose(x)
    BY <1>2, <1>a, <2>1 DEF CancelBump, WorkerIdle, Loose, TypeOK, WorkerRegs
  <2>9. \A x \in Slots : x # ticket[c].slot /\ Loose(x)' => \A y \in Calls : ~Holds(y, x)
    BY <2>8 DEF TInv, Unheld
  <2>10. \A x \in Slots : x # ticket[c].slot /\ Loose(x)' => \A y \in Calls : ~Holds(y, x)'
    BY <2>5, <2>6, <2>7, <2>9 DEF Holds
  <2>. QED  BY <2>4, <2>10 DEF Unheld, Holds
<1>3. CASE Park
  <2>1. \A c \in Calls : ticket'[c] = ticket[c] \/ ticket'[c] = NoTicket
    BY <1>3, <1>a, RaiseEffect, ParkEffect DEF GoesOn
  <2>2. gen' = gen /\ status' = status /\ w'.pc # "cancel"  BY <1>3, <1>a, RaiseEffect, ParkEffect
  <2>3. \A c \in Calls : \/ ticket'[c].slot = ticket[c].slot /\ ticket'[c].gen = ticket[c].gen
                         \/ ticket'[c].slot = 0
    BY <2>1, <1>a, TicketFields
  <2>4. \A x \in Slots : x # 0  BY DEF Slots
  <2>. QED  BY <2>2, <2>3, <2>4 DEF TInv, Unheld, Holds, Loose
<1>4. ASSUME NEW timeout \in BOOLEAN, Unpark(timeout) PROVE Unheld'
  <2>1. \A c \in Calls : ticket'[c] = ticket[c] \/ ticket'[c] = NoTicket
    BY <1>4, <1>a, RaiseEffect, ParkEffect DEF GoesOn
  <2>2. gen' = gen /\ status' = status /\ w'.pc # "cancel"  BY <1>4, <1>a, RaiseEffect, ParkEffect
  <2>3. \A c \in Calls : \/ ticket'[c].slot = ticket[c].slot /\ ticket'[c].gen = ticket[c].gen
                         \/ ticket'[c].slot = 0
    BY <2>1, <1>a, TicketFields
  <2>4. \A x \in Slots : x # 0  BY DEF Slots
  <2>. QED  BY <2>2, <2>3, <2>4 DEF TInv, Unheld, Holds, Loose
<1>5. CASE ClaimSlot
  <2>1. w.slot \in Slots /\ w.call \in Calls /\ gen[w.slot] \in Nat
    BY <1>5, SizesAssumption DEF ClaimSlot, IInv, WorkerAt, HostAt, TypeOK, Given, Calls
  <2>2. \A c \in Calls : ~(ticket[c].slot = w.slot /\ ticket[c].gen = gen[w.slot])
    BY <1>5, <2>1 DEF ClaimSlot, TInv, Unheld, Loose, Holds
  <2>3. \A c \in Calls : ticket'[c] = IF c = w.call THEN [slot |-> w.slot, gen |-> gen[w.slot]]
                                        ELSE ticket[c]
    BY <1>5, <2>1 DEF ClaimSlot, TypeOK, IInv
  <2>4. \A c \in Calls : IF c = w.call
                          THEN ticket'[c].slot = w.slot /\ ticket'[c].gen = gen[w.slot]
                          ELSE ticket'[c].slot = ticket[c].slot /\ ticket'[c].gen = ticket[c].gen
    BY <2>3
  <2>5. gen' = gen  BY <1>5 DEF ClaimSlot
  <2>6. w'.pc # "cancel" /\ status' = [status EXCEPT ![w.slot] = "CLAIMED"]
    BY <1>5, <1>a DEF ClaimSlot, TypeOK, WorkerRegs
  <2>7. \A x \in Slots : Loose(x)' => x # w.slot /\ Loose(x)
    BY <1>5, <1>a, <2>1, <2>6 DEF Loose, TypeOK
  <2>. QED  BY <2>1, <2>4, <2>5, <2>7 DEF TInv, Unheld, Holds
<1>6. CASE ClaimNext
  <2>1. \A c \in Calls : ticket'[c] = ticket[c] \/ ticket'[c] = NoTicket
    BY <1>6, <1>a, RaiseEffect, ClaimEffect DEF GoesOn
  <2>2. gen' = gen /\ status' = status /\ w'.pc # "cancel"  BY <1>6, <1>a, RaiseEffect, ClaimEffect
  <2>3. \A c \in Calls : \/ ticket'[c].slot = ticket[c].slot /\ ticket'[c].gen = ticket[c].gen
                         \/ ticket'[c].slot = 0
    BY <2>1, <1>a, TicketFields
  <2>4. \A x \in Slots : x # 0  BY DEF Slots
  <2>. QED  BY <2>2, <2>3, <2>4 DEF TInv, Unheld, Holds, Loose
<1>7. CASE TakeReqBuf
  BY <1>7, <1>a, TakeReqBufEffect DEF TInv, Unheld, Holds, Loose
<1>8. CASE PieceFailed
  <2>1. w.slot \in Slots  BY <1>8 DEF PieceFailed, IInv, WorkerAt
  <2>2. gen' = [gen EXCEPT ![w.slot] = @ + 1]  BY <1>8 DEF PieceFailed, Release
  <2>3. \A x \in Calls : ticket'[x] = ticket[x] \/ ticket'[x] = NoTicket  BY <1>8, <1>a, RaiseEffect DEF PieceFailed
  <2>4. \A x \in Calls : ~(ticket'[x].slot = w.slot /\ ticket'[x].gen = gen'[w.slot])
    BY <1>a, <2>1, <2>2, <2>3, Bump DEF TInv
  <2>5. \A x \in Slots : x # w.slot => gen'[x] = gen[x]  BY <1>a, <2>1, <2>2, <2>3, Bump DEF TInv
  <2>6. \A x \in Calls : \/ ticket'[x].slot = ticket[x].slot /\ ticket'[x].gen = ticket[x].gen
                         \/ ticket'[x].slot = 0
    BY <2>3, <1>a, TicketFields
  <2>7. \A x \in Slots : x # 0  BY DEF Slots
  <2>8. \A x \in Slots : x # w.slot /\ Loose(x)' => Loose(x)
    BY <1>8, <1>a, <2>1, RaiseEffect DEF PieceFailed, Release, Loose, TypeOK, WorkerRegs
  <2>9. \A x \in Slots : x # w.slot /\ Loose(x)' => \A y \in Calls : ~Holds(y, x)
    BY <2>8 DEF TInv, Unheld
  <2>10. \A x \in Slots : x # w.slot /\ Loose(x)' => \A y \in Calls : ~Holds(y, x)'
    BY <2>5, <2>6, <2>7, <2>9 DEF Holds
  <2>. QED  BY <2>4, <2>10 DEF Unheld, Holds
<1>9. CASE CollectLast
  <2>1. w.slot \in Slots  BY <1>9 DEF CollectLast, IInv, WorkerAt
  <2>2. gen' = [gen EXCEPT ![w.slot] = @ + 1]  BY <1>9 DEF CollectLast, Release
  <2>3. \A x \in Calls : ticket'[x] = ticket[x] \/ ticket'[x] = NoTicket  BY <1>9 DEF CollectLast, Release
  <2>4. \A x \in Calls : ~(ticket'[x].slot = w.slot /\ ticket'[x].gen = gen'[w.slot])
    BY <1>a, <2>1, <2>2, <2>3, Bump DEF TInv
  <2>5. \A x \in Slots : x # w.slot => gen'[x] = gen[x]  BY <1>a, <2>1, <2>2, <2>3, Bump DEF TInv
  <2>6. \A x \in Calls : \/ ticket'[x].slot = ticket[x].slot /\ ticket'[x].gen = ticket[x].gen
                         \/ ticket'[x].slot = 0
    BY <2>3, <1>a, TicketFields
  <2>7. \A x \in Slots : x # 0  BY DEF Slots
  <2>8. \A x \in Slots : x # w.slot /\ Loose(x)' => Loose(x)
    BY <1>9, <1>a, <2>1 DEF CollectLast, Release, WorkerIdle, Loose, TypeOK, WorkerRegs
  <2>9. \A x \in Slots : x # w.slot /\ Loose(x)' => \A y \in Calls : ~Holds(y, x)
    BY <2>8 DEF TInv, Unheld
  <2>10. \A x \in Slots : x # w.slot /\ Loose(x)' => \A y \in Calls : ~Holds(y, x)'
    BY <2>5, <2>6, <2>7, <2>9 DEF Holds
  <2>. QED  BY <2>4, <2>10 DEF Unheld, Holds
<1>10. ASSUME NEW sh \in Shapes, Submit(sh) PROVE Unheld'
  BY <1>10 DEF Submit, WorkerIdle, IInv, TInv, TicketsApart, Unheld, Holds, Loose,
     TypeOK, WorkerRegs, WorkerAt, Calls, Tickets, Slots
<1>11. ASSUME NEW c \in Calls, Collect(c) PROVE Unheld'
  BY <1>11 DEF Collect, WorkerIdle, Live, IInv, TInv, TicketsApart, Unheld, Holds,
     Loose, TypeOK, WorkerRegs, WorkerAt, Calls, Tickets, Slots
<1>12. ASSUME NEW set \in SUBSET Calls, NEW timed \in BOOLEAN, WaitAny(set, timed) PROVE
      Unheld'
  BY <1>12 DEF WaitAny, WorkerIdle, IInv, TInv, TicketsApart, Unheld, Holds, Loose,
     TypeOK, WorkerRegs, WorkerAt, Calls, Tickets, Slots
<1>13. CASE Look
  BY <1>13 DEF Look, IInv, TInv, TicketsApart, Unheld, Holds, Loose, TypeOK, WorkerRegs,
     WorkerAt, Calls, Tickets, Slots
<1>14. CASE PublishPiece
  BY <1>14 DEF PublishPiece, WorkerIdle, IInv, TInv, TicketsApart, Unheld, Holds, Loose,
     TypeOK, WorkerRegs, WorkerAt, Calls, Tickets, Slots
<1>15. CASE AwaitReady
  BY <1>15 DEF AwaitReady, IInv, TInv, TicketsApart, Unheld, Holds, Loose, TypeOK,
     WorkerRegs, WorkerAt, Calls, Tickets, Slots
<1>16. CASE ReadRes
  BY <1>16 DEF ReadRes, IInv, TInv, TicketsApart, Unheld, Holds, Loose, TypeOK,
     WorkerRegs, WorkerAt, Calls, Tickets, Slots
<1>17. CASE HandBack
  BY <1>17 DEF HandBack, IInv, TInv, TicketsApart, Unheld, Holds, Loose, TypeOK,
     WorkerRegs, WorkerAt, Calls, Tickets, Slots
<1>18. CASE NextPiece
  BY <1>18 DEF NextPiece, IInv, TInv, TicketsApart, Unheld, Holds, Loose, TypeOK,
     WorkerRegs, WorkerAt, Calls, Tickets, Slots
<1>19. CASE CollectMore
  BY <1>19 DEF CollectMore, IInv, TInv, TicketsApart, Unheld, Holds, Loose, TypeOK,
     WorkerRegs, WorkerAt, Calls, Tickets, Slots
<1>20. CASE CancelStore
  BY <1>20 DEF CancelStore, WorkerIdle, IInv, TInv, TicketsApart, Unheld, Holds, Loose,
     TypeOK, WorkerRegs, WorkerAt, Calls, Tickets, Slots
<1>21. CASE WaitScan
  BY <1>21 DEF WaitScan, WorkerIdle, IsDone, Live, IInv, TInv, TicketsApart, Unheld,
     Holds, Loose, TypeOK, WorkerRegs, WorkerAt, Calls, Tickets, Slots
<1>22. CASE Abandon
  BY <1>22 DEF Abandon, SweepNext, HostIdle, DetachBoth, IInv, TInv, TicketsApart,
     Unheld, Holds, Loose, TypeOK, WorkerRegs, WorkerAt, Calls, Tickets, Slots
<1>23. CASE TakeContinue
  BY <1>23 DEF TakeContinue, Replying, Taken, IInv, TInv, TicketsApart, Unheld, Holds,
     Loose, TypeOK, WorkerRegs, WorkerAt, Calls, Tickets, Slots
<1>24. CASE TakePush
  BY <1>24 DEF TakePush, Replying, Taken, IInv, TInv, TicketsApart, Unheld, Holds,
     Loose, TypeOK, WorkerRegs, WorkerAt, Calls, Tickets, Slots
<1>25. CASE TakeDispatch
  BY <1>25 DEF TakeDispatch, SweepNext, HostIdle, Taken, Joined, IInv, TInv,
     TicketsApart, Unheld, Holds, Loose, TypeOK, WorkerRegs, WorkerAt, Calls, Tickets,
     Slots
<1>26. CASE TakeUnknown
  BY <1>26 DEF TakeUnknown, Replying, Taken, IInv, TInv, TicketsApart, Unheld, Holds,
     Loose, TypeOK, WorkerRegs, WorkerAt, Calls, Tickets, Slots
<1>27. CASE Publish
  BY <1>27 DEF Publish, Return, HostIdle, PublishWins, IInv, TInv, TicketsApart, Unheld,
     Holds, Loose, TypeOK, WorkerRegs, WorkerAt, Calls, Tickets, Slots
<1>28. CASE FailSlot
  BY <1>28 DEF FailSlot, Replying, DetachRequest, IInv, TInv, TicketsApart, Unheld,
     Holds, Loose, TypeOK, WorkerRegs, WorkerAt, Calls, Tickets, Slots
<1>f. CASE UNCHANGED <<status, ticket, gen, w>>  BY <1>f DEF TInv, Unheld, Holds, Loose
<1>p. CASE Program
  BY <1>p, <1>10, <1>11, <1>1, <1>2, <1>12
  DEF Program
<1>w. CASE Worker
  BY <1>w, <1>13, <1>3, <1>4, <1>5, <1>6, <1>7, <1>14, <1>15, <1>16, <1>17, <1>18, <1>8,
     <1>19, <1>9, <1>20, <1>21
  DEF Worker, Wake
<1>h. CASE Host
  BY <1>h, <1>22, <1>23, <1>24, <1>25, <1>26, <1>27, <1>28, <1>f
  DEF Host, LoopWake, SweepSkip, SweepDone, Take, TakeLost, Reply, WriteStale, Write,
      PublishLost, FailSkip, FailDone
<1>t. CASE Timeout  BY <1>t, <1>4 DEF Timeout
<1>d. CASE HandlerDone  BY <1>d, <1>f DEF HandlerDone, Complete
<1>s. CASE Stop  BY <1>s, <1>f DEF Stop
<1>. QED  BY <1>p, <1>w, <1>h, <1>t, <1>d, <1>s DEF Next

\* A slot that holds an answer keeps it until the worker itself takes it, and the worker
\* is in claim.
LEMMA ScannedStep == ASSUME IInv, TInv, Next PROVE Scanned'
<1> USE DEF reqPool, resArea, program, tables
<1>a. TypeOK  BY DEF IInv
<1>1. CASE Park
  <2>1. CASE hostGone /\ Raise
    BY <1>1, <2>1, <1>a, RaiseEffect, ParkEffect DEF IInv, TInv, Scanned, WorkerAt
  <2>2. CASE ~hostGone /\ GoesOn /\ w'.slot = w.slot /\ w'.pc \in {"parked", "seen"}
    BY <1>1, <2>2, <1>a, ParkEffect DEF GoesOn, IInv, TInv, Scanned, WorkerAt
  <2>. QED  BY <1>1, <2>1, <2>2, <1>a, ParkEffect
<1>2. ASSUME NEW timeout \in BOOLEAN, Unpark(timeout) PROVE Scanned'
  <2>1. CASE hostGone /\ Raise
    BY <1>2, <2>1, <1>a, RaiseEffect, ParkEffect DEF IInv, TInv, Scanned, WorkerAt
  <2>2. CASE ~hostGone /\ GoesOn /\ w'.slot = w.slot /\ w'.pc \in {"parked", "seen"}
    BY <1>2, <2>2, <1>a, ParkEffect DEF GoesOn, IInv, TInv, Scanned, WorkerAt
  <2>. QED  BY <1>2, <2>1, <2>2, <1>a, ParkEffect
<1>3. CASE ClaimNext
  <2>1. CASE Raise  BY <1>3, <2>1, <1>a, RaiseEffect, ClaimEffect DEF Scanned
  <2>2. CASE w'.pc = "park"  BY <2>2 DEF Scanned
  <2>3. CASE w'.pc = "claim" /\ w'.slot = w.slot + 1 /\ w'.allReady = (w.allReady /\ status[w.slot] = "READY")
    <3>1. w.pc = "claim" /\ status' = status /\ w.slot \in Nat  BY <1>3, <1>a, ClaimEffect DEF TypeOK, WorkerRegs
    <3>2. \A s \in Slots : s < w.slot + 1 => s < w.slot \/ s = w.slot  BY <3>1 DEF Slots
    <3>. QED  BY <2>3, <3>1, <3>2 DEF TInv, Scanned
  <2>. QED  BY <1>3, <2>1, <2>2, <2>3, <1>a, ClaimEffect
<1>4. CASE TakeReqBuf
  BY <1>4, <1>a, TakeReqBufEffect DEF IInv, TInv, Scanned, WorkerAt
<1>5. ASSUME NEW sh \in Shapes, Submit(sh) PROVE Scanned'
  BY <1>5 DEF Submit, WorkerIdle, IInv, TInv, Scanned, WorkerAt, TypeOK, WorkerRegs,
     WorkersSlot, Slots
<1>6. ASSUME NEW c \in Calls, Collect(c) PROVE Scanned'
  BY <1>6 DEF Collect, WorkerIdle, Live, IInv, TInv, Scanned, WorkerAt, TypeOK,
     WorkerRegs, WorkersSlot, Slots
<1>7. ASSUME NEW c \in Calls, CancelReady(c) PROVE Scanned'
  BY <1>7 DEF CancelReady, Release, Live, IInv, TInv, Scanned, WorkerAt, TypeOK,
     WorkerRegs, WorkersSlot, Slots
<1>8. ASSUME NEW c \in Calls, CancelBump(c) PROVE Scanned'
  BY <1>8 DEF CancelBump, WorkerIdle, Live, IInv, TInv, Scanned, WorkerAt, TypeOK,
     WorkerRegs, WorkersSlot, Slots
<1>9. ASSUME NEW set \in SUBSET Calls, NEW timed \in BOOLEAN, WaitAny(set, timed) PROVE
      Scanned'
  BY <1>9 DEF WaitAny, WorkerIdle, IInv, TInv, Scanned, WorkerAt, TypeOK, WorkerRegs,
     WorkersSlot, Slots
<1>10. CASE Look
  BY <1>10 DEF Look, IInv, TInv, Scanned, WorkerAt, TypeOK, WorkerRegs, WorkersSlot,
     Slots
<1>11. CASE ClaimSlot
  BY <1>11 DEF ClaimSlot, IInv, TInv, Scanned, WorkerAt, TypeOK, WorkerRegs,
     WorkersSlot, Slots
<1>12. CASE PublishPiece
  BY <1>12 DEF PublishPiece, WorkerIdle, IInv, TInv, Scanned, WorkerAt, TypeOK,
     WorkerRegs, WorkersSlot, Slots
<1>13. CASE AwaitReady
  BY <1>13 DEF AwaitReady, IInv, TInv, Scanned, WorkerAt, TypeOK, WorkerRegs,
     WorkersSlot, Slots
<1>14. CASE ReadRes
  BY <1>14 DEF ReadRes, IInv, TInv, Scanned, WorkerAt, TypeOK, WorkerRegs, WorkersSlot,
     Slots
<1>15. CASE HandBack
  BY <1>15 DEF HandBack, IInv, TInv, Scanned, WorkerAt, TypeOK, WorkerRegs, WorkersSlot,
     Slots
<1>16. CASE NextPiece
  BY <1>16 DEF NextPiece, IInv, TInv, Scanned, WorkerAt, TypeOK, WorkerRegs,
     WorkersSlot, Slots
<1>17. CASE PieceFailed
  BY <1>17 DEF PieceFailed, Raise, WorkerIdle, NoTicket, Release, IInv, TInv, Scanned,
     WorkerAt, TypeOK, WorkerRegs, WorkersSlot, Slots
<1>18. CASE CollectMore
  BY <1>18 DEF CollectMore, IInv, TInv, Scanned, WorkerAt, TypeOK, WorkerRegs,
     WorkersSlot, Slots
<1>19. CASE CollectLast
  BY <1>19 DEF CollectLast, WorkerIdle, Release, IInv, TInv, Scanned, WorkerAt, TypeOK,
     WorkerRegs, WorkersSlot, Slots
<1>20. CASE CancelStore
  BY <1>20 DEF CancelStore, WorkerIdle, IInv, TInv, Scanned, WorkerAt, TypeOK,
     WorkerRegs, WorkersSlot, Slots
<1>21. CASE WaitScan
  BY <1>21 DEF WaitScan, WorkerIdle, IsDone, Live, IInv, TInv, Scanned, WorkerAt,
     TypeOK, WorkerRegs, WorkersSlot, Slots
<1>22. CASE Abandon
  BY <1>22 DEF Abandon, SweepNext, HostIdle, DetachBoth, IInv, TInv, Scanned, WorkerAt,
     TypeOK, WorkerRegs, WorkersSlot, Slots
<1>23. CASE TakeContinue
  BY <1>23 DEF TakeContinue, Replying, Taken, IInv, TInv, Scanned, WorkerAt, TypeOK,
     WorkerRegs, WorkersSlot, Slots
<1>24. CASE TakePush
  BY <1>24 DEF TakePush, Replying, Taken, IInv, TInv, Scanned, WorkerAt, TypeOK,
     WorkerRegs, WorkersSlot, Slots
<1>25. CASE TakeDispatch
  BY <1>25 DEF TakeDispatch, SweepNext, HostIdle, Taken, Joined, IInv, TInv, Scanned,
     WorkerAt, TypeOK, WorkerRegs, WorkersSlot, Slots
<1>26. CASE TakeUnknown
  BY <1>26 DEF TakeUnknown, Replying, Taken, IInv, TInv, Scanned, WorkerAt, TypeOK,
     WorkerRegs, WorkersSlot, Slots
<1>27. CASE Publish
  BY <1>27 DEF Publish, Return, HostIdle, PublishWins, IInv, TInv, Scanned, WorkerAt,
     TypeOK, WorkerRegs, WorkersSlot, Slots
<1>28. CASE FailSlot
  BY <1>28 DEF FailSlot, Replying, DetachRequest, IInv, TInv, Scanned, WorkerAt, TypeOK,
     WorkerRegs, WorkersSlot, Slots
<1>f. CASE UNCHANGED <<status, w>>  BY <1>f DEF TInv, Scanned
<1>p. CASE Program
  BY <1>p, <1>5, <1>6, <1>7, <1>8, <1>9
  DEF Program
<1>w. CASE Worker
  BY <1>w, <1>10, <1>1, <1>2, <1>11, <1>3, <1>4, <1>12, <1>13, <1>14, <1>15, <1>16,
     <1>17, <1>18, <1>19, <1>20, <1>21
  DEF Worker, Wake
<1>h. CASE Host
  BY <1>h, <1>22, <1>23, <1>24, <1>25, <1>26, <1>27, <1>28, <1>f
  DEF Host, LoopWake, SweepSkip, SweepDone, Take, TakeLost, Reply, WriteStale, Write,
      PublishLost, FailSkip, FailDone
<1>t. CASE Timeout  BY <1>t, <1>2 DEF Timeout
<1>d. CASE HandlerDone  BY <1>d, <1>f DEF HandlerDone, Complete
<1>s. CASE Stop  BY <1>s, <1>f DEF Stop
<1>. QED  BY <1>p, <1>w, <1>h, <1>t, <1>d, <1>s DEF Next

\* Only stop() enters failPending, and it raises HOST_GONE before.
LEMMA StopAtStep == ASSUME IInv, TInv, Next PROVE StopAt'
<1> USE DEF reqPool, resArea, program, tables
<1>a. TypeOK  BY DEF IInv
<1>1. CASE LoopWake
  BY <1>1 DEF LoopWake, HostIdle, IInv, TInv, StopAt, TypeOK, HostRegs, HostAt
<1>2. CASE SweepSkip
  BY <1>2 DEF SweepSkip, SweepNext, HostIdle, IInv, TInv, StopAt, TypeOK, HostRegs,
     HostAt
<1>3. CASE SweepDone
  BY <1>3 DEF SweepDone, HostIdle, IInv, TInv, StopAt, TypeOK, HostRegs, HostAt
<1>4. CASE Abandon
  BY <1>4 DEF Abandon, SweepNext, HostIdle, DetachBoth, IInv, TInv, StopAt, TypeOK,
     HostRegs, HostAt
<1>5. CASE Take  BY <1>5 DEF Take, IInv, TInv, StopAt, TypeOK, HostRegs, HostAt
<1>6. CASE TakeLost
  BY <1>6 DEF TakeLost, SweepNext, HostIdle, IInv, TInv, StopAt, TypeOK, HostRegs,
     HostAt
<1>7. CASE TakeContinue
  BY <1>7 DEF TakeContinue, Replying, Taken, IInv, TInv, StopAt, TypeOK, HostRegs,
     HostAt
<1>8. CASE TakePush
  BY <1>8 DEF TakePush, Replying, Taken, IInv, TInv, StopAt, TypeOK, HostRegs, HostAt
<1>9. CASE TakeDispatch
  BY <1>9 DEF TakeDispatch, SweepNext, HostIdle, Taken, Joined, IInv, TInv, StopAt,
     TypeOK, HostRegs, HostAt
<1>10. CASE TakeUnknown
  BY <1>10 DEF TakeUnknown, Replying, Taken, IInv, TInv, StopAt, TypeOK, HostRegs,
     HostAt
<1>11. CASE Reply  BY <1>11 DEF Reply, IInv, TInv, StopAt, TypeOK, HostRegs, HostAt
<1>12. CASE WriteStale
  BY <1>12 DEF WriteStale, Return, HostIdle, IInv, TInv, StopAt, TypeOK, HostRegs,
     HostAt
<1>13. CASE Write
  BY <1>13 DEF Write, FreeBufs, FirstFree, TailOf, IInv, TInv, StopAt, TypeOK, HostRegs,
     HostAt
<1>14. CASE Publish
  BY <1>14 DEF Publish, Return, HostIdle, PublishWins, IInv, TInv, StopAt, TypeOK,
     HostRegs, HostAt
<1>15. CASE PublishLost
  BY <1>15 DEF PublishLost, Return, HostIdle, PublishWins, IInv, TInv, StopAt, TypeOK,
     HostRegs, HostAt
<1>16. CASE FailSkip
  BY <1>16 DEF FailSkip, IInv, TInv, StopAt, TypeOK, HostRegs, HostAt
<1>17. CASE FailSlot
  BY <1>17 DEF FailSlot, Replying, DetachRequest, IInv, TInv, StopAt, TypeOK, HostRegs,
     HostAt
<1>18. CASE FailDone
  BY <1>18 DEF FailDone, HostIdle, IInv, TInv, StopAt, TypeOK, HostRegs, HostAt
<1>19. ASSUME NEW k \in handlers, Complete(k) PROVE StopAt'
  BY <1>19 DEF Complete, HostIdle, StillOurs, IInv, TInv, StopAt, TypeOK, HostRegs,
     HostAt
<1>20. CASE Stop
  BY <1>20 DEF Stop, HostIdle, IInv, TInv, StopAt, TypeOK, HostRegs, HostAt
<1>f. CASE UNCHANGED <<hostGone, h>>  BY <1>f DEF TInv, StopAt
<1>p. CASE Program
  BY <1>p, <1>f
  DEF Program, Submit, Collect, CancelReady, CancelBump, WaitAny, Release
<1>w. CASE Worker
  BY <1>w, <1>f
  DEF Worker, Wake, Look, Park, Unpark, ClaimSlot, ClaimNext, TakeReqBuf, PublishPiece,
      AwaitReady, ReadRes, HandBack, NextPiece, PieceFailed, CollectMore, CollectLast,
      CancelStore, WaitScan, Release
<1>h. CASE Host
  BY <1>h, <1>1, <1>2, <1>3, <1>4, <1>5, <1>6, <1>7, <1>8, <1>9, <1>10, <1>11, <1>12,
     <1>13, <1>14, <1>15, <1>16, <1>17, <1>18
  DEF Host
<1>t. CASE Timeout  BY <1>t, <1>f DEF Timeout, Unpark
<1>d. CASE HandlerDone  BY <1>d, <1>19 DEF HandlerDone
<1>s. CASE Stop  BY <1>s, <1>20
<1>. QED  BY <1>p, <1>w, <1>h, <1>t, <1>d, <1>s DEF Next

\* Whatever takes a slot out of FREE gives it an owner, and whatever takes the owner away
\* frees the slot or leaves it to the sweep.
LEMMA StrandedStep == ASSUME IInv, TInv, Next PROVE NoSlotStranded'
<1> USE DEF reqPool, resArea, program, tables
<1>a. TypeOK  BY DEF IInv
<1>1. CASE Park
  <2>1. CASE hostGone /\ Raise
    BY <1>1, <2>1, <1>a, RaiseEffect, ParkEffect DEF IInv, TInv, NoSlotStranded, WorkerHolds, Holds, WorkerAt
  <2>2. CASE ~hostGone /\ GoesOn /\ w'.slot = w.slot /\ w'.pc \in {"parked", "seen"}
    BY <1>1, <2>2, <1>a, ParkEffect DEF GoesOn, IInv, TInv, NoSlotStranded, WorkerHolds, Holds, WorkerAt
  <2>. QED  BY <1>1, <2>1, <2>2, <1>a, ParkEffect
<1>2. ASSUME NEW timeout \in BOOLEAN, Unpark(timeout) PROVE NoSlotStranded'
  <2>1. CASE hostGone /\ Raise
    BY <1>2, <2>1, <1>a, RaiseEffect, ParkEffect DEF IInv, TInv, NoSlotStranded, WorkerHolds, Holds, WorkerAt
  <2>2. CASE ~hostGone /\ GoesOn /\ w'.slot = w.slot /\ w'.pc \in {"parked", "seen"}
    BY <1>2, <2>2, <1>a, ParkEffect DEF GoesOn, IInv, TInv, NoSlotStranded, WorkerHolds, Holds, WorkerAt
  <2>. QED  BY <1>2, <2>1, <2>2, <1>a, ParkEffect
<1>3. CASE ClaimSlot
  <2>1. w.slot \in Slots /\ w.call \in Calls /\ gen[w.slot] \in Nat
    BY <1>3, SizesAssumption DEF ClaimSlot, IInv, WorkerAt, HostAt, TypeOK, Given, Calls
  <2>2. \A c \in Calls : ~(ticket[c].slot = w.slot /\ ticket[c].gen = gen[w.slot])
    BY <1>3, <2>1 DEF ClaimSlot, TInv, Unheld, Loose, Holds
  <2>3. \A c \in Calls : ticket'[c] = IF c = w.call THEN [slot |-> w.slot, gen |-> gen[w.slot]]
                                        ELSE ticket[c]
    BY <1>3, <2>1 DEF ClaimSlot, TypeOK, IInv
  <2>4. \A c \in Calls : IF c = w.call
                          THEN ticket'[c].slot = w.slot /\ ticket'[c].gen = gen[w.slot]
                          ELSE ticket'[c].slot = ticket[c].slot /\ ticket'[c].gen = ticket[c].gen
    BY <2>3
  <2>5. gen' = gen  BY <1>3 DEF ClaimSlot
  <2>6. SUFFICES ASSUME ~hostGone, NEW s \in Slots, status'[s] \notin {"FREE", "CANCELLED"}
                 PROVE  \E c \in Calls : ticket'[c] = [slot |-> s, gen |-> gen'[s]]
    BY <1>3 DEF NoSlotStranded, ClaimSlot
  <2>7. CASE s = w.slot  BY <2>1, <2>3, <2>5, <2>7
  <2>8. CASE s # w.slot
    <3>1. status[s] \notin {"FREE", "CANCELLED"}  BY <1>3, <1>a, <2>1, <2>6, <2>8 DEF ClaimSlot, TypeOK
    <3>2. PICK c \in Calls : ticket[c] = [slot |-> s, gen |-> gen[s]]
      BY <1>3, <2>6, <3>1 DEF TInv, NoSlotStranded, ClaimSlot
    <3>3. c # w.call
      <4>1. w.loop = "claim" /\ w.fn = "submit"  BY <1>3 DEF ClaimSlot, IInv, WorkerAt
      <4>2. ticket[w.call] = NoTicket  BY <4>1 DEF TInv, WorkerHolds
      <4>3. NoTicket.slot = 0 /\ ticket[c].slot = s /\ s # 0  BY <3>2 DEF NoTicket, Slots
      <4>. QED  BY <4>2, <4>3
    <3>. QED  BY <2>3, <2>5, <3>2, <3>3
  <2>. QED  BY <2>7, <2>8
<1>4. CASE ClaimNext
  <2>0. /\ w.pc = "claim"
        /\ UNCHANGED <<status, gen, op, reqPool, resArea, hostGone, shape, h, tables>>
    BY <1>4, <1>a, ClaimEffect
  <2>1. CASE Raise
    BY <2>0, <2>1, <1>a, RaiseEffect DEF IInv, TInv, NoSlotStranded, WorkerHolds, Holds, WorkerAt
  <2>2. CASE GoesOn /\ w'.pc \in {"claim", "park"}
    BY <2>0, <2>2 DEF GoesOn, IInv, TInv, NoSlotStranded, WorkerHolds, Holds, WorkerAt
  <2>. QED  BY <1>4, <2>1, <2>2, <1>a, ClaimEffect
<1>5. CASE TakeReqBuf
  BY <1>5, <1>a, TakeReqBufEffect DEF IInv, TInv, NoSlotStranded, WorkerHolds, Holds, WorkerAt
<1>6. ASSUME NEW sh \in Shapes, Submit(sh) PROVE NoSlotStranded'
  BY <1>6 DEF Submit, WorkerIdle, IInv, TInv, NoSlotStranded, WorkerHolds, Holds,
     WorkerAt, TypeOK, WorkerRegs, Slots, WorkersSlot, Calls, Given
<1>7. ASSUME NEW c \in Calls, Collect(c) PROVE NoSlotStranded'
  BY <1>7 DEF Collect, WorkerIdle, Live, IInv, TInv, NoSlotStranded, WorkerHolds, Holds,
     WorkerAt, TypeOK, WorkerRegs, Slots, WorkersSlot, Calls, Given
<1>8. ASSUME NEW c \in Calls, CancelReady(c) PROVE NoSlotStranded'
  BY <1>8 DEF CancelReady, Release, Live, IInv, TInv, NoSlotStranded, WorkerHolds,
     Holds, WorkerAt, TypeOK, WorkerRegs, Slots, WorkersSlot, Calls, Given
<1>9. ASSUME NEW c \in Calls, CancelBump(c) PROVE NoSlotStranded'
  BY <1>9 DEF CancelBump, WorkerIdle, Live, IInv, TInv, NoSlotStranded, WorkerHolds,
     Holds, WorkerAt, TypeOK, WorkerRegs, Slots, WorkersSlot, Calls, Given
<1>10. ASSUME NEW set \in SUBSET Calls, NEW timed \in BOOLEAN, WaitAny(set, timed) PROVE
      NoSlotStranded'
  BY <1>10 DEF WaitAny, WorkerIdle, IInv, TInv, NoSlotStranded, WorkerHolds, Holds,
     WorkerAt, TypeOK, WorkerRegs, Slots, WorkersSlot, Calls, Given
<1>11. CASE Look
  BY <1>11 DEF Look, IInv, TInv, NoSlotStranded, WorkerHolds, Holds, WorkerAt, TypeOK,
     WorkerRegs, Slots, WorkersSlot, Calls, Given
<1>12. CASE PublishPiece
  BY <1>12 DEF PublishPiece, WorkerIdle, IInv, TInv, NoSlotStranded, WorkerHolds, Holds,
     WorkerAt, TypeOK, WorkerRegs, Slots, WorkersSlot, Calls, Given
<1>13. CASE AwaitReady
  BY <1>13 DEF AwaitReady, IInv, TInv, NoSlotStranded, WorkerHolds, Holds, WorkerAt,
     TypeOK, WorkerRegs, Slots, WorkersSlot, Calls, Given
<1>14. CASE ReadRes
  BY <1>14 DEF ReadRes, IInv, TInv, NoSlotStranded, WorkerHolds, Holds, WorkerAt,
     TypeOK, WorkerRegs, Slots, WorkersSlot, Calls, Given
<1>15. CASE HandBack
  BY <1>15 DEF HandBack, IInv, TInv, NoSlotStranded, WorkerHolds, Holds, WorkerAt,
     TypeOK, WorkerRegs, Slots, WorkersSlot, Calls, Given
<1>16. CASE NextPiece
  BY <1>16 DEF NextPiece, IInv, TInv, NoSlotStranded, WorkerHolds, Holds, WorkerAt,
     TypeOK, WorkerRegs, Slots, WorkersSlot, Calls, Given
<1>17. CASE PieceFailed
  BY <1>17 DEF PieceFailed, Raise, WorkerIdle, NoTicket, Release, IInv, TInv,
     NoSlotStranded, WorkerHolds, Holds, WorkerAt, TypeOK, WorkerRegs, Slots,
     WorkersSlot, Calls, Given
<1>18. CASE CollectMore
  BY <1>18 DEF CollectMore, IInv, TInv, NoSlotStranded, WorkerHolds, Holds, WorkerAt,
     TypeOK, WorkerRegs, Slots, WorkersSlot, Calls, Given
<1>19. CASE CollectLast
  BY <1>19 DEF CollectLast, WorkerIdle, Release, IInv, TInv, NoSlotStranded,
     WorkerHolds, Holds, WorkerAt, TypeOK, WorkerRegs, Slots, WorkersSlot, Calls, Given
<1>20. CASE CancelStore
  BY <1>20 DEF CancelStore, WorkerIdle, IInv, TInv, NoSlotStranded, WorkerHolds, Holds,
     WorkerAt, TypeOK, WorkerRegs, Slots, WorkersSlot, Calls, Given
<1>21. CASE WaitScan
  BY <1>21 DEF WaitScan, WorkerIdle, IsDone, Live, IInv, TInv, NoSlotStranded,
     WorkerHolds, Holds, WorkerAt, TypeOK, WorkerRegs, Slots, WorkersSlot, Calls, Given
<1>22. CASE Abandon
  BY <1>22 DEF Abandon, SweepNext, HostIdle, DetachBoth, IInv, TInv, NoSlotStranded,
     WorkerHolds, Holds, WorkerAt, TypeOK, WorkerRegs, Slots, WorkersSlot, Calls, Given
<1>23. CASE TakeContinue
  BY <1>23 DEF TakeContinue, Replying, Taken, IInv, TInv, NoSlotStranded, WorkerHolds,
     Holds, WorkerAt, TypeOK, WorkerRegs, Slots, WorkersSlot, Calls, Given
<1>24. CASE TakePush
  BY <1>24 DEF TakePush, Replying, Taken, IInv, TInv, NoSlotStranded, WorkerHolds,
     Holds, WorkerAt, TypeOK, WorkerRegs, Slots, WorkersSlot, Calls, Given
<1>25. CASE TakeDispatch
  BY <1>25 DEF TakeDispatch, SweepNext, HostIdle, Taken, Joined, IInv, TInv,
     NoSlotStranded, WorkerHolds, Holds, WorkerAt, TypeOK, WorkerRegs, Slots,
     WorkersSlot, Calls, Given
<1>26. CASE TakeUnknown
  BY <1>26 DEF TakeUnknown, Replying, Taken, IInv, TInv, NoSlotStranded, WorkerHolds,
     Holds, WorkerAt, TypeOK, WorkerRegs, Slots, WorkersSlot, Calls, Given
<1>27. CASE Publish
  BY <1>27 DEF Publish, Return, HostIdle, PublishWins, IInv, TInv, NoSlotStranded,
     WorkerHolds, Holds, WorkerAt, TypeOK, WorkerRegs, Slots, WorkersSlot, Calls, Given
<1>28. CASE FailSlot
  BY <1>28 DEF FailSlot, Replying, DetachRequest, IInv, TInv, NoSlotStranded,
     WorkerHolds, Holds, WorkerAt, TypeOK, WorkerRegs, Slots, WorkersSlot, Calls, Given
<1>29. CASE Stop
  BY <1>29 DEF Stop, HostIdle, IInv, TInv, NoSlotStranded, WorkerHolds, Holds, WorkerAt,
     TypeOK, WorkerRegs, Slots, WorkersSlot, Calls, Given
<1>f. CASE UNCHANGED <<hostGone, status, ticket, gen, w>>  BY <1>f DEF TInv, NoSlotStranded, Holds, Given
<1>p. CASE Program
  BY <1>p, <1>6, <1>7, <1>8, <1>9, <1>10
  DEF Program
<1>w. CASE Worker
  BY <1>w, <1>11, <1>1, <1>2, <1>3, <1>4, <1>5, <1>12, <1>13, <1>14, <1>15, <1>16,
     <1>17, <1>18, <1>19, <1>20, <1>21
  DEF Worker, Wake
<1>h. CASE Host
  BY <1>h, <1>22, <1>23, <1>24, <1>25, <1>26, <1>27, <1>28, <1>f
  DEF Host, LoopWake, SweepSkip, SweepDone, Take, TakeLost, Reply, WriteStale, Write,
      PublishLost, FailSkip, FailDone
<1>t. CASE Timeout  BY <1>t, <1>2 DEF Timeout
<1>d. CASE HandlerDone  BY <1>d, <1>f DEF HandlerDone, Complete
<1>s. CASE Stop  BY <1>s, <1>29
<1>. QED  BY <1>p, <1>w, <1>h, <1>t, <1>d, <1>s DEF Next

\* The tickets and slots of a bridge that has just started.
LEMMA TicketsInit == ASSUME Init PROVE TInv
<1>1. Numbered /\ WorkerHolds  BY DEF Init, Numbered, WorkerHolds, WorkerIdle
<1>2. \A c \in Calls : ticket[c].slot = 0  BY DEF Init, NoTicket
<1>3. TicketsApart /\ Unheld  BY <1>2 DEF TicketsApart, Unheld, Holds, Slots
<1>4. Scanned /\ StopAt  BY DEF Init, Scanned, StopAt, WorkerIdle, HostIdle
<1>5. NoSlotStranded  BY DEF Init, NoSlotStranded
<1>. QED  BY <1>1, <1>3, <1>4, <1>5 DEF TInv

\* A step that changes nothing keeps them.
LEMMA TicketsStutter == ASSUME TInv, UNCHANGED vars PROVE TInv'
<1> USE DEF vars, reqPool, resArea, program, tables
<1>1. Numbered'  BY DEF TInv, Numbered, Given
<1>2. WorkerHolds'  BY DEF TInv, WorkerHolds, Holds, Given
<1>3. TicketsApart'  BY DEF TInv, TicketsApart
<1>4. Unheld'  BY DEF TInv, Unheld, Holds, Loose
<1>5. Scanned' /\ StopAt'  BY DEF TInv, Scanned, StopAt
<1>6. NoSlotStranded'  BY DEF TInv, NoSlotStranded
<1>. QED  BY <1>1, <1>2, <1>3, <1>4, <1>5, <1>6 DEF TInv

\* The invariants of the tickets hold in every state of every execution.
THEOREM TicketsInvariance == Spec => []TInv
<1>1. Init => TInv  BY TicketsInit
<1>2. IInv /\ TInv /\ [Next]_vars => TInv'
  <2>1. ASSUME IInv, TInv, Next PROVE TInv'
    BY <2>1, NumberedStep, WorkerHoldsStep, TicketsApartStep, UnheldStep, ScannedStep,
       StopAtStep, StrandedStep
    DEF TInv
  <2>. QED  BY <2>1, TicketsStutter
<1>. QED  BY <1>1, <1>2, Invariance, PTL DEF Spec

\* A slot that is not free belongs to a live ticket, to the cancel under way, or is the sweep's
\* to hand back, until the responder goes: take's and write's exchanges strand none.
THEOREM SlotsAreKept == Spec => []NoSlotStranded
<1>1. TInv => NoSlotStranded  BY DEF TInv
<1>. QED  BY <1>1, TicketsInvariance, PTL

\* claim raises "all slots hold answers never taken" only when it is so, although it looked at
\* the slots one after the other: the worker that would take an answer is the one that looks.
THEOREM FullIsNoFalseAlarm == Spec => FullIsTrue
<1> DEFINE Full == w.pc = "claim" /\ w'.pc = "idle" => \A s \in Slots : status[s] = "READY"
<1>1. IInv /\ TInv /\ [Next]_vars => Full
  <2> SUFFICES ASSUME IInv, TInv, [Next]_vars, w.pc = "claim", w'.pc = "idle"
               PROVE  \A s \in Slots : status[s] = "READY"
    OBVIOUS
  <2>1. Next /\ w' # w  BY DEF vars
  <2>2. ClaimNext
    <3> USE DEF reqPool, resArea, program, tables
    <3>1. CASE Program
      BY <3>1, <2>1 DEF Program, Submit, Collect, CancelReady, CancelBump, WaitAny
    <3>2. CASE Worker
      <4>1. ~ClaimSlot
        BY DEF ClaimSlot, IInv, TypeOK, WorkerRegs
      <4>. QED
        BY <3>2, <2>1, <4>1
        DEF Worker, Look, Park, Wake, Unpark, TakeReqBuf, PublishPiece, AwaitReady, ReadRes,
            HandBack, NextPiece, PieceFailed, CollectMore, CollectLast, CancelStore, WaitScan
    <3>3. CASE Host
      BY <3>3, <2>1
      DEF Host, LoopWake, SweepSkip, SweepDone, Abandon, Take, TakeLost, TakeContinue,
          TakePush, TakeDispatch, TakeUnknown, Taken, Reply, WriteStale, Write, Publish,
          PublishLost, FailSkip, FailSlot, FailDone
    <3>4. CASE Timeout \/ HandlerDone \/ Stop
      BY <3>4, <2>1 DEF Timeout, Unpark, HandlerDone, Complete, Stop
    <3>. QED  BY <2>1, <3>1, <3>2, <3>3, <3>4 DEF Next
  <2>3. TypeOK /\ w.slot \in Slots  BY DEF IInv, WorkerAt
  <2>4. w.slot = N /\ w.allReady /\ status[w.slot] = "READY"
    BY <2>2, <2>3, ClaimEffect
  <2>5. \A s \in Slots : s < w.slot \/ s = w.slot  BY <2>4, SizesAssumption DEF Slots
  <2>. QED  BY <2>4, <2>5 DEF TInv, Scanned
<1>2. Full => [Full]_vars  OBVIOUS
<1>. QED  BY <1>1, <1>2, Invariance, TicketsInvariance, PTL DEF Spec, FullIsTrue

\* The worker does not touch a slot the host has taken, except to cancel it.
LEMMA HostsSlotStep == ASSUME IInv, TInv, RInv, Quiet, Quiet', Next PROVE HostsSlot'
<1> USE DEF reqPool, resArea, program, tables
<1>a. TypeOK  BY DEF IInv
<1>q. /\ ~hostGone /\ ~hostGone' /\ "PENDING" \notin CancelFrom
      /\ h.pc # "fail" /\ h.ret # "fail"
  BY DEF Quiet, TInv, StopAt
<1>1. ASSUME NEW c \in Calls, CancelBump(c) PROVE HostsSlot'
  <2>1. ticket[c].slot \in Slots  BY <1>1, <1>a, LiveSlot DEF CancelBump
  <2>2. status[ticket[c].slot] = "RUNNING"  BY <1>1, <1>q, ModesAssumption DEF CancelBump
  <2>3. gen' = [gen EXCEPT ![ticket[c].slot] = @ + 1] /\ UNCHANGED <<status, h>>
    BY <1>1 DEF CancelBump
  <2>4. w'.pc = "cancel" /\ w'.slot = ticket[c].slot  BY <1>1 DEF CancelBump, WorkerIdle
  <2>. QED  BY <1>a, <2>1, <2>2, <2>3, <2>4 DEF RInv, HostsSlot, Replies, TypeOK
<1>2. CASE Park
  <2>1. CASE hostGone /\ Raise
    BY <1>2, <2>1, <1>a, RaiseEffect, ParkEffect, <1>q DEF IInv, RInv, HostsSlot, WorkerAt, Replies, WorkersSlot
  <2>2. CASE ~hostGone /\ GoesOn /\ w'.slot = w.slot /\ w'.pc \in {"parked", "seen"}
    BY <1>2, <2>2, <1>a, ParkEffect, <1>q DEF GoesOn, IInv, RInv, HostsSlot, WorkerAt, Replies, WorkersSlot
  <2>. QED  BY <1>2, <2>1, <2>2, <1>a, ParkEffect
<1>3. ASSUME NEW timeout \in BOOLEAN, Unpark(timeout) PROVE HostsSlot'
  <2>1. CASE hostGone /\ Raise
    BY <1>3, <2>1, <1>a, RaiseEffect, ParkEffect, <1>q DEF IInv, RInv, HostsSlot, WorkerAt, Replies, WorkersSlot
  <2>2. CASE ~hostGone /\ GoesOn /\ w'.slot = w.slot /\ w'.pc \in {"parked", "seen"}
    BY <1>3, <2>2, <1>a, ParkEffect, <1>q DEF GoesOn, IInv, RInv, HostsSlot, WorkerAt, Replies, WorkersSlot
  <2>. QED  BY <1>3, <2>1, <2>2, <1>a, ParkEffect
<1>4. CASE ClaimNext
  <2>0. /\ w.pc = "claim"
        /\ UNCHANGED <<status, gen, op, reqPool, resArea, hostGone, shape, h, tables>>
    BY <1>4, <1>a, ClaimEffect
  <2>1. CASE Raise
    BY <2>0, <2>1, <1>a, RaiseEffect, <1>q DEF IInv, RInv, HostsSlot, WorkerAt, Replies, WorkersSlot
  <2>2. CASE GoesOn /\ w'.pc \in {"claim", "park"}
    BY <2>0, <2>2, <1>q DEF GoesOn, IInv, RInv, HostsSlot, WorkerAt, Replies, WorkersSlot
  <2>. QED  BY <1>4, <2>1, <2>2, <1>a, ClaimEffect
<1>5. CASE TakeReqBuf
  BY <1>5, <1>a, TakeReqBufEffect, <1>q DEF IInv, RInv, HostsSlot, WorkerAt, Replies, WorkersSlot
<1>6. CASE FailSkip
  BY <1>6, <1>q DEF FailSkip
<1>7. CASE FailSlot
  BY <1>7, <1>q DEF FailSlot
<1>8. CASE FailDone
  BY <1>8, <1>q DEF FailDone
<1>9. ASSUME NEW k \in handlers, Complete(k) PROVE HostsSlot'
  <2>1. k.slot \in Slots  BY <1>a DEF TypeOK, Handlers
  <2>2. h.pc = "loop" /\ UNCHANGED <<status, gen, w>>  BY <1>9 DEF Complete
  <2>3. CASE StillOurs(k)
    <3>1. status[k.slot] = "RUNNING"  BY <2>3 DEF RInv, HandlersRun, Current, StillOurs
    <3>2. h'.pc = "reply" /\ h'.slot = k.slot  BY <1>9, <2>3 DEF Complete, HostIdle
    <3>. QED  BY <2>2, <3>1, <3>2 DEF RInv, HostsSlot, Replies
  <2>4. CASE ~StillOurs(k)  BY <1>9, <2>2, <2>4 DEF Complete, RInv, HostsSlot, Replies
  <2>. QED  BY <2>3, <2>4
<1>10. CASE Stop
  BY <1>10, <1>q DEF Stop
<1>11. ASSUME NEW sh \in Shapes, Submit(sh) PROVE HostsSlot'
  BY <1>11, <1>q DEF Submit, WorkerIdle, IInv, RInv, HostsSlot, WorkerAt, Replies,
     WorkersSlot, TypeOK, WorkerRegs, HostRegs, HostAt, Slots, Bufs
<1>12. ASSUME NEW c \in Calls, Collect(c) PROVE HostsSlot'
  BY <1>12, <1>q DEF Collect, WorkerIdle, Live, IInv, RInv, HostsSlot, WorkerAt,
     Replies, WorkersSlot, TypeOK, WorkerRegs, HostRegs, HostAt, Slots, Bufs
<1>13. ASSUME NEW c \in Calls, CancelReady(c) PROVE HostsSlot'
  BY <1>13, <1>q DEF CancelReady, Release, Live, IInv, RInv, HostsSlot, WorkerAt,
     Replies, WorkersSlot, TypeOK, WorkerRegs, HostRegs, HostAt, Slots, Bufs
<1>14. ASSUME NEW set \in SUBSET Calls, NEW timed \in BOOLEAN, WaitAny(set, timed) PROVE
      HostsSlot'
  BY <1>14, <1>q DEF WaitAny, WorkerIdle, IInv, RInv, HostsSlot, WorkerAt, Replies,
     WorkersSlot, TypeOK, WorkerRegs, HostRegs, HostAt, Slots, Bufs
<1>15. CASE Look
  BY <1>15, <1>q DEF Look, IInv, RInv, HostsSlot, WorkerAt, Replies, WorkersSlot,
     TypeOK, WorkerRegs, HostRegs, HostAt, Slots, Bufs
<1>16. CASE ClaimSlot
  BY <1>16, <1>q DEF ClaimSlot, IInv, RInv, HostsSlot, WorkerAt, Replies, WorkersSlot,
     TypeOK, WorkerRegs, HostRegs, HostAt, Slots, Bufs
<1>17. CASE PublishPiece
  BY <1>17, <1>q DEF PublishPiece, WorkerIdle, IInv, RInv, HostsSlot, WorkerAt, Replies,
     WorkersSlot, TypeOK, WorkerRegs, HostRegs, HostAt, Slots, Bufs
<1>18. CASE AwaitReady
  BY <1>18, <1>q DEF AwaitReady, IInv, RInv, HostsSlot, WorkerAt, Replies, WorkersSlot,
     TypeOK, WorkerRegs, HostRegs, HostAt, Slots, Bufs
<1>19. CASE ReadRes
  BY <1>19, <1>q DEF ReadRes, IInv, RInv, HostsSlot, WorkerAt, Replies, WorkersSlot,
     TypeOK, WorkerRegs, HostRegs, HostAt, Slots, Bufs
<1>20. CASE HandBack
  BY <1>20, <1>q DEF HandBack, IInv, RInv, HostsSlot, WorkerAt, Replies, WorkersSlot,
     TypeOK, WorkerRegs, HostRegs, HostAt, Slots, Bufs
<1>21. CASE NextPiece
  BY <1>21, <1>q DEF NextPiece, IInv, RInv, HostsSlot, WorkerAt, Replies, WorkersSlot,
     TypeOK, WorkerRegs, HostRegs, HostAt, Slots, Bufs
<1>22. CASE PieceFailed
  BY <1>22, <1>q DEF PieceFailed, Raise, WorkerIdle, NoTicket, Release, IInv, RInv,
     HostsSlot, WorkerAt, Replies, WorkersSlot, TypeOK, WorkerRegs, HostRegs, HostAt,
     Slots, Bufs
<1>23. CASE CollectMore
  BY <1>23, <1>q DEF CollectMore, IInv, RInv, HostsSlot, WorkerAt, Replies, WorkersSlot,
     TypeOK, WorkerRegs, HostRegs, HostAt, Slots, Bufs
<1>24. CASE CollectLast
  BY <1>24, <1>q DEF CollectLast, WorkerIdle, Release, IInv, RInv, HostsSlot, WorkerAt,
     Replies, WorkersSlot, TypeOK, WorkerRegs, HostRegs, HostAt, Slots, Bufs
<1>25. CASE CancelStore
  BY <1>25, <1>q DEF CancelStore, WorkerIdle, IInv, RInv, HostsSlot, WorkerAt, Replies,
     WorkersSlot, TypeOK, WorkerRegs, HostRegs, HostAt, Slots, Bufs
<1>26. CASE WaitScan
  BY <1>26, <1>q DEF WaitScan, WorkerIdle, IsDone, Live, IInv, RInv, HostsSlot,
     WorkerAt, Replies, WorkersSlot, TypeOK, WorkerRegs, HostRegs, HostAt, Slots, Bufs
<1>27. CASE LoopWake
  BY <1>27, <1>q DEF LoopWake, HostIdle, IInv, RInv, HostsSlot, WorkerAt, Replies,
     WorkersSlot, TypeOK, WorkerRegs, HostRegs, HostAt, Slots, Bufs
<1>28. CASE SweepSkip
  BY <1>28, <1>q DEF SweepSkip, SweepNext, HostIdle, IInv, RInv, HostsSlot, WorkerAt,
     Replies, WorkersSlot, TypeOK, WorkerRegs, HostRegs, HostAt, Slots, Bufs
<1>29. CASE SweepDone
  BY <1>29, <1>q DEF SweepDone, HostIdle, IInv, RInv, HostsSlot, WorkerAt, Replies,
     WorkersSlot, TypeOK, WorkerRegs, HostRegs, HostAt, Slots, Bufs
<1>30. CASE Abandon
  BY <1>30, <1>q DEF Abandon, SweepNext, HostIdle, DetachBoth, IInv, RInv, HostsSlot,
     WorkerAt, Replies, WorkersSlot, TypeOK, WorkerRegs, HostRegs, HostAt, Slots, Bufs
<1>31. CASE Take
  BY <1>31, <1>q DEF Take, IInv, RInv, HostsSlot, WorkerAt, Replies, WorkersSlot,
     TypeOK, WorkerRegs, HostRegs, HostAt, Slots, Bufs
<1>32. CASE TakeLost
  BY <1>32, <1>q DEF TakeLost, SweepNext, HostIdle, IInv, RInv, HostsSlot, WorkerAt,
     Replies, WorkersSlot, TypeOK, WorkerRegs, HostRegs, HostAt, Slots, Bufs
<1>33. CASE TakeContinue
  BY <1>33, <1>q DEF TakeContinue, Replying, Taken, IInv, RInv, HostsSlot, WorkerAt,
     Replies, WorkersSlot, TypeOK, WorkerRegs, HostRegs, HostAt, Slots, Bufs
<1>34. CASE TakePush
  BY <1>34, <1>q DEF TakePush, Replying, Taken, IInv, RInv, HostsSlot, WorkerAt,
     Replies, WorkersSlot, TypeOK, WorkerRegs, HostRegs, HostAt, Slots, Bufs
<1>35. CASE TakeDispatch
  BY <1>35, <1>q DEF TakeDispatch, SweepNext, HostIdle, Taken, Joined, IInv, RInv,
     HostsSlot, WorkerAt, Replies, WorkersSlot, TypeOK, WorkerRegs, HostRegs, HostAt,
     Slots, Bufs
<1>36. CASE TakeUnknown
  BY <1>36, <1>q DEF TakeUnknown, Replying, Taken, IInv, RInv, HostsSlot, WorkerAt,
     Replies, WorkersSlot, TypeOK, WorkerRegs, HostRegs, HostAt, Slots, Bufs
<1>37. CASE Reply
  BY <1>37, <1>q DEF Reply, IInv, RInv, HostsSlot, WorkerAt, Replies, WorkersSlot,
     TypeOK, WorkerRegs, HostRegs, HostAt, Slots, Bufs
<1>38. CASE WriteStale
  BY <1>38, <1>q DEF WriteStale, Return, HostIdle, IInv, RInv, HostsSlot, WorkerAt,
     Replies, WorkersSlot, TypeOK, WorkerRegs, HostRegs, HostAt, Slots, Bufs
<1>39. CASE Write
  BY <1>39, <1>q DEF Write, FreeBufs, FirstFree, TailOf, IInv, RInv, HostsSlot,
     WorkerAt, Replies, WorkersSlot, TypeOK, WorkerRegs, HostRegs, HostAt, Slots, Bufs
<1>40. CASE Publish
  BY <1>40, <1>q DEF Publish, Return, HostIdle, PublishWins, IInv, RInv, HostsSlot,
     WorkerAt, Replies, WorkersSlot, TypeOK, WorkerRegs, HostRegs, HostAt, Slots, Bufs
<1>41. CASE PublishLost
  BY <1>41, <1>q DEF PublishLost, Return, HostIdle, PublishWins, IInv, RInv, HostsSlot,
     WorkerAt, Replies, WorkersSlot, TypeOK, WorkerRegs, HostRegs, HostAt, Slots, Bufs
<1>f. CASE UNCHANGED <<h, status, gen, w>>  BY <1>f DEF TInv, RInv, HostsSlot, Replies
<1>p. CASE Program
  BY <1>p, <1>11, <1>12, <1>13, <1>1, <1>14
  DEF Program
<1>w. CASE Worker
  BY <1>w, <1>15, <1>2, <1>3, <1>16, <1>4, <1>5, <1>17, <1>18, <1>19, <1>20, <1>21,
     <1>22, <1>23, <1>24, <1>25, <1>26
  DEF Worker, Wake
<1>h. CASE Host
  BY <1>h, <1>27, <1>28, <1>29, <1>30, <1>31, <1>32, <1>33, <1>34, <1>35, <1>36, <1>37,
     <1>38, <1>39, <1>40, <1>41, <1>6, <1>7, <1>8
  DEF Host
<1>t. CASE Timeout  BY <1>t, <1>3 DEF Timeout
<1>d. CASE HandlerDone  BY <1>d, <1>9 DEF HandlerDone
<1>s. CASE Stop  BY <1>s, <1>10
<1>. QED  BY <1>p, <1>w, <1>h, <1>t, <1>d, <1>s DEF Next

\* take starts a handler with the generation the slot has, and whoever moves the
\* generation on leaves the handler behind.
LEMMA HandlersRunStep == ASSUME IInv, TInv, RInv, Quiet, Quiet', Next PROVE HandlersRun'
<1> USE DEF reqPool, resArea, program, tables
<1>a. TypeOK  BY DEF IInv
<1>q. /\ ~hostGone /\ ~hostGone' /\ "PENDING" \notin CancelFrom
      /\ h.pc # "fail" /\ h.ret # "fail"
  BY DEF Quiet, TInv, StopAt
<1>1. ASSUME NEW c \in Calls, CancelReady(c) PROVE HandlersRun'
  <2>1. ticket[c].slot \in Slots  BY <1>1, <1>a, LiveSlot DEF CancelReady
  <2>2. gen' = [gen EXCEPT ![ticket[c].slot] = @ + 1] /\ handlers' = handlers /\ h' = h  BY <1>1 DEF CancelReady, Release
  <2>3. \A x \in Slots : x # ticket[c].slot => status'[x] = status[x]  BY <1>1, <1>a DEF CancelReady, Release, TypeOK
  <2>4. w'.pc = "cancel" => w'.slot = ticket[c].slot  BY <1>1 DEF CancelReady, WorkerIdle
  <2>5. HandlersRun  BY DEF RInv
  <2>. QED  BY <1>a, <2>1, <2>2, <2>3, <2>4, <2>5, HandlersBump
<1>2. ASSUME NEW c \in Calls, CancelBump(c) PROVE HandlersRun'
  <2>1. ticket[c].slot \in Slots  BY <1>2, <1>a, LiveSlot DEF CancelBump
  <2>2. gen' = [gen EXCEPT ![ticket[c].slot] = @ + 1] /\ handlers' = handlers /\ h' = h  BY <1>2 DEF CancelBump
  <2>3. \A x \in Slots : x # ticket[c].slot => status'[x] = status[x]  BY <1>2, <1>a DEF CancelBump, TypeOK
  <2>4. w'.pc = "cancel" => w'.slot = ticket[c].slot  BY <1>2 DEF CancelBump, WorkerIdle
  <2>5. HandlersRun  BY DEF RInv
  <2>. QED  BY <1>a, <2>1, <2>2, <2>3, <2>4, <2>5, HandlersBump
<1>3. CASE Park
  <2>1. CASE hostGone /\ Raise
    BY <1>3, <2>1, <1>a, RaiseEffect, ParkEffect, <1>q DEF IInv, RInv, HandlersRun, HostsSlot, WorkerAt, Replies, WorkersSlot, Current
  <2>2. CASE ~hostGone /\ GoesOn /\ w'.slot = w.slot /\ w'.pc \in {"parked", "seen"}
    BY <1>3, <2>2, <1>a, ParkEffect, <1>q DEF GoesOn, IInv, RInv, HandlersRun, HostsSlot, WorkerAt, Replies, WorkersSlot, Current
  <2>. QED  BY <1>3, <2>1, <2>2, <1>a, ParkEffect
<1>4. ASSUME NEW timeout \in BOOLEAN, Unpark(timeout) PROVE HandlersRun'
  <2>1. CASE hostGone /\ Raise
    BY <1>4, <2>1, <1>a, RaiseEffect, ParkEffect, <1>q DEF IInv, RInv, HandlersRun, HostsSlot, WorkerAt, Replies, WorkersSlot, Current
  <2>2. CASE ~hostGone /\ GoesOn /\ w'.slot = w.slot /\ w'.pc \in {"parked", "seen"}
    BY <1>4, <2>2, <1>a, ParkEffect, <1>q DEF GoesOn, IInv, RInv, HandlersRun, HostsSlot, WorkerAt, Replies, WorkersSlot, Current
  <2>. QED  BY <1>4, <2>1, <2>2, <1>a, ParkEffect
<1>5. CASE ClaimNext
  <2>0. /\ w.pc = "claim"
        /\ UNCHANGED <<status, gen, op, reqPool, resArea, hostGone, shape, h, tables>>
    BY <1>5, <1>a, ClaimEffect
  <2>1. CASE Raise
    BY <2>0, <2>1, <1>a, RaiseEffect, <1>q DEF IInv, RInv, HandlersRun, HostsSlot, WorkerAt, Replies, WorkersSlot, Current
  <2>2. CASE GoesOn /\ w'.pc \in {"claim", "park"}
    BY <2>0, <2>2, <1>q DEF GoesOn, IInv, RInv, HandlersRun, HostsSlot, WorkerAt, Replies, WorkersSlot, Current
  <2>. QED  BY <1>5, <2>1, <2>2, <1>a, ClaimEffect
<1>6. CASE TakeReqBuf
  BY <1>6, <1>a, TakeReqBufEffect, <1>q DEF IInv, RInv, HandlersRun, HostsSlot, WorkerAt, Replies, WorkersSlot, Current
<1>7. CASE PieceFailed
  <2>1. w.slot \in Slots  BY <1>7 DEF PieceFailed, IInv, WorkerAt
  <2>2. gen' = [gen EXCEPT ![w.slot] = @ + 1] /\ handlers' = handlers /\ h' = h  BY <1>7 DEF PieceFailed, Release
  <2>3. \A x \in Slots : x # w.slot => status'[x] = status[x]  BY <1>7, <1>a DEF PieceFailed, Release, TypeOK
  <2>4. w'.pc = "cancel" => w'.slot = w.slot  BY <1>7, <1>a, RaiseEffect DEF PieceFailed
  <2>5. HandlersRun  BY DEF RInv
  <2>. QED  BY <1>a, <2>1, <2>2, <2>3, <2>4, <2>5, HandlersBump
<1>8. CASE CollectLast
  <2>1. w.slot \in Slots  BY <1>8 DEF CollectLast, IInv, WorkerAt
  <2>2. gen' = [gen EXCEPT ![w.slot] = @ + 1] /\ handlers' = handlers /\ h' = h  BY <1>8 DEF CollectLast, Release
  <2>3. \A x \in Slots : x # w.slot => status'[x] = status[x]  BY <1>8, <1>a DEF CollectLast, Release, TypeOK
  <2>4. w'.pc = "cancel" => w'.slot = w.slot  BY <1>8 DEF CollectLast, WorkerIdle
  <2>5. HandlersRun  BY DEF RInv
  <2>. QED  BY <1>a, <2>1, <2>2, <2>3, <2>4, <2>5, HandlersBump
<1>9. CASE TakeDispatch
  <2> DEFINE n == [slot |-> h.slot, gen |-> h.gen, whole |-> Joined(h.slot)]
  <2>1. /\ h.pc = "taken" /\ status[h.slot] = "PENDING" /\ UNCHANGED <<gen, w>>
        /\ status' = [status EXCEPT ![h.slot] = "RUNNING"] /\ handlers' = handlers \union {n}
        /\ h'.pc = "sweep"
    BY <1>9 DEF TakeDispatch, Taken, SweepNext, HostIdle
  <2>2. h.slot \in Slots /\ h.gen = gen[h.slot] /\ gen[h.slot] \in Nat
    BY <1>a, <2>1 DEF IInv, HostAt, RInv, HostsSlot, TypeOK
  <2>3. \A k \in handlers : Current(k) => k.slot # h.slot
    BY <2>1 DEF RInv, HandlersRun
  <2>4. n.slot = h.slot /\ n.gen = h.gen  OBVIOUS
  <2> HIDE DEF n
  <2>5. ~(w.pc = "cancel" /\ w.slot = h.slot)  BY <2>1 DEF RInv, HostsSlot
  <2>6. HandlersRun!1'  BY <2>1, <2>2, <2>4 DEF RInv, HandlersRun
  <2>7. HandlersRun!2'  BY <1>a, <2>1, <2>2, <2>3, <2>4, <2>5 DEF RInv, HandlersRun, Current, Replies, TypeOK
  <2>8. HandlersRun!3'  BY <2>1, <2>2, <2>3, <2>4 DEF RInv, HandlersRun, Current
  <2>. QED  BY <2>6, <2>7, <2>8 DEF HandlersRun
<1>10. CASE FailSkip
  BY <1>10, <1>q DEF FailSkip
<1>11. CASE FailSlot
  BY <1>11, <1>q DEF FailSlot
<1>12. CASE FailDone
  BY <1>12, <1>q DEF FailDone
<1>13. CASE Stop
  BY <1>13, <1>q DEF Stop
<1>14. ASSUME NEW sh \in Shapes, Submit(sh) PROVE HandlersRun'
  BY <1>14, <1>q DEF Submit, WorkerIdle, IInv, RInv, HandlersRun, HostsSlot, WorkerAt,
     Replies, WorkersSlot, Current, TypeOK, WorkerRegs, HostRegs, HostAt, Handlers,
     Slots
<1>15. ASSUME NEW c \in Calls, Collect(c) PROVE HandlersRun'
  BY <1>15, <1>q DEF Collect, WorkerIdle, Live, IInv, RInv, HandlersRun, HostsSlot,
     WorkerAt, Replies, WorkersSlot, Current, TypeOK, WorkerRegs, HostRegs, HostAt,
     Handlers, Slots
<1>16. ASSUME NEW set \in SUBSET Calls, NEW timed \in BOOLEAN, WaitAny(set, timed) PROVE
      HandlersRun'
  BY <1>16, <1>q DEF WaitAny, WorkerIdle, IInv, RInv, HandlersRun, HostsSlot, WorkerAt,
     Replies, WorkersSlot, Current, TypeOK, WorkerRegs, HostRegs, HostAt, Handlers,
     Slots
<1>17. CASE Look
  BY <1>17, <1>q DEF Look, IInv, RInv, HandlersRun, HostsSlot, WorkerAt, Replies,
     WorkersSlot, Current, TypeOK, WorkerRegs, HostRegs, HostAt, Handlers, Slots
<1>18. CASE ClaimSlot
  BY <1>18, <1>q DEF ClaimSlot, IInv, RInv, HandlersRun, HostsSlot, WorkerAt, Replies,
     WorkersSlot, Current, TypeOK, WorkerRegs, HostRegs, HostAt, Handlers, Slots
<1>19. CASE PublishPiece
  BY <1>19, <1>q DEF PublishPiece, WorkerIdle, IInv, RInv, HandlersRun, HostsSlot,
     WorkerAt, Replies, WorkersSlot, Current, TypeOK, WorkerRegs, HostRegs, HostAt,
     Handlers, Slots
<1>20. CASE AwaitReady
  BY <1>20, <1>q DEF AwaitReady, IInv, RInv, HandlersRun, HostsSlot, WorkerAt, Replies,
     WorkersSlot, Current, TypeOK, WorkerRegs, HostRegs, HostAt, Handlers, Slots
<1>21. CASE ReadRes
  BY <1>21, <1>q DEF ReadRes, IInv, RInv, HandlersRun, HostsSlot, WorkerAt, Replies,
     WorkersSlot, Current, TypeOK, WorkerRegs, HostRegs, HostAt, Handlers, Slots
<1>22. CASE HandBack
  BY <1>22, <1>q DEF HandBack, IInv, RInv, HandlersRun, HostsSlot, WorkerAt, Replies,
     WorkersSlot, Current, TypeOK, WorkerRegs, HostRegs, HostAt, Handlers, Slots
<1>23. CASE NextPiece
  BY <1>23, <1>q DEF NextPiece, IInv, RInv, HandlersRun, HostsSlot, WorkerAt, Replies,
     WorkersSlot, Current, TypeOK, WorkerRegs, HostRegs, HostAt, Handlers, Slots
<1>24. CASE CollectMore
  BY <1>24, <1>q DEF CollectMore, IInv, RInv, HandlersRun, HostsSlot, WorkerAt, Replies,
     WorkersSlot, Current, TypeOK, WorkerRegs, HostRegs, HostAt, Handlers, Slots
<1>25. CASE CancelStore
  BY <1>25, <1>q DEF CancelStore, WorkerIdle, IInv, RInv, HandlersRun, HostsSlot,
     WorkerAt, Replies, WorkersSlot, Current, TypeOK, WorkerRegs, HostRegs, HostAt,
     Handlers, Slots
<1>26. CASE WaitScan
  BY <1>26, <1>q DEF WaitScan, WorkerIdle, IsDone, Live, IInv, RInv, HandlersRun,
     HostsSlot, WorkerAt, Replies, WorkersSlot, Current, TypeOK, WorkerRegs, HostRegs,
     HostAt, Handlers, Slots
<1>27. CASE LoopWake
  BY <1>27, <1>q DEF LoopWake, HostIdle, IInv, RInv, HandlersRun, HostsSlot, WorkerAt,
     Replies, WorkersSlot, Current, TypeOK, WorkerRegs, HostRegs, HostAt, Handlers,
     Slots
<1>28. CASE SweepSkip
  BY <1>28, <1>q DEF SweepSkip, SweepNext, HostIdle, IInv, RInv, HandlersRun, HostsSlot,
     WorkerAt, Replies, WorkersSlot, Current, TypeOK, WorkerRegs, HostRegs, HostAt,
     Handlers, Slots
<1>29. CASE SweepDone
  BY <1>29, <1>q DEF SweepDone, HostIdle, IInv, RInv, HandlersRun, HostsSlot, WorkerAt,
     Replies, WorkersSlot, Current, TypeOK, WorkerRegs, HostRegs, HostAt, Handlers,
     Slots
<1>30. CASE Abandon
  BY <1>30, <1>q DEF Abandon, SweepNext, HostIdle, DetachBoth, IInv, RInv, HandlersRun,
     HostsSlot, WorkerAt, Replies, WorkersSlot, Current, TypeOK, WorkerRegs, HostRegs,
     HostAt, Handlers, Slots
<1>31. CASE Take
  BY <1>31, <1>q DEF Take, IInv, RInv, HandlersRun, HostsSlot, WorkerAt, Replies,
     WorkersSlot, Current, TypeOK, WorkerRegs, HostRegs, HostAt, Handlers, Slots
<1>32. CASE TakeLost
  BY <1>32, <1>q DEF TakeLost, SweepNext, HostIdle, IInv, RInv, HandlersRun, HostsSlot,
     WorkerAt, Replies, WorkersSlot, Current, TypeOK, WorkerRegs, HostRegs, HostAt,
     Handlers, Slots
<1>33. CASE TakeContinue
  BY <1>33, <1>q DEF TakeContinue, Replying, Taken, IInv, RInv, HandlersRun, HostsSlot,
     WorkerAt, Replies, WorkersSlot, Current, TypeOK, WorkerRegs, HostRegs, HostAt,
     Handlers, Slots
<1>34. CASE TakePush
  BY <1>34, <1>q DEF TakePush, Replying, Taken, IInv, RInv, HandlersRun, HostsSlot,
     WorkerAt, Replies, WorkersSlot, Current, TypeOK, WorkerRegs, HostRegs, HostAt,
     Handlers, Slots
<1>35. CASE TakeUnknown
  BY <1>35, <1>q DEF TakeUnknown, Replying, Taken, IInv, RInv, HandlersRun, HostsSlot,
     WorkerAt, Replies, WorkersSlot, Current, TypeOK, WorkerRegs, HostRegs, HostAt,
     Handlers, Slots
<1>36. CASE Reply
  BY <1>36, <1>q DEF Reply, IInv, RInv, HandlersRun, HostsSlot, WorkerAt, Replies,
     WorkersSlot, Current, TypeOK, WorkerRegs, HostRegs, HostAt, Handlers, Slots
<1>37. CASE WriteStale
  BY <1>37, <1>q DEF WriteStale, Return, HostIdle, IInv, RInv, HandlersRun, HostsSlot,
     WorkerAt, Replies, WorkersSlot, Current, TypeOK, WorkerRegs, HostRegs, HostAt,
     Handlers, Slots
<1>38. CASE Write
  BY <1>38, <1>q DEF Write, FreeBufs, FirstFree, TailOf, IInv, RInv, HandlersRun,
     HostsSlot, WorkerAt, Replies, WorkersSlot, Current, TypeOK, WorkerRegs, HostRegs,
     HostAt, Handlers, Slots
<1>39. CASE Publish
  BY <1>39, <1>q DEF Publish, Return, HostIdle, PublishWins, IInv, RInv, HandlersRun,
     HostsSlot, WorkerAt, Replies, WorkersSlot, Current, TypeOK, WorkerRegs, HostRegs,
     HostAt, Handlers, Slots
<1>40. CASE PublishLost
  BY <1>40, <1>q DEF PublishLost, Return, HostIdle, PublishWins, IInv, RInv,
     HandlersRun, HostsSlot, WorkerAt, Replies, WorkersSlot, Current, TypeOK,
     WorkerRegs, HostRegs, HostAt, Handlers, Slots
<1>41. ASSUME NEW k \in handlers, Complete(k) PROVE HandlersRun'
  BY <1>41, <1>q DEF Complete, HostIdle, StillOurs, IInv, RInv, HandlersRun, HostsSlot,
     WorkerAt, Replies, WorkersSlot, Current, TypeOK, WorkerRegs, HostRegs, HostAt,
     Handlers, Slots
<1>f. CASE UNCHANGED <<h, status, gen, w, handlers>>  BY <1>f DEF TInv, RInv, HandlersRun, Replies, Current
<1>p. CASE Program
  BY <1>p, <1>14, <1>15, <1>1, <1>2, <1>16
  DEF Program
<1>w. CASE Worker
  BY <1>w, <1>17, <1>3, <1>4, <1>18, <1>5, <1>6, <1>19, <1>20, <1>21, <1>22, <1>23,
     <1>7, <1>24, <1>8, <1>25, <1>26
  DEF Worker, Wake
<1>h. CASE Host
  BY <1>h, <1>27, <1>28, <1>29, <1>30, <1>31, <1>32, <1>33, <1>34, <1>9, <1>35, <1>36,
     <1>37, <1>38, <1>39, <1>40, <1>10, <1>11, <1>12
  DEF Host
<1>t. CASE Timeout  BY <1>t, <1>4 DEF Timeout
<1>d. CASE HandlerDone  BY <1>d, <1>41 DEF HandlerDone
<1>s. CASE Stop  BY <1>s, <1>13
<1>. QED  BY <1>p, <1>w, <1>h, <1>t, <1>d, <1>s DEF Next

\* write attaches, and readRes, release, abandon and a lost publish detach.
LEMMA ResponseStep == ASSUME IInv, TInv, RInv, Quiet, Quiet', Next PROVE ResponseAttached'
<1> USE DEF reqPool, resArea, program, tables
<1>a. TypeOK  BY DEF IInv
<1>q. /\ ~hostGone /\ ~hostGone' /\ "PENDING" \notin CancelFrom
      /\ h.pc # "fail" /\ h.ret # "fail"
  BY DEF Quiet, TInv, StopAt
<1>1. CASE Park
  <2>1. CASE hostGone /\ Raise
    BY <1>1, <2>1, <1>a, RaiseEffect, ParkEffect, <1>q DEF IInv, RInv, ResponseAttached, HostsSlot, WorkerAt, Replies, WorkersSlot
  <2>2. CASE ~hostGone /\ GoesOn /\ w'.slot = w.slot /\ w'.pc \in {"parked", "seen"}
    BY <1>1, <2>2, <1>a, ParkEffect, <1>q DEF GoesOn, IInv, RInv, ResponseAttached, HostsSlot, WorkerAt, Replies, WorkersSlot
  <2>. QED  BY <1>1, <2>1, <2>2, <1>a, ParkEffect
<1>2. ASSUME NEW timeout \in BOOLEAN, Unpark(timeout) PROVE ResponseAttached'
  <2>1. CASE hostGone /\ Raise
    BY <1>2, <2>1, <1>a, RaiseEffect, ParkEffect, <1>q DEF IInv, RInv, ResponseAttached, HostsSlot, WorkerAt, Replies, WorkersSlot
  <2>2. CASE ~hostGone /\ GoesOn /\ w'.slot = w.slot /\ w'.pc \in {"parked", "seen"}
    BY <1>2, <2>2, <1>a, ParkEffect, <1>q DEF GoesOn, IInv, RInv, ResponseAttached, HostsSlot, WorkerAt, Replies, WorkersSlot
  <2>. QED  BY <1>2, <2>1, <2>2, <1>a, ParkEffect
<1>3. CASE ClaimNext
  <2>0. /\ w.pc = "claim"
        /\ UNCHANGED <<status, gen, op, reqPool, resArea, hostGone, shape, h, tables>>
    BY <1>3, <1>a, ClaimEffect
  <2>1. CASE Raise
    BY <2>0, <2>1, <1>a, RaiseEffect, <1>q DEF IInv, RInv, ResponseAttached, HostsSlot, WorkerAt, Replies, WorkersSlot
  <2>2. CASE GoesOn /\ w'.pc \in {"claim", "park"}
    BY <2>0, <2>2, <1>q DEF GoesOn, IInv, RInv, ResponseAttached, HostsSlot, WorkerAt, Replies, WorkersSlot
  <2>. QED  BY <1>3, <2>1, <2>2, <1>a, ClaimEffect
<1>4. CASE TakeReqBuf
  BY <1>4, <1>a, TakeReqBufEffect, <1>q DEF IInv, RInv, ResponseAttached, HostsSlot, WorkerAt, Replies, WorkersSlot
<1>5. CASE Write
  <2>1. h.slot \in Slots /\ status[h.slot] \in {"RUNNING", "CANCELLED"}
    BY <1>5, WriteEffect DEF IInv, HostAt, RInv, HostsSlot, Replies
  <2>2. h'.pc = "publish" /\ h'.slot = h.slot /\ UNCHANGED <<status, w>>
    BY <1>5, <1>a, WriteEffect DEF TypeOK, HostRegs
  <2>3. \A x \in Slots : x # h.slot => resBuf'[x] = resBuf[x]
    BY <1>5, <1>a, WriteEffect DEF TypeOK
  <2>4. h.pc = "write"  BY <1>5, WriteEffect
  <2>5. w.pc \in {"handback", "decide"} \/ w.loop = "reqbuf" => w.slot # h.slot /\ w.slot \in Slots
    BY <2>1 DEF IInv, WorkersSlot, WorkerAt
  <2>. QED  BY <2>2, <2>3, <2>4, <2>5 DEF RInv, ResponseAttached
<1>6. CASE FailSkip
  BY <1>6, <1>q DEF FailSkip
<1>7. CASE FailSlot
  BY <1>7, <1>q DEF FailSlot
<1>8. CASE FailDone
  BY <1>8, <1>q DEF FailDone
<1>9. ASSUME NEW k \in handlers, Complete(k) PROVE ResponseAttached'
  <2>1. k.slot \in Slots  BY <1>a DEF TypeOK, Handlers
  <2>2. h.pc = "loop" /\ UNCHANGED <<status, resBuf, w>>  BY <1>9 DEF Complete
  <2>3. CASE StillOurs(k)
    <3>1. status[k.slot] = "RUNNING"  BY <2>3 DEF RInv, HandlersRun, Current, StillOurs
    <3>2. h'.pc = "reply" /\ h'.slot = k.slot  BY <1>9, <2>3 DEF Complete, HostIdle
    <3>. QED  BY <2>1, <2>2, <3>1, <3>2 DEF RInv, ResponseAttached
  <2>4. CASE ~StillOurs(k)  BY <1>9, <2>2, <2>4 DEF Complete, RInv, ResponseAttached
  <2>. QED  BY <2>3, <2>4
<1>10. CASE Stop
  BY <1>10, <1>q DEF Stop
<1>11. ASSUME NEW sh \in Shapes, Submit(sh) PROVE ResponseAttached'
  BY <1>11, <1>q DEF Submit, WorkerIdle, IInv, RInv, ResponseAttached, HostsSlot,
     WorkerAt, Replies, WorkersSlot, TypeOK, WorkerRegs, HostRegs, HostAt, Slots, Bufs
<1>12. ASSUME NEW c \in Calls, Collect(c) PROVE ResponseAttached'
  BY <1>12, <1>q DEF Collect, WorkerIdle, Live, IInv, RInv, ResponseAttached, HostsSlot,
     WorkerAt, Replies, WorkersSlot, TypeOK, WorkerRegs, HostRegs, HostAt, Slots, Bufs
<1>13. ASSUME NEW c \in Calls, CancelReady(c) PROVE ResponseAttached'
  BY <1>13, <1>q DEF CancelReady, Release, Live, IInv, RInv, ResponseAttached,
     HostsSlot, WorkerAt, Replies, WorkersSlot, TypeOK, WorkerRegs, HostRegs, HostAt,
     Slots, Bufs
<1>14. ASSUME NEW c \in Calls, CancelBump(c) PROVE ResponseAttached'
  BY <1>14, <1>q DEF CancelBump, WorkerIdle, Live, IInv, RInv, ResponseAttached,
     HostsSlot, WorkerAt, Replies, WorkersSlot, TypeOK, WorkerRegs, HostRegs, HostAt,
     Slots, Bufs
<1>15. ASSUME NEW set \in SUBSET Calls, NEW timed \in BOOLEAN, WaitAny(set, timed) PROVE
      ResponseAttached'
  BY <1>15, <1>q DEF WaitAny, WorkerIdle, IInv, RInv, ResponseAttached, HostsSlot,
     WorkerAt, Replies, WorkersSlot, TypeOK, WorkerRegs, HostRegs, HostAt, Slots, Bufs
<1>16. CASE Look
  BY <1>16, <1>q DEF Look, IInv, RInv, ResponseAttached, HostsSlot, WorkerAt, Replies,
     WorkersSlot, TypeOK, WorkerRegs, HostRegs, HostAt, Slots, Bufs
<1>17. CASE ClaimSlot
  BY <1>17, <1>q DEF ClaimSlot, IInv, RInv, ResponseAttached, HostsSlot, WorkerAt,
     Replies, WorkersSlot, TypeOK, WorkerRegs, HostRegs, HostAt, Slots, Bufs
<1>18. CASE PublishPiece
  BY <1>18, <1>q DEF PublishPiece, WorkerIdle, IInv, RInv, ResponseAttached, HostsSlot,
     WorkerAt, Replies, WorkersSlot, TypeOK, WorkerRegs, HostRegs, HostAt, Slots, Bufs
<1>19. CASE AwaitReady
  BY <1>19, <1>q DEF AwaitReady, IInv, RInv, ResponseAttached, HostsSlot, WorkerAt,
     Replies, WorkersSlot, TypeOK, WorkerRegs, HostRegs, HostAt, Slots, Bufs
<1>20. CASE ReadRes
  BY <1>20, <1>q DEF ReadRes, IInv, RInv, ResponseAttached, HostsSlot, WorkerAt,
     Replies, WorkersSlot, TypeOK, WorkerRegs, HostRegs, HostAt, Slots, Bufs
<1>21. CASE HandBack
  BY <1>21, <1>q DEF HandBack, IInv, RInv, ResponseAttached, HostsSlot, WorkerAt,
     Replies, WorkersSlot, TypeOK, WorkerRegs, HostRegs, HostAt, Slots, Bufs
<1>22. CASE NextPiece
  BY <1>22, <1>q DEF NextPiece, IInv, RInv, ResponseAttached, HostsSlot, WorkerAt,
     Replies, WorkersSlot, TypeOK, WorkerRegs, HostRegs, HostAt, Slots, Bufs
<1>23. CASE PieceFailed
  BY <1>23, <1>q DEF PieceFailed, Raise, WorkerIdle, NoTicket, Release, IInv, RInv,
     ResponseAttached, HostsSlot, WorkerAt, Replies, WorkersSlot, TypeOK, WorkerRegs,
     HostRegs, HostAt, Slots, Bufs
<1>24. CASE CollectMore
  BY <1>24, <1>q DEF CollectMore, IInv, RInv, ResponseAttached, HostsSlot, WorkerAt,
     Replies, WorkersSlot, TypeOK, WorkerRegs, HostRegs, HostAt, Slots, Bufs
<1>25. CASE CollectLast
  BY <1>25, <1>q DEF CollectLast, WorkerIdle, Release, IInv, RInv, ResponseAttached,
     HostsSlot, WorkerAt, Replies, WorkersSlot, TypeOK, WorkerRegs, HostRegs, HostAt,
     Slots, Bufs
<1>26. CASE CancelStore
  BY <1>26, <1>q DEF CancelStore, WorkerIdle, IInv, RInv, ResponseAttached, HostsSlot,
     WorkerAt, Replies, WorkersSlot, TypeOK, WorkerRegs, HostRegs, HostAt, Slots, Bufs
<1>27. CASE WaitScan
  BY <1>27, <1>q DEF WaitScan, WorkerIdle, IsDone, Live, IInv, RInv, ResponseAttached,
     HostsSlot, WorkerAt, Replies, WorkersSlot, TypeOK, WorkerRegs, HostRegs, HostAt,
     Slots, Bufs
<1>28. CASE LoopWake
  BY <1>28, <1>q DEF LoopWake, HostIdle, IInv, RInv, ResponseAttached, HostsSlot,
     WorkerAt, Replies, WorkersSlot, TypeOK, WorkerRegs, HostRegs, HostAt, Slots, Bufs
<1>29. CASE SweepSkip
  BY <1>29, <1>q DEF SweepSkip, SweepNext, HostIdle, IInv, RInv, ResponseAttached,
     HostsSlot, WorkerAt, Replies, WorkersSlot, TypeOK, WorkerRegs, HostRegs, HostAt,
     Slots, Bufs
<1>30. CASE SweepDone
  BY <1>30, <1>q DEF SweepDone, HostIdle, IInv, RInv, ResponseAttached, HostsSlot,
     WorkerAt, Replies, WorkersSlot, TypeOK, WorkerRegs, HostRegs, HostAt, Slots, Bufs
<1>31. CASE Abandon
  BY <1>31, <1>q DEF Abandon, SweepNext, HostIdle, DetachBoth, IInv, RInv,
     ResponseAttached, HostsSlot, WorkerAt, Replies, WorkersSlot, TypeOK, WorkerRegs,
     HostRegs, HostAt, Slots, Bufs
<1>32. CASE Take
  BY <1>32, <1>q DEF Take, IInv, RInv, ResponseAttached, HostsSlot, WorkerAt, Replies,
     WorkersSlot, TypeOK, WorkerRegs, HostRegs, HostAt, Slots, Bufs
<1>33. CASE TakeLost
  BY <1>33, <1>q DEF TakeLost, SweepNext, HostIdle, IInv, RInv, ResponseAttached,
     HostsSlot, WorkerAt, Replies, WorkersSlot, TypeOK, WorkerRegs, HostRegs, HostAt,
     Slots, Bufs
<1>34. CASE TakeContinue
  BY <1>34, <1>q DEF TakeContinue, Replying, Taken, IInv, RInv, ResponseAttached,
     HostsSlot, WorkerAt, Replies, WorkersSlot, TypeOK, WorkerRegs, HostRegs, HostAt,
     Slots, Bufs
<1>35. CASE TakePush
  BY <1>35, <1>q DEF TakePush, Replying, Taken, IInv, RInv, ResponseAttached, HostsSlot,
     WorkerAt, Replies, WorkersSlot, TypeOK, WorkerRegs, HostRegs, HostAt, Slots, Bufs
<1>36. CASE TakeDispatch
  BY <1>36, <1>q DEF TakeDispatch, SweepNext, HostIdle, Taken, Joined, IInv, RInv,
     ResponseAttached, HostsSlot, WorkerAt, Replies, WorkersSlot, TypeOK, WorkerRegs,
     HostRegs, HostAt, Slots, Bufs
<1>37. CASE TakeUnknown
  BY <1>37, <1>q DEF TakeUnknown, Replying, Taken, IInv, RInv, ResponseAttached,
     HostsSlot, WorkerAt, Replies, WorkersSlot, TypeOK, WorkerRegs, HostRegs, HostAt,
     Slots, Bufs
<1>38. CASE Reply
  BY <1>38, <1>q DEF Reply, IInv, RInv, ResponseAttached, HostsSlot, WorkerAt, Replies,
     WorkersSlot, TypeOK, WorkerRegs, HostRegs, HostAt, Slots, Bufs
<1>39. CASE WriteStale
  BY <1>39, <1>q DEF WriteStale, Return, HostIdle, IInv, RInv, ResponseAttached,
     HostsSlot, WorkerAt, Replies, WorkersSlot, TypeOK, WorkerRegs, HostRegs, HostAt,
     Slots, Bufs
<1>40. CASE Publish
  BY <1>40, <1>q DEF Publish, Return, HostIdle, PublishWins, IInv, RInv,
     ResponseAttached, HostsSlot, WorkerAt, Replies, WorkersSlot, TypeOK, WorkerRegs,
     HostRegs, HostAt, Slots, Bufs
<1>41. CASE PublishLost
  BY <1>41, <1>q DEF PublishLost, Return, HostIdle, PublishWins, IInv, RInv,
     ResponseAttached, HostsSlot, WorkerAt, Replies, WorkersSlot, TypeOK, WorkerRegs,
     HostRegs, HostAt, Slots, Bufs
<1>f. CASE UNCHANGED <<h, status, w, resBuf>>  BY <1>f DEF TInv, RInv, ResponseAttached, Replies
<1>p. CASE Program
  BY <1>p, <1>11, <1>12, <1>13, <1>14, <1>15
  DEF Program
<1>w. CASE Worker
  BY <1>w, <1>16, <1>1, <1>2, <1>17, <1>3, <1>4, <1>18, <1>19, <1>20, <1>21, <1>22,
     <1>23, <1>24, <1>25, <1>26, <1>27
  DEF Worker, Wake
<1>h. CASE Host
  BY <1>h, <1>28, <1>29, <1>30, <1>31, <1>32, <1>33, <1>34, <1>35, <1>36, <1>37, <1>38,
     <1>39, <1>5, <1>40, <1>41, <1>6, <1>7, <1>8
  DEF Host
<1>t. CASE Timeout  BY <1>t, <1>2 DEF Timeout
<1>d. CASE HandlerDone  BY <1>d, <1>9 DEF HandlerDone
<1>s. CASE Stop  BY <1>s, <1>10
<1>. QED  BY <1>p, <1>w, <1>h, <1>t, <1>d, <1>s DEF Next

\* Handing back the buffer attached to a slot keeps the pool exact.
LEMMA Detach ==
    ASSUME TypeOK, ResPoolExact, NEW s \in Slots,
           resBuf' = [resBuf EXCEPT ![s] = 0], resHeld' = resHeld \ {resBuf[s]}
    PROVE  ResPoolExact'
<1>1. \A x \in Slots : resBuf'[x] = IF x = s THEN 0 ELSE resBuf[x]  BY DEF TypeOK
<1>2. \A b \in resHeld : b # 0  BY DEF TypeOK, Bufs
<1>. QED  BY <1>1, <1>2 DEF ResPoolExact

\* Each of them takes the buffer from the pool, or hands back the one attached.
LEMMA ResPoolStep == ASSUME IInv, TInv, RInv, Quiet, Quiet', Next PROVE ResPoolExact'
<1> USE DEF reqPool, resArea, program, tables
<1>a. TypeOK  BY DEF IInv
<1>q. /\ ~hostGone /\ ~hostGone' /\ "PENDING" \notin CancelFrom
      /\ h.pc # "fail" /\ h.ret # "fail"
  BY DEF Quiet, TInv, StopAt
<1>1. ASSUME NEW c \in Calls, CancelReady(c) PROVE ResPoolExact'
  <2>1. ticket[c].slot \in Slots  BY <1>1, <1>a, LiveSlot DEF CancelReady
  <2>2. resBuf' = [resBuf EXCEPT ![ticket[c].slot] = 0] /\ resHeld' = resHeld \ {resBuf[ticket[c].slot]}
    BY <1>1 DEF CancelReady, Release
  <2>. QED  BY <1>a, <2>1, <2>2, Detach DEF RInv
<1>2. CASE HandBack
  <2>1. w.slot \in Slots  BY <1>2 DEF HandBack, IInv, WorkerAt
  <2>2. resBuf' = [resBuf EXCEPT ![w.slot] = 0] /\ resHeld' = resHeld \ {resBuf[w.slot]}
    BY <1>2 DEF HandBack, RInv, ResponseAttached
  <2>. QED  BY <1>a, <2>1, <2>2, Detach DEF RInv
<1>3. CASE PieceFailed
  <2>1. w.slot \in Slots  BY <1>3 DEF PieceFailed, IInv, WorkerAt
  <2>2. resBuf' = [resBuf EXCEPT ![w.slot] = 0] /\ resHeld' = resHeld \ {resBuf[w.slot]}
    BY <1>3 DEF PieceFailed, Release
  <2>. QED  BY <1>a, <2>1, <2>2, Detach DEF RInv
<1>4. CASE CollectLast
  <2>1. w.slot \in Slots  BY <1>4 DEF CollectLast, IInv, WorkerAt
  <2>2. resBuf' = [resBuf EXCEPT ![w.slot] = 0] /\ resHeld' = resHeld \ {resBuf[w.slot]}
    BY <1>4 DEF CollectLast, Release
  <2>. QED  BY <1>a, <2>1, <2>2, Detach DEF RInv
<1>5. CASE Abandon
  <2>1. h.slot \in Slots  BY <1>5, <1>a DEF Abandon, IInv, HostAt, TypeOK, HostRegs, Slots
  <2>2. resBuf' = [resBuf EXCEPT ![h.slot] = 0] /\ resHeld' = resHeld \ {resBuf[h.slot]}
    BY <1>5 DEF Abandon, DetachBoth
  <2>. QED  BY <1>a, <2>1, <2>2, Detach DEF RInv
<1>6. CASE Write
  <2>1. h.slot \in Slots /\ resBuf[h.slot] = 0
    BY <1>6, WriteEffect DEF IInv, HostAt, RInv, ResponseAttached
  <2>2. CASE resBuf' = [resBuf EXCEPT ![h.slot] = 0] /\ resHeld' = resHeld
    BY <1>a, <2>1, <2>2 DEF RInv, ResPoolExact, TypeOK
  <2>3. ASSUME NEW b \in Bufs, b \notin resHeld, resHeld' = resHeld \union {b},
               resBuf' = [resBuf EXCEPT ![h.slot] = b]
        PROVE  ResPoolExact'
    <3>1. \A s \in Slots : resBuf'[s] = IF s = h.slot THEN b ELSE resBuf[s]
      BY <1>a, <2>1, <2>3 DEF TypeOK
    <3>2. \A s \in Slots : resBuf[s] # b  BY <2>3 DEF RInv, ResPoolExact, Bufs
    <3>3. b # 0 /\ \A x \in resHeld : x # 0  BY <1>a DEF TypeOK, Bufs
    <3>4. ResPoolExact!1'  BY <3>1, <3>2 DEF RInv, ResPoolExact
    <3>5. ResPoolExact!2'  BY <2>3, <3>1 DEF RInv, ResPoolExact
    <3>6. ResPoolExact!3'  BY <2>1, <2>3, <3>1, <3>3 DEF RInv, ResPoolExact
    <3>. QED  BY <3>4, <3>5, <3>6 DEF ResPoolExact
  <2>. QED  BY <1>6, <2>2, <2>3, WriteEffect
<1>7. CASE PublishLost
  <2>1. h.slot \in Slots  BY <1>7 DEF PublishLost, IInv, HostAt
  <2>2. resBuf' = [resBuf EXCEPT ![h.slot] = 0] /\ resHeld' = resHeld \ {resBuf[h.slot]}
    BY <1>7 DEF PublishLost
  <2>. QED  BY <1>a, <2>1, <2>2, Detach DEF RInv
<1>f. CASE UNCHANGED <<resBuf, resHeld>>  BY <1>f DEF TInv, RInv, ResPoolExact
<1>p. CASE Program
  BY <1>p, <1>1, <1>f
  DEF Program, Submit, Collect, CancelBump, WaitAny
<1>w. CASE Worker
  BY <1>w, <1>2, <1>3, <1>4, <1>f
  DEF Worker, Wake, Look, Park, Unpark, ClaimSlot, ClaimNext, TakeReqBuf, PublishPiece,
      AwaitReady, ReadRes, NextPiece, CollectMore, CancelStore, WaitScan
<1>h. CASE Host
  BY <1>h, <1>5, <1>6, <1>7, <1>f
  DEF Host, LoopWake, SweepSkip, SweepDone, Take, TakeLost, TakeContinue, TakePush,
      TakeDispatch, TakeUnknown, Reply, WriteStale, Publish, FailSkip, FailSlot,
      FailDone, Taken, DetachRequest
<1>t. CASE Timeout  BY <1>t, <1>f DEF Timeout, Unpark
<1>d. CASE HandlerDone  BY <1>d, <1>f DEF HandlerDone, Complete
<1>s. CASE Stop  BY <1>s, <1>f DEF Stop
<1>. QED  BY <1>p, <1>w, <1>h, <1>t, <1>d, <1>s DEF Next

\* The response of a bridge that has just started.
LEMMA ResponseInit == ASSUME Init PROVE RInv
<1>1. HostsSlot  BY DEF Init, HostsSlot, Replies, WorkerIdle, HostIdle
<1>2. HandlersRun  BY DEF Init, HandlersRun
<1>3. ResponseAttached  BY DEF Init, ResponseAttached, WorkerIdle, HostIdle
<1>4. ResPoolExact  BY DEF Init, ResPoolExact
<1>. QED  BY <1>1, <1>2, <1>3, <1>4 DEF RInv

\* A step that changes nothing keeps it.
LEMMA ResponseStutter == ASSUME RInv, UNCHANGED vars PROVE RInv'
<1> USE DEF vars, reqPool, resArea, program, tables
<1>1. HostsSlot'  BY DEF RInv, HostsSlot, Replies
<1>2. HandlersRun'  BY DEF RInv, HandlersRun, Replies, Current
<1>3. ResponseAttached'  BY DEF RInv, ResponseAttached
<1>4. ResPoolExact'  BY DEF RInv, ResPoolExact
<1>. QED  BY <1>1, <1>2, <1>3, <1>4 DEF RInv

\* HOST_GONE is raised once and for all.
LEMMA QuietBefore == ASSUME [Next]_vars, Quiet' PROVE Quiet
<1> USE DEF vars, reqPool, resArea, program, tables
<1>1. SUFFICES ASSUME ~hostGone' PROVE ~hostGone  BY DEF Quiet
<1>2. CASE UNCHANGED vars  BY <1>1, <1>2
<1>3. CASE Program
  BY <1>1, <1>3
  DEF Program, Submit, Collect, CancelReady, CancelBump, WaitAny, Release
<1>4. CASE Worker
  BY <1>1, <1>4
  DEF Worker, Look, Park, Wake, Unpark, ClaimSlot, ClaimNext, TakeReqBuf, PublishPiece, AwaitReady,
      ReadRes, HandBack, NextPiece, PieceFailed, CollectMore, CollectLast, CancelStore, WaitScan,
      Release
<1>5. CASE Host
  BY <1>1, <1>5
  DEF Host, LoopWake, SweepSkip, SweepDone, Abandon, Take, TakeLost, TakeContinue,
      TakePush, TakeDispatch, TakeUnknown, Taken, Reply, WriteStale, Write, Publish,
      PublishLost, FailSkip, FailSlot, FailDone
<1>6. CASE Timeout \/ HandlerDone \/ Stop
  BY <1>1, <1>6 DEF Timeout, Unpark, HandlerDone, Complete, Stop
<1>. QED  BY <1>2, <1>3, <1>4, <1>5, <1>6 DEF Next

\* The invariants of the response hold in every state in which the responder has not gone, of
\* every bridge whose program cancels no call the host has not taken.
THEOREM ResponseInvariance == Spec => [](Quiet => RInv)
<1>1. Init => RInv  BY ResponseInit
<1>2. IInv /\ TInv /\ (Quiet => RInv) /\ [Next]_vars => (Quiet => RInv)'
  <2>1. SUFFICES ASSUME IInv, TInv, Quiet => RInv, [Next]_vars, Quiet' PROVE RInv'  OBVIOUS
  <2>2. Quiet /\ RInv  BY <2>1, QuietBefore
  <2>3. CASE Next
    BY <2>1, <2>2, <2>3, HostsSlotStep, HandlersRunStep, ResponseStep, ResPoolStep DEF RInv
  <2>4. CASE UNCHANGED vars  BY <2>2, <2>4, ResponseStutter
  <2>. QED  BY <2>1, <2>3, <2>4
<1>. QED  BY <1>1, <1>2, Invariance, TicketsInvariance, PTL DEF Spec

\* While the responder runs, write, readRes, release and abandon between them never lose or
\* share a response buffer, if the program cancels no call before the host has taken it.
THEOREM ResponsePool ==
    ASSUME "PENDING" \notin CancelFrom
    PROVE  Spec => [](hostGone \/ ResPoolExact)
<1>1. (Quiet => RInv) => hostGone \/ ResPoolExact  BY DEF Quiet, RInv
<1>. QED  BY <1>1, ResponseInvariance, PTL

\* ... and they never do in a bridge whose responder is not stopped.
THEOREM ResponsePoolExact ==
    ASSUME "PENDING" \notin CancelFrom, ~MayStop
    PROVE  Spec => []ResPoolExact
<1>1. TInv => ~hostGone  BY DEF TInv, StopAt
<1>. QED  BY <1>1, ResponsePool, TicketsInvariance, PTL

-----------------------------------------------------------------------------
(* What the worker reads *)

\* The step of PublishedStable.
Stable ==
    \A s \in Slots :
        status[s] = "READY" /\ status'[s] = "READY" =>
            /\ resStatus'[s] = resStatus[s] /\ inline'[s] = inline[s]
            /\ resBuf'[s] \in {resBuf[s], 0}
            /\ resBuf[s] # 0 => resMem'[resBuf[s]] = resMem[resBuf[s]]

\* Only write touches a response, at a slot that runs, in a buffer no slot has attached.
LEMMA StableStep == ASSUME IInv, TInv, RInv, Quiet, Quiet', Next PROVE Stable
<1> USE DEF reqPool, resArea, program, tables
<1>a. TypeOK  BY DEF IInv
<1>q. /\ ~hostGone /\ ~hostGone' /\ "PENDING" \notin CancelFrom
      /\ h.pc # "fail" /\ h.ret # "fail"
  BY DEF Quiet, TInv, StopAt
<1>1. CASE Write
  <2>1. h.slot \in Slots /\ status[h.slot] \in {"RUNNING", "CANCELLED"}
    BY <1>1, WriteEffect DEF IInv, HostAt, RInv, HostsSlot, Replies
  <2> SUFFICES ASSUME NEW s \in Slots, status[s] = "READY"
               PROVE  /\ resStatus'[s] = resStatus[s] /\ inline'[s] = inline[s]
                      /\ resBuf'[s] \in {resBuf[s], 0}
                      /\ resBuf[s] # 0 => resMem'[resBuf[s]] = resMem[resBuf[s]]
    BY DEF Stable
  <2>2. s # h.slot  BY <2>1
  <2>3. resBuf[s] # 0 => resBuf[s] \in resHeld /\ resBuf[s] \in Bufs  BY <1>a DEF RInv, ResPoolExact, TypeOK
  <2>. QED  BY <1>1, <1>a, <2>1, <2>2, <2>3, WriteEffect DEF TypeOK
<1>2. ASSUME NEW c \in Calls, CancelReady(c) PROVE Stable
  BY <1>2, <1>q DEF CancelReady, Release, Live, IInv, TypeOK, Stable, WorkerAt, HostAt
<1>3. CASE HandBack  BY <1>3, <1>q DEF HandBack, IInv, TypeOK, Stable, WorkerAt, HostAt
<1>4. CASE PieceFailed
  BY <1>4, <1>q DEF PieceFailed, Raise, WorkerIdle, NoTicket, Release, IInv, TypeOK,
     Stable, WorkerAt, HostAt
<1>5. CASE CollectLast
  BY <1>5, <1>q DEF CollectLast, WorkerIdle, Release, IInv, TypeOK, Stable, WorkerAt,
     HostAt
<1>6. CASE Abandon
  BY <1>6, <1>q DEF Abandon, SweepNext, HostIdle, DetachBoth, IInv, TypeOK, Stable,
     WorkerAt, HostAt
<1>7. CASE PublishLost
  BY <1>7, <1>q DEF PublishLost, Return, HostIdle, PublishWins, IInv, TypeOK, Stable,
     WorkerAt, HostAt
<1>f. CASE UNCHANGED <<resStatus, inline, resBuf, resMem>>  BY <1>f DEF Stable
<1>p. CASE Program
  BY <1>p, <1>2, <1>f
  DEF Program, Submit, Collect, CancelBump, WaitAny
<1>w. CASE Worker
  BY <1>w, <1>3, <1>4, <1>5, <1>f
  DEF Worker, Wake, Look, Park, Unpark, ClaimSlot, ClaimNext, TakeReqBuf, PublishPiece,
      AwaitReady, ReadRes, NextPiece, CollectMore, CancelStore, WaitScan
<1>h. CASE Host
  BY <1>h, <1>6, <1>1, <1>7, <1>f
  DEF Host, LoopWake, SweepSkip, SweepDone, Take, TakeLost, TakeContinue, TakePush,
      TakeDispatch, TakeUnknown, Reply, WriteStale, Publish, FailSkip, FailSlot,
      FailDone, Taken, DetachRequest
<1>t. CASE Timeout  BY <1>t, <1>f DEF Timeout, Unpark
<1>d. CASE HandlerDone  BY <1>d, <1>f DEF HandlerDone, Complete
<1>s. CASE Stop  BY <1>s, <1>f DEF Stop
<1>. QED  BY <1>p, <1>w, <1>h, <1>t, <1>d, <1>s DEF Next

\* In a bridge whose responder is not stopped, and whose program cancels no call the host has
\* not taken, the answer the worker may be reading stays as write published it.
THEOREM ResponseStable ==
    ASSUME "PENDING" \notin CancelFrom, ~MayStop
    PROVE  Spec => PublishedStable
<1>1. TInv => Quiet  BY DEF TInv, StopAt, Quiet
<1>2. IInv /\ TInv /\ TInv' /\ (Quiet => RInv) /\ [Next]_vars => [Stable]_vars
  <2>1. TInv' => Quiet'  BY DEF TInv, StopAt, Quiet
  <2>. QED  BY <1>1, <2>1, StableStep
<1>3. [][Stable]_vars => PublishedStable  BY PTL DEF PublishedStable, Stable
<1>. QED  BY <1>2, <1>3, Invariance, TicketsInvariance, ResponseInvariance, PTL DEF Spec

\* ... and claim gives no false alarm: the worker is never misled.
THEOREM NeverMisled ==
    ASSUME "PENDING" \notin CancelFrom, ~MayStop
    PROVE  Spec => WorkerIsNotMisled
BY ResponseStable, FullIsNoFalseAlarm, PTL DEF WorkerIsNotMisled

=============================================================================

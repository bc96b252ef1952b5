------------------------------- MODULE Bridge -------------------------------
(***************************************************************************)
(* The host-call bridge of packages/platform/host: one worker thread       *)
(* (call.ts) that blocks in Atomics.wait, one host thread (respond.ts)     *)
(* that serves it from an event loop, and the SharedArrayBuffer between    *)
(* them (layout.ts): a ring of call slots and two pools of payload         *)
(* buffers.  One TLA+ step is one shared-memory access that the other      *)
(* thread can tell apart; README.md argues why the accesses merged into    *)
(* one step cannot be told apart.                                          *)
(*                                                                         *)
(* The sequence counters SUBMIT_SEQ and DONE_SEQ are only ever compared    *)
(* with the value their one waiter loaded, so each is kept as the fact     *)
(* "bumped since that load": hostMoved and doneMoved.                      *)
(*                                                                         *)
(* A payload is a sequence of units <<call, i>>, so that a byte delivered  *)
(* to the wrong call, twice, or out of order shows in its value.           *)
(***************************************************************************)
EXTENDS Naturals, Sequences

CONSTANTS
    N,            \* SLOTS
    BUFS,         \* buffers in each of the two pools
    INLINE,       \* units that fit in a slot's inline area (INLINE_BYTES)
    BUF,          \* units that fit in a pooled buffer (BUF_BYTES)
    MaxCalls,     \* bound: how many calls the program submits
    Shapes,       \* what a call can be: [pieces, op, len, status]
    CancelFrom,   \* slot states in which the program may be when it cancels
    MayStop       \* whether the responder's stop() may be called

Slots == 1 .. N
Bufs == 1 .. BUFS
Calls == 1 .. MaxCalls

ASSUME SizesAssumption ==
    /\ N \in Nat \ {0} /\ BUFS \in Nat \ {0} /\ MaxCalls \in Nat
    /\ INLINE \in Nat \ {0} /\ BUF \in Nat \ {0}
ASSUME ShapesAssumption ==
    Shapes \subseteq [pieces : Nat \ {0}, op : {"cap", "nocap"},
                      len : Nat, status : {"OK", "ERR"}]
ASSUME ModesAssumption ==
    /\ CancelFrom \subseteq {"PENDING", "RUNNING", "READY"}
    /\ MayStop \in BOOLEAN

VARIABLES
    \* the control block and the memory behind it
    status, gen, op, reqBuf, resBuf, resStatus, inline,
    reqHeld, resHeld, reqMem, resMem, doneMoved, hostMoved, hostGone,
    \* the worker's registers, and the program's tickets
    w, ticket, shape,
    \* the host's registers and tables
    h, pending, finalStatus, partial, handlers

reqPool == <<reqBuf, reqHeld, reqMem>>
resArea == <<resBuf, resHeld, resMem, resStatus, inline>>
program == <<ticket, shape>>
tables == <<pending, finalStatus, partial, handlers>>
vars == <<status, gen, op, reqPool, resArea, doneMoved, hostMoved, hostGone,
          w, program, h, tables>>

-----------------------------------------------------------------------------
(* Values *)

States == {"FREE", "CLAIMED", "PENDING", "RUNNING", "READY", "CANCELLED"}
Ops == {"none", "CONTINUE", "PUSH", "cap", "nocap"}
ResStatus == {"OK", "ERR", "MORE", "ACK"}
Units == (0 .. MaxCalls) \X Nat
Payloads == Seq(Units)

\* What the program hands to submit, and what its capability answers.
Request(c) == [i \in 1 .. shape[c].pieces |-> <<c, i>>]
Answer(c) == [i \in 1 .. shape[c].len |-> <<c, i>>]
\* faultedBytes(FAULT_OTHER, why): a one-unit message of the host's own.
Message == << <<0, 0>> >>

NoTicket == [slot |-> 0, gen |-> 0]
Tickets == [slot : 0 .. N, gen : Nat]

WorkerIdle == [pc |-> "idle", fn |-> "none", loop |-> "none", slot |-> 0,
               call |-> 0, sent |-> 0, buf |-> 0, allReady |-> TRUE,
               status |-> "OK", bytes |-> <<>>, got |-> <<>>,
               set |-> {}, timed |-> FALSE, late |-> FALSE]
HostIdle == [pc |-> "loop", slot |-> 0, gen |-> 0, payload |-> <<>>,
             ret |-> "loop", status |-> "OK", body |-> <<>>]

FreeBufsOneMore(held) == (1 .. BUFS + 1) \ held    \* mutant: i <= BUFS
FreeBufs(held) == Bufs \ held
\* acquireBuf scans from the first buffer and takes the first free one.
FirstFree(held) ==
    CHOOSE b \in FreeBufs(held) : \A x \in FreeBufs(held) : b <= x

Live(c) == ticket[c].slot # 0 /\ gen[ticket[c].slot] = ticket[c].gen

Init ==
    /\ status = [s \in Slots |-> "FREE"] /\ gen = [s \in Slots |-> 0]
    /\ op = [s \in Slots |-> "none"]
    /\ reqBuf = [s \in Slots |-> 0] /\ resBuf = [s \in Slots |-> 0]
    /\ resStatus = [s \in Slots |-> "OK"] /\ inline = [s \in Slots |-> <<>>]
    /\ reqHeld = {} /\ resHeld = {}
    /\ reqMem = [b \in Bufs |-> <<>>] /\ resMem = [b \in Bufs |-> <<>>]
    /\ doneMoved = FALSE /\ hostMoved = TRUE /\ hostGone = FALSE
    /\ w = WorkerIdle /\ ticket = [c \in Calls |-> NoTicket] /\ shape = <<>>
    /\ h = HostIdle
    /\ pending = [s \in Slots |-> <<>>] /\ finalStatus = [s \in Slots |-> "OK"]
    /\ partial = [s \in Slots |-> <<>>] /\ handlers = {}

-----------------------------------------------------------------------------
(* The worker: waiting for the host *)

\* A loop's first line: const seen = Atomics.load(DONE_SEQ).
Look ==
    /\ w.pc = "seen"
    /\ doneMoved' = FALSE
    /\ w' = [w EXCEPT !.pc = w.loop, !.allReady = TRUE,
                      !.slot = IF w.loop = "claim" THEN 1 ELSE w.slot]
    /\ UNCHANGED <<status, gen, op, reqPool, resArea, hostMoved, hostGone,
                   program, h, tables>>

\* gone(): the call raises; a submit that raises hands out no ticket.
Raise ==
    /\ w' = WorkerIdle
    /\ ticket' = IF w.fn = "submit" THEN [ticket EXCEPT ![w.call] = NoTicket]
                                    ELSE ticket

\* Mutant: no gone() before the wait.
ParkUnasked ==    \* mutant: HOST_GONE not looked at
    /\ w.pc = "park"
    /\ w' = [w EXCEPT !.pc = "parked"]
    /\ UNCHANGED <<status, gen, op, reqPool, resArea, doneMoved, hostMoved,
                   hostGone, program, h, tables>>
\* parkForHost up to Atomics.wait.
Park ==
    /\ w.pc = "park"
    /\ IF hostGone THEN Raise
       ELSE w' = [w EXCEPT !.pc = "parked"] /\ UNCHANGED ticket
    /\ UNCHANGED <<status, gen, op, reqPool, resArea, doneMoved, hostMoved,
                   hostGone, shape, h, tables>>

\* Atomics.wait returns and gone() is asked again; `timeout` when it returned
\* because waitAny's deadline passed.
Unpark(timeout) ==
    /\ w.pc = "parked"
    /\ IF hostGone THEN Raise
       ELSE /\ w' = [w EXCEPT !.pc = "seen", !.late = @ \/ timeout]
            /\ UNCHANGED ticket
    /\ UNCHANGED <<status, gen, op, reqPool, resArea, doneMoved, hostMoved,
                   hostGone, shape, h, tables>>
Wake == doneMoved /\ Unpark(FALSE)
Timeout == w.timed /\ ~w.late /\ Unpark(TRUE)

(* The worker: submit *)

Submit(sh) ==
    /\ w.pc = "idle" /\ Len(shape) < MaxCalls
    /\ shape' = Append(shape, sh)
    /\ w' = [WorkerIdle EXCEPT !.pc = "seen", !.fn = "submit", !.loop = "claim",
                               !.call = Len(shape) + 1]
    /\ UNCHANGED <<status, gen, op, reqPool, resArea, doneMoved, hostMoved,
                   hostGone, ticket, h, tables>>

\* claim: the exchange ST_FREE -> ST_CLAIMED succeeds at this slot.
ClaimSlot ==
    /\ w.pc = "claim" /\ status[w.slot] = "FREE"
    /\ status' = [status EXCEPT ![w.slot] = "CLAIMED"]
    /\ ticket' = [ticket EXCEPT ![w.call] = [slot |-> w.slot, gen |-> gen[w.slot]]]
    /\ w' = [w EXCEPT !.pc = "seen", !.loop = "reqbuf"]
    /\ UNCHANGED <<gen, op, reqPool, resArea, doneMoved, hostMoved, hostGone,
                   shape, h, tables>>

HoldsAnswer(s) == status[s] = "READY"

\* claim: it fails; after the last slot the ring is full of answers, or busy.
ClaimNext ==
    /\ w.pc = "claim" /\ status[w.slot] # "FREE"
    /\ LET all == w.allReady /\ HoldsAnswer(w.slot) IN
       \/ /\ w.slot < N
          /\ w' = [w EXCEPT !.slot = @ + 1, !.allReady = all]
          /\ UNCHANGED ticket
       \/ w.slot = N /\ all /\ Raise
       \/ /\ w.slot = N /\ ~all
          /\ w' = [w EXCEPT !.pc = "park"] /\ UNCHANGED ticket
    /\ UNCHANGED <<status, gen, op, reqPool, resArea, doneMoved, hostMoved,
                   hostGone, shape, h, tables>>

TakeReqBuf ==
    /\ w.pc = "reqbuf"
    /\ IF FreeBufs(reqHeld) = {}
         THEN w' = [w EXCEPT !.pc = "park"] /\ UNCHANGED reqHeld
         ELSE /\ reqHeld' = reqHeld \union {FirstFree(reqHeld)}
              /\ w' = [w EXCEPT !.pc = "fill", !.buf = FirstFree(reqHeld)]
    /\ UNCHANGED <<status, gen, op, reqBuf, reqMem, resArea, doneMoved,
                   hostMoved, hostGone, program, h, tables>>

\* Fill the buffer, attach it, write the opcode and publish; ping.  The last
\* piece carries the real opcode and submit returns its ticket.
PublishPiece ==
    /\ w.pc = "fill"
    /\ LET last == w.sent + 1 = shape[w.call].pieces IN
       /\ op' = [op EXCEPT ![w.slot] = IF last THEN shape[w.call].op ELSE "PUSH"]
       /\ w' = IF last THEN WorkerIdle
               ELSE [w EXCEPT !.pc = "seen", !.loop = "await", !.sent = @ + 1,
                              !.buf = 0]
    /\ reqMem' = [reqMem EXCEPT ![w.buf] = << <<w.call, w.sent + 1>> >>]
    /\ reqBuf' = [reqBuf EXCEPT ![w.slot] = w.buf]
    /\ status' = [status EXCEPT ![w.slot] = "PENDING"]
    /\ hostMoved' = TRUE
    /\ UNCHANGED <<gen, reqHeld, resArea, doneMoved, hostGone, program, h, tables>>

(* The worker: awaitReady, readRes, release *)

AwaitReady ==
    /\ w.pc = "await"
    /\ w' = [w EXCEPT !.pc = IF status[w.slot] = "READY" THEN "read" ELSE "park"]
    /\ UNCHANGED <<status, gen, op, reqPool, resArea, doneMoved, hostMoved,
                   hostGone, program, h, tables>>

\* readRes: the status and the bytes are copied out of the slot ...
ReadRes ==
    /\ w.pc = "read"
    /\ w' = [w EXCEPT !.pc = "handback", !.status = resStatus[w.slot],
                      !.buf = resBuf[w.slot],
                      !.bytes = IF resBuf[w.slot] = 0 THEN inline[w.slot]
                                ELSE resMem[resBuf[w.slot]]]
    /\ UNCHANGED <<status, gen, op, reqPool, resArea, doneMoved, hostMoved,
                   hostGone, program, h, tables>>

\* Mutant: detached and forgotten.
HandBackLeaks ==    \* mutant: the buffer is not handed back
    /\ w.pc = "handback"
    /\ resBuf' = [resBuf EXCEPT ![w.slot] = 0]
    /\ hostMoved' = TRUE
    /\ w' = [w EXCEPT !.pc = "decide", !.buf = 0]
    /\ UNCHANGED <<status, gen, op, reqPool, resHeld, resMem, resStatus, inline,
                   doneMoved, hostGone, program, h, tables>>
\* ... and then the buffer that was attached is handed back, and the host told.
HandBack ==
    /\ w.pc = "handback"
    /\ resBuf' = [resBuf EXCEPT ![w.slot] = 0]
    /\ resHeld' = resHeld \ {w.buf}
    /\ hostMoved' = TRUE
    /\ w' = [w EXCEPT !.pc = "decide", !.buf = 0]
    /\ UNCHANGED <<status, gen, op, reqPool, resMem, resStatus, inline,
                   doneMoved, hostGone, program, h, tables>>

\* Mutant: the buffer goes back in readRes only.
\* release(): the answer's buffer, the generation, the slot, DONE_SEQ.
Release(s) ==
    /\ resBuf' = [resBuf EXCEPT ![s] = 0]
    /\ resHeld' = resHeld \ {resBuf[s]}
    /\ gen' = [gen EXCEPT ![s] = @ + 1]
    /\ status' = [status EXCEPT ![s] = "FREE"]
    /\ doneMoved' = TRUE
    /\ UNCHANGED <<op, reqPool, resMem, resStatus, inline, hostMoved, hostGone>>

\* submit: a piece was acknowledged, on to the next; or the host refused it.
NextPiece ==
    /\ w.pc = "decide" /\ w.fn = "submit" /\ w.status # "ERR"
    /\ w' = [w EXCEPT !.pc = "seen", !.loop = "reqbuf", !.bytes = <<>>,
                      !.status = "OK"]
    /\ UNCHANGED <<status, gen, op, reqPool, resArea, doneMoved, hostMoved,
                   hostGone, program, h, tables>>
PieceFailed ==
    /\ w.pc = "decide" /\ w.fn = "submit" /\ w.status = "ERR"
    /\ Release(w.slot) /\ Raise
    /\ UNCHANGED <<shape, h, tables>>

(* The worker: collect, cancel, waitAny *)

Collect(c) ==
    /\ w.pc = "idle" /\ Live(c)
    /\ w' = [WorkerIdle EXCEPT !.pc = "seen", !.fn = "collect", !.loop = "await",
                               !.call = c, !.slot = ticket[c].slot]
    /\ UNCHANGED <<status, gen, op, reqPool, resArea, doneMoved, hostMoved,
                   hostGone, program, h, tables>>

\* STATUS_MORE: keep the piece and ask for the rest with OP_CONTINUE.
CollectMore ==
    /\ w.pc = "decide" /\ w.fn = "collect" /\ w.status = "MORE"
    /\ op' = [op EXCEPT ![w.slot] = "CONTINUE"]
    /\ status' = [status EXCEPT ![w.slot] = "PENDING"]
    /\ hostMoved' = TRUE
    /\ w' = [w EXCEPT !.pc = "seen", !.got = @ \o w.bytes, !.bytes = <<>>,
                      !.status = "OK"]
    /\ UNCHANGED <<gen, reqPool, resArea, doneMoved, hostGone, program, h, tables>>

\* The last piece, or an error: release the slot and return or throw.
CollectLast ==
    /\ w.pc = "decide" /\ w.fn = "collect" /\ w.status # "MORE"
    /\ Release(w.slot)
    /\ w' = WorkerIdle
    /\ UNCHANGED <<program, h, tables>>

CancelReady(c) ==
    /\ w.pc = "idle" /\ Live(c)
    /\ status[ticket[c].slot] = "READY" /\ "READY" \in CancelFrom
    /\ Release(ticket[c].slot)
    /\ UNCHANGED <<w, program, h, tables>>

\* cancel: the generation moves first ...
CancelBump(c) ==
    /\ w.pc = "idle" /\ Live(c)
    /\ status[ticket[c].slot] \in CancelFrom \ {"READY"}
    /\ gen' = [gen EXCEPT ![ticket[c].slot] = @ + 1]
    /\ w' = [WorkerIdle EXCEPT !.pc = "cancel", !.fn = "cancel",
                               !.slot = ticket[c].slot]
    /\ UNCHANGED <<status, op, reqPool, resArea, doneMoved, hostMoved, hostGone,
                   program, h, tables>>
\* Mutant: no ping.
\* ... and then ST_CANCELLED is stored, over whatever is there, and the host told.
CancelStore ==
    /\ w.pc = "cancel"
    /\ status' = [status EXCEPT ![w.slot] = "CANCELLED"]
    /\ hostMoved' = TRUE
    /\ w' = WorkerIdle
    /\ UNCHANGED <<gen, op, reqPool, resArea, doneMoved, hostGone, program,
                   h, tables>>

WaitAny(set, timed) ==
    /\ w.pc = "idle" /\ set # {} /\ \A c \in set : ticket[c].slot # 0
    /\ w' = [WorkerIdle EXCEPT !.pc = "seen", !.fn = "waitAny",
                               !.loop = "waitAny", !.set = set, !.timed = timed]
    /\ UNCHANGED <<status, gen, op, reqPool, resArea, doneMoved, hostMoved,
                   hostGone, program, h, tables>>

IsDone(c) == Live(c) => status[ticket[c].slot] = "READY"

\* waitAny's scan: a settled ticket is returned even when the time is up; with
\* none, null once the deadline has passed, which it may have before any park.
WaitScan ==
    /\ w.pc = "waitAny"
    /\ \/ (\E c \in w.set : IsDone(c)) /\ w' = WorkerIdle
       \/ w.timed /\ w' = WorkerIdle
       \/ /\ \A c \in w.set : ~IsDone(c)
          /\ ~w.late
          /\ w' = [w EXCEPT !.pc = "park"]
    /\ UNCHANGED <<status, gen, op, reqPool, resArea, doneMoved, hostMoved,
                   hostGone, program, h, tables>>

-----------------------------------------------------------------------------
(* The host: the responder loop *)

\* The loop resumes (SUBMIT_SEQ moved, or the first turn), loads it and sweeps.
LoopWake ==
    /\ h.pc = "loop" /\ hostMoved /\ ~hostGone
    /\ hostMoved' = FALSE
    /\ h' = [HostIdle EXCEPT !.pc = "sweep", !.slot = 1, !.ret = "sweep"]
    /\ UNCHANGED <<status, gen, op, reqPool, resArea, doneMoved, hostGone,
                   w, program, tables>>

SweepNext == [HostIdle EXCEPT !.pc = "sweep", !.ret = "sweep",
                              !.slot = h.slot + 1]

SweepSkip ==
    /\ h.pc = "sweep" /\ h.slot <= N
    /\ status[h.slot] \notin {"PENDING", "CANCELLED"}
    /\ h' = SweepNext
    /\ UNCHANGED <<status, gen, op, reqPool, resArea, doneMoved, hostMoved,
                   hostGone, w, program, tables>>

\* Mutant: parks even if the counter moved during the sweep.
\* waitAsync: park, unless the counter moved during the sweep.
SweepDone ==
    /\ h.pc = "sweep" /\ h.slot > N
    /\ h' = IF hostMoved THEN [h EXCEPT !.slot = 1] ELSE HostIdle
    /\ hostMoved' = FALSE
    /\ UNCHANGED <<status, gen, op, reqPool, resArea, doneMoved, hostGone,
                   w, program, tables>>

\* Mutant: only the answer's buffer goes back.
\* abandon's loop over both directions.
DetachBoth(s) ==
    /\ reqBuf' = [reqBuf EXCEPT ![s] = 0]
    /\ reqHeld' = reqHeld \ {reqBuf[s]}
    /\ resBuf' = [resBuf EXCEPT ![s] = 0]
    /\ resHeld' = resHeld \ {resBuf[s]}

\* abandon: a cancelled slot goes back, with both of its buffers.
Abandon ==
    /\ h.pc = "sweep" /\ h.slot <= N /\ status[h.slot] = "CANCELLED"
    /\ pending' = [pending EXCEPT ![h.slot] = <<>>]
    /\ partial' = [partial EXCEPT ![h.slot] = <<>>]
    /\ DetachBoth(h.slot)
    /\ status' = [status EXCEPT ![h.slot] = "FREE"]
    /\ doneMoved' = TRUE
    /\ h' = SweepNext
    /\ UNCHANGED <<gen, op, reqMem, resMem, resStatus, inline, hostMoved,
                   hostGone, w, program, finalStatus, handlers>>

\* take, up to its compare-and-exchange: the generation is loaded, the request
\* copied out and its buffer released.
Take ==
    /\ h.pc = "sweep" /\ h.slot <= N /\ status[h.slot] = "PENDING"
    /\ h' = [h EXCEPT !.pc = "taken", !.gen = gen[h.slot],
                      !.payload = IF reqBuf[h.slot] = 0 THEN <<>>
                                  ELSE reqMem[reqBuf[h.slot]]]
    /\ reqBuf' = [reqBuf EXCEPT ![h.slot] = 0]
    /\ reqHeld' = reqHeld \ {reqBuf[h.slot]}
    /\ doneMoved' = TRUE
    /\ UNCHANGED <<status, gen, op, reqMem, resArea, hostMoved, hostGone,
                   w, program, tables>>

\* take's exchange ST_PENDING -> ST_RUNNING fails: cancelled meanwhile.
TakeLost ==
    /\ h.pc = "taken" /\ status[h.slot] # "PENDING"
    /\ h' = SweepNext
    /\ UNCHANGED <<status, gen, op, reqPool, resArea, doneMoved, hostMoved,
                   hostGone, w, program, tables>>

\* ... and where it succeeds:
Taken ==
    /\ h.pc = "taken" /\ status[h.slot] = "PENDING"
    /\ status' = [status EXCEPT ![h.slot] = "RUNNING"]
    /\ UNCHANGED <<gen, op, reqPool, resArea, doneMoved, hostMoved, hostGone,
                   w, program>>

\* reply is entered with a status and a body, and returns to h.ret.
Replying(st, body) == [h EXCEPT !.pc = "reply", !.status = st, !.body = body,
                                !.payload = <<>>]

TakeContinue ==
    /\ Taken /\ op[h.slot] = "CONTINUE"
    /\ h' = Replying(finalStatus[h.slot], pending[h.slot])
    /\ pending' = [pending EXCEPT ![h.slot] = <<>>]
    /\ UNCHANGED <<finalStatus, partial, handlers>>

TakePush ==
    /\ Taken /\ op[h.slot] = "PUSH"
    /\ partial' = [partial EXCEPT ![h.slot] = @ \o h.payload]
    /\ h' = Replying("ACK", <<>>)
    /\ UNCHANGED <<pending, finalStatus, handlers>>

Joined(s) == partial[s] \o h.payload

\* The last piece: joined to the earlier ones and dispatched, not awaited.
TakeDispatch ==
    /\ Taken /\ op[h.slot] = "cap"
    /\ partial' = [partial EXCEPT ![h.slot] = <<>>]
    /\ handlers' = handlers \union
                     {[slot |-> h.slot, gen |-> h.gen,
                       whole |-> Joined(h.slot)]}
    /\ h' = SweepNext
    /\ UNCHANGED <<pending, finalStatus>>

TakeUnknown ==
    /\ Taken /\ op[h.slot] = "nocap"
    /\ partial' = [partial EXCEPT ![h.slot] = <<>>]
    /\ h' = Replying("ERR", Message)
    /\ UNCHANGED <<pending, finalStatus, handlers>>

(* The host: reply and write *)

\* Back to where reply was called from.
Return == IF h.ret = "loop" THEN HostIdle
          ELSE [HostIdle EXCEPT !.pc = h.ret, !.ret = h.ret, !.slot = h.slot + 1]

\* reply: the generation is read while the slot is still this call's.
Reply ==
    /\ h.pc = "reply"
    /\ h' = [h EXCEPT !.pc = "write", !.gen = gen[h.slot]]
    /\ UNCHANGED <<status, gen, op, reqPool, resArea, doneMoved, hostMoved,
                   hostGone, w, program, tables>>

\* write: the slot was recycled, the answer is for nobody.
WriteStale ==
    /\ h.pc = "write" /\ gen[h.slot] # h.gen
    /\ h' = Return
    /\ UNCHANGED <<status, gen, op, reqPool, resArea, doneMoved, hostMoved,
                   hostGone, w, program, tables>>

TailSkipsOne(body, room) == SubSeq(body, room + 2, Len(body))    \* mutant
TailOf(body, room) == SubSeq(body, room + 1, Len(body))

\* write: into a pooled buffer if the body needs one and one is free, inline if
\* not; what does not fit becomes the slot's tail.
Write ==
    /\ h.pc = "write" /\ gen[h.slot] = h.gen
    /\ LET pooled == Len(h.body) > INLINE /\ FreeBufs(resHeld) # {}
           room == IF pooled THEN BUF ELSE INLINE
           more == Len(h.body) > room
           fits == IF more THEN SubSeq(h.body, 1, room) ELSE h.body
       IN  /\ IF pooled
                THEN LET b == FirstFree(resHeld) IN
                     /\ resHeld' = resHeld \union {b}
                     /\ resMem' = [resMem EXCEPT ![b] = fits]
                     /\ resBuf' = [resBuf EXCEPT ![h.slot] = b]
                     /\ UNCHANGED inline
                ELSE /\ inline' = [inline EXCEPT ![h.slot] = fits]
                     /\ resBuf' = [resBuf EXCEPT ![h.slot] = 0]
                     /\ UNCHANGED <<resHeld, resMem>>
           /\ resStatus' = [resStatus EXCEPT
                              ![h.slot] = IF more THEN "MORE" ELSE h.status]
           /\ IF more
                THEN /\ pending' = [pending EXCEPT
                           ![h.slot] = TailOf(h.body, room)]
                     /\ finalStatus' = [finalStatus EXCEPT ![h.slot] = h.status]
                ELSE UNCHANGED <<pending, finalStatus>>
    /\ h' = [h EXCEPT !.pc = "publish"]
    /\ UNCHANGED <<status, gen, op, reqPool, doneMoved, hostMoved, hostGone,
                   w, program, partial, handlers>>

PublishAlways == TRUE    \* mutant: a plain store
\* write's exchange ST_RUNNING -> ST_READY finds what it expects.
PublishWins == status[h.slot] = "RUNNING"

\* The answer is published, and DONE_SEQ bumped.
Publish ==
    /\ h.pc = "publish" /\ PublishWins
    /\ status' = [status EXCEPT ![h.slot] = "READY"]
    /\ doneMoved' = TRUE
    /\ h' = Return
    /\ UNCHANGED <<gen, op, reqPool, resArea, hostMoved, hostGone, w, program,
                   tables>>
\* The exchange fails: the buffer goes back and the tail is forgotten.
PublishLost ==
    /\ h.pc = "publish" /\ ~PublishWins
    /\ resBuf' = [resBuf EXCEPT ![h.slot] = 0]
    /\ resHeld' = resHeld \ {resBuf[h.slot]}
    /\ pending' = [pending EXCEPT ![h.slot] = <<>>]
    /\ h' = Return
    /\ UNCHANGED <<status, gen, op, reqPool, resMem, resStatus, inline,
                   doneMoved, hostMoved, hostGone, w, program, finalStatus,
                   partial, handlers>>

(* The host: handlers finishing, and stop() *)

StillOursUnasked(k) == TRUE    \* mutant
StillOurs(k) == gen[k.slot] = k.gen

\* A handler settles while the host is in its event loop, and its answer is
\* dropped unless stillOurs().  What it answers depends on its request only.
Complete(k) ==
    /\ h.pc = "loop"
    /\ handlers' = handlers \ {k}
    /\ h' = IF ~StillOurs(k) THEN h
            ELSE LET c == k.whole[1][1] IN
                 [HostIdle EXCEPT !.pc = "reply", !.slot = k.slot,
                     !.status = shape[c].status, !.body = Answer(c)]
    /\ UNCHANGED <<status, gen, op, reqPool, resArea, doneMoved, hostMoved,
                   hostGone, w, program, pending, finalStatus, partial>>

\* stop(): running := false and failPending raises HOST_GONE first.
Stop ==
    /\ MayStop /\ h.pc = "loop" /\ ~hostGone
    /\ hostGone' = TRUE
    /\ h' = [HostIdle EXCEPT !.pc = "fail", !.ret = "fail", !.slot = 1]
    /\ UNCHANGED <<status, gen, op, reqPool, resArea, doneMoved, hostMoved,
                   w, program, tables>>

FailSkip ==
    /\ h.pc = "fail" /\ h.slot <= N
    /\ status[h.slot] \notin {"PENDING", "RUNNING"}
    /\ h' = [h EXCEPT !.slot = @ + 1]
    /\ UNCHANGED <<status, gen, op, reqPool, resArea, doneMoved, hostMoved,
                   hostGone, w, program, tables>>

\* Mutant: detached, and never released.
DetachRequestLeaks(s) ==    \* mutant: the buffer is not handed back
    reqBuf' = [reqBuf EXCEPT ![s] = 0] /\ UNCHANGED reqHeld
DetachRequest(s) ==
    /\ reqBuf' = [reqBuf EXCEPT ![s] = 0]
    /\ reqHeld' = reqHeld \ {reqBuf[s]}

\* An untaken call is moved to running and its request buffer released; a taken
\* one is answered as it is.
FailSlot ==
    /\ h.pc = "fail" /\ h.slot <= N /\ status[h.slot] \in {"PENDING", "RUNNING"}
    /\ status' = [status EXCEPT ![h.slot] = "RUNNING"]
    /\ IF status[h.slot] = "PENDING"
         THEN DetachRequest(h.slot)
         ELSE UNCHANGED <<reqBuf, reqHeld>>
    /\ h' = Replying("ERR", Message)
    /\ UNCHANGED <<gen, op, reqMem, resArea, doneMoved, hostMoved, hostGone,
                   w, program, tables>>

FailDone ==
    /\ h.pc = "fail" /\ h.slot > N
    /\ doneMoved' = TRUE /\ hostMoved' = TRUE
    /\ h' = HostIdle
    /\ UNCHANGED <<status, gen, op, reqPool, resArea, hostGone, w, program,
                   tables>>

-----------------------------------------------------------------------------
\* What the program chooses to do next, and the steps that follow from it.
Program ==
    \/ \E sh \in Shapes : Submit(sh)
    \/ \E c \in Calls : Collect(c) \/ CancelReady(c) \/ CancelBump(c)
    \/ \E set \in SUBSET Calls, timed \in BOOLEAN : WaitAny(set, timed)
Worker ==
    \/ Look \/ Park \/ Wake
    \/ ClaimSlot \/ ClaimNext \/ TakeReqBuf \/ PublishPiece
    \/ AwaitReady \/ ReadRes \/ HandBack \/ NextPiece \/ PieceFailed
    \/ CollectMore \/ CollectLast \/ CancelStore \/ WaitScan
Host ==
    \/ LoopWake \/ SweepSkip \/ SweepDone \/ Abandon \/ Take \/ TakeLost
    \/ TakeContinue \/ TakePush \/ TakeDispatch \/ TakeUnknown
    \/ Reply \/ WriteStale \/ Write \/ Publish \/ PublishLost
    \/ FailSkip \/ FailSlot \/ FailDone
HandlerDone == \E k \in handlers : Complete(k)

Next == Program \/ Worker \/ Timeout \/ Host \/ HandlerDone \/ Stop

\* Both threads are scheduled; capabilities need not answer, deadlines need not
\* pass and the program need not do anything.
Spec == Init /\ [][Next]_vars /\ WF_vars(Worker) /\ WF_vars(Host)
\* ... and every capability answers in the end, while there is a responder to answer to: once
\* it has stopped, nothing is asked of the handlers it left behind.
LiveSpec == Spec /\ WF_vars(~hostGone /\ HandlerDone)
-----------------------------------------------------------------------------
(* Properties *)

WorkerRegs ==
    [pc : {"idle", "seen", "claim", "reqbuf", "await", "waitAny", "park",
           "parked", "fill", "read", "handback", "decide", "cancel"},
     fn : {"none", "submit", "collect", "cancel", "waitAny"},
     loop : {"none", "claim", "reqbuf", "await", "waitAny"},
     slot : 0 .. N, call : 0 .. MaxCalls, sent : Nat, buf : 0 .. BUFS,
     allReady : BOOLEAN, status : ResStatus, bytes : Payloads, got : Payloads,
     set : SUBSET Calls, timed : BOOLEAN, late : BOOLEAN]
HostRegs ==
    [pc : {"loop", "sweep", "taken", "reply", "write", "publish", "fail"},
     slot : 0 .. N + 1, gen : Nat, payload : Payloads,
     ret : {"loop", "sweep", "fail"}, status : ResStatus, body : Payloads]
Handlers == [slot : Slots, gen : Nat, whole : Payloads]

\* Every register and every word of shared memory holds a value of its kind.
TypeOK ==
    /\ status \in [Slots -> States] /\ gen \in [Slots -> Nat]
    /\ op \in [Slots -> Ops]
    /\ reqBuf \in [Slots -> 0 .. BUFS] /\ resBuf \in [Slots -> 0 .. BUFS]
    /\ resStatus \in [Slots -> ResStatus] /\ inline \in [Slots -> Payloads]
    /\ reqHeld \in SUBSET Bufs /\ resHeld \in SUBSET Bufs
    /\ reqMem \in [Bufs -> Payloads] /\ resMem \in [Bufs -> Payloads]
    /\ doneMoved \in BOOLEAN /\ hostMoved \in BOOLEAN /\ hostGone \in BOOLEAN
    /\ w \in WorkerRegs
    /\ ticket \in [Calls -> Tickets] /\ shape \in Seq(Shapes)
    /\ h \in HostRegs
    /\ pending \in [Slots -> Payloads] /\ finalStatus \in [Slots -> ResStatus]
    /\ partial \in [Slots -> Payloads]
    /\ handlers \in SUBSET Handlers

\* takeReqBuf, take, abandon and failPending between them never lose or share a
\* request buffer: what is held is what one slot has attached, or what the
\* worker is filling, whatever cancels and stops happen in between.
ReqPoolExact ==
    /\ \A s, t \in Slots : reqBuf[s] # 0 /\ reqBuf[s] = reqBuf[t] => s = t
    /\ \A s \in Slots : reqBuf[s] # 0 => reqBuf[s] \in reqHeld
    /\ \A b \in reqHeld : \/ \E s \in Slots : reqBuf[s] = b
                          \/ w.pc = "fill" /\ w.buf = b
    /\ w.pc = "fill" => w.buf \in reqHeld /\ \A s \in Slots : reqBuf[s] # w.buf

\* The same of the response pool (write, readRes, release, abandon).
ResPoolExact ==
    /\ \A s, t \in Slots : resBuf[s] # 0 /\ resBuf[s] = resBuf[t] => s = t
    /\ \A s \in Slots : resBuf[s] # 0 => resBuf[s] \in resHeld
    /\ \A b \in resHeld : \E s \in Slots : resBuf[s] = b

\* No slot is stranded: one that is not free belongs to a live ticket, or to the
\* cancel under way, or is the sweep's to hand back.  The two exchanges in
\* respond.ts (take's and write's) exist for this.
NoSlotStranded ==
    hostGone \/ \A s \in Slots :
        \/ status[s] \in {"FREE", "CANCELLED"}
        \/ \E c \in Calls : ticket[c] = [slot |-> s, gen |-> gen[s]]
        \/ w.pc = "cancel" /\ w.slot = s

\* A handler was given exactly the request its call submitted, every piece of it
\* once and in order, and it carries the generation of that call's own ticket,
\* which is what lets stillOurs() tell its answer from another call's.
HandlerHoldsItsTicket ==
    \A k \in handlers :
        \E c \in 1 .. Len(shape) : /\ k.whole = Request(c)
                                   /\ ticket[c] = [slot |-> k.slot, gen |-> k.gen]

\* The pieces collect has read are its own call's answer, whole and in order by
\* the time it returns or throws; the one other thing it can be told is the
\* host's own message, when the opcode is unknown or the host has gone.
OwnAnswer ==
    w.pc = "decide" /\ w.fn = "collect" =>
        LET mine == Answer(w.call) IN
        \/ w.bytes = Message /\ w.status = "ERR"
           /\ (hostGone \/ shape[w.call].op = "nocap")
        \/ /\ shape[w.call].op = "cap"
           /\ w.status \in {"MORE", shape[w.call].status}
           /\ w.got \o w.bytes = SubSeq(mine, 1, Len(w.got \o w.bytes))
           /\ w.status # "MORE" => w.got \o w.bytes = mine

\* An answer the worker may be reading stays as it was published: while a slot is
\* READY nobody but the worker's own detach touches its response.
PublishedStable ==
    [][\A s \in Slots :
         status[s] = "READY" /\ status'[s] = "READY" =>
            /\ resStatus'[s] = resStatus[s] /\ inline'[s] = inline[s]
            /\ resBuf'[s] \in {resBuf[s], 0}
            /\ resBuf[s] # 0 => resMem'[resBuf[s]] = resMem[resBuf[s]]]_vars

\* claim raises "all slots hold answers never taken" only when it is so at the
\* moment it raises, although it looked at the slots one after the other.
FullIsTrue ==
    [][w.pc = "claim" /\ w'.pc = "idle" => \A s \in Slots : status[s] = "READY"]_vars

\* A cancelled slot comes back (abandon) without its capability ever answering.
CancelledComesBack ==
    \A s \in Slots : status[s] = "CANCELLED" ~> status[s] = "FREE" \/ hostGone

\* However the responder is stopped, a worker inside a host call gets out of it:
\* no park in call.ts outlives the loop it waits on.
GoneIsHeard == hostGone ~> w.pc = "idle"

\* If every capability answers, every host call returns: nothing parks for ever
\* on a slot, on a buffer, or on a wake-up that came too early.
CallsReturn == w.pc # "idle" ~> w.pc = "idle"

\* The program is told of its own calls only: what collect returns is its call's answer
\* (OwnAnswer), and behind it the handlers under way hold the tickets they were taken with.
AnswersAreOwn == OwnAnswer /\ HandlerHoldsItsTicket

\* The worker is never misled: what it reads does not change under it, and claim's "every slot
\* holds an answer" is no false alarm though the slots are looked at one by one.
WorkerIsNotMisled == PublishedStable /\ FullIsTrue

\* Every park ends: of a responder that is gone, of a slot whose call was cancelled, and of any
\* host call as long as capabilities answer (parkForHost, loop, failPending).
EveryParkEnds == GoneIsHeard /\ CancelledComesBack /\ CallsReturn
=============================================================================

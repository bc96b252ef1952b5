--------------------------- MODULE AnswersProofs ---------------------------
(***************************************************************************)
(* Proofs about what the bridge (Bridge) carries.  A call that holds a     *)
(* slot finds there its own request on the way in and its own answer on    *)
(* the way out, a piece at a time (AInv); from it follow that a handler is *)
(* given the request its call submitted and collect returns that call's    *)
(* answer, whole and in order, and that an answer does not change while    *)
(* the worker reads it.  Like RInv, AInv holds while the responder has not *)
(* gone and no call is cancelled before the host has taken it.             *)
(***************************************************************************)
EXTENDS BridgeProofs

-----------------------------------------------------------------------------
(* The contents *)
\* Units m + 1 to n of call c: its request is Piece(c, 0, pieces), its answer Piece(c, 0, len).
Piece(c, m, n) == [i \in 1 .. n - m |-> <<c, m + i>>]

\* Call c is still being submitted.
Submits(c) == w.fn = "submit" /\ w.call = c
\* How much of its answer a call has been given.
Got(c) == IF w.fn = "collect" /\ w.call = c THEN Len(w.got) ELSE 0

\* What slot s may say to the call c that holds it.
Says(c, s, st, bytes) ==
    IF Submits(c) THEN st = "ACK"
    ELSE \/ st = "ERR" /\ bytes = Message /\ shape[c].op = "nocap"
         \/ /\ shape[c].op = "cap"
            /\ \E n \in Got(c) .. shape[c].len :
                  /\ bytes = Piece(c, Got(c), n)
                  /\ \/ n = shape[c].len /\ st = shape[c].status
                     \/ /\ st = "MORE" /\ pending[s] = Piece(c, n, shape[c].len)
                        /\ finalStatus[s] = shape[c].status

\* The bytes of the response at slot s, wherever write put them.
Bytes(s) == IF resBuf[s] = 0 THEN inline[s] ELSE resMem[resBuf[s]]

\* The request piece that is on its way to the host at slot s is p.
OnItsWay(s, p) ==
    /\ reqBuf[s] # 0 => reqMem[reqBuf[s]] = p
    /\ h.pc = "taken" /\ h.slot = s => h.payload = p

\* While c is being submitted to slot s: the pieces sent are the host's partial request, or
\* the last of them is on its way.
Pushed(c, s) ==
    Submits(c) =>
      /\ w.loop = "reqbuf" => w.sent < shape[c].pieces /\ partial[s] = Piece(c, 0, w.sent)
      /\ w.loop = "await" =>
          /\ w.sent \in 1 .. shape[c].pieces - 1
          /\ status[s] \in {"PENDING", "RUNNING", "READY"}
          /\ status[s] = "PENDING" =>
               /\ op[s] = "PUSH" /\ partial[s] = Piece(c, 0, w.sent - 1)
               /\ OnItsWay(s, Piece(c, w.sent - 1, w.sent))
          /\ status[s] # "PENDING" => partial[s] = Piece(c, 0, w.sent)
          /\ status[s] = "RUNNING" => Replies /\ h.slot = s

\* Once c has been submitted: the slot carries its last piece, or its OP_CONTINUE and the
\* tail that answers it.
Asked(c, s) ==
    ~Submits(c) =>
      /\ status[s] \in {"PENDING", "RUNNING", "READY"}
      /\ status[s] = "PENDING" /\ op[s] # "CONTINUE" =>
           /\ op[s] = shape[c].op
           /\ Got(c) = 0
           /\ partial[s] = Piece(c, 0, shape[c].pieces - 1)
           /\ OnItsWay(s, Piece(c, shape[c].pieces - 1, shape[c].pieces))
      /\ status[s] = "PENDING" /\ op[s] = "CONTINUE" =>
           /\ shape[c].op = "cap" /\ Got(c) <= shape[c].len
           /\ w.fn = "collect" /\ w.call = c
           /\ pending[s] = Piece(c, Got(c), shape[c].len)
           /\ finalStatus[s] = shape[c].status
           /\ partial[s] = <<>>
      /\ status[s] = "RUNNING" => /\ partial[s] = <<>>
                                  /\ Got(c) # 0 => Replies /\ h.slot = s
      /\ status[s] = "READY" => partial[s] = <<>>

\* What the host is about to write for c, has written, or has published is c's to be told.
Told(c, s) ==
    /\ h.pc \in {"reply", "write"} /\ h.slot = s =>
         IF Submits(c) THEN h.status = "ACK" /\ h.body = <<>>
         ELSE \/ h.status = "ERR" /\ h.body = Message /\ shape[c].op = "nocap"
              \/ /\ shape[c].op = "cap" /\ Got(c) <= shape[c].len
                 /\ h.status = shape[c].status
                 /\ h.body = Piece(c, Got(c), shape[c].len)
    /\ h.pc = "write" /\ h.slot = s => h.gen = gen[s]
    /\ h.pc = "publish" /\ h.slot = s => Says(c, s, resStatus[s], Bytes(s))
    /\ status[s] = "READY" =>
         \/ w.slot = s /\ (w.pc \in {"handback", "decide"} \/ w.loop = "reqbuf")
         \/ Says(c, s, resStatus[s], Bytes(s))

\* What readRes has copied out is what the slot said, and what collect has is a beginning
\* of its call's answer.
Read ==
    /\ w.loop = "claim" => w.sent = 0
    /\ w.pc \in {"handback", "decide"} => Says(w.call, w.slot, w.status, w.bytes)
    /\ w.fn = "collect" => w.got = Piece(w.call, 0, Len(w.got)) /\ Len(w.got) <= shape[w.call].len

\* A handler has its call's whole request and its call's ticket, and that call was submitted.
HandlersAreOwn ==
    \A k \in handlers :
        \E c \in Given : /\ k.whole = Request(c) /\ ~Submits(c) /\ shape[c].op = "cap"
                         /\ ticket[c] = [slot |-> k.slot, gen |-> k.gen]

\* A free slot has no partial request left over.
Clean == \A s \in Slots : status[s] = "FREE" => partial[s] = <<>>

Contents == \A c \in Calls, s \in Slots : Holds(c, s) => Pushed(c, s) /\ Asked(c, s) /\ Told(c, s)
AInv == Contents /\ Read /\ HandlersAreOwn /\ Clean

-----------------------------------------------------------------------------
(* Pieces of a call's request and answer *)

\* A piece is the payload its two ends say.
LEMMA PieceIs ==
    ASSUME NEW c \in 0 .. MaxCalls, NEW m \in Nat, NEW n \in Nat, m <= n
    PROVE  /\ Piece(c, m, n) \in Payloads /\ Len(Piece(c, m, n)) = n - m
           /\ \A i \in 1 .. n - m : Piece(c, m, n)[i] = <<c, m + i>>
<1>1. n - m \in Nat  OBVIOUS
<1>2. Piece(c, m, n) \in [1 .. n - m -> Units]
  <2>1. \A i \in 1 .. n - m : <<c, m + i>> \in Units  BY <1>1 DEF Units
  <2>. QED  BY <2>1 DEF Piece
<1>3. \A f \in [1 .. n - m -> Units] : f \in Seq(Units)  BY <1>1, IsASeq
<1>4. Piece(c, m, n) \in Seq(Units)  BY <1>2, <1>3
<1>5. DOMAIN Piece(c, m, n) = 1 .. n - m  BY DEF Piece
<1>6. Len(Piece(c, m, n)) = n - m  BY <1>1, <1>4, <1>5, LenProperties
<1>. QED  BY <1>4, <1>6 DEF Piece, Payloads

\* Two payloads are the same when they agree unit by unit.
LEMMA SamePayload ==
    ASSUME NEW p \in Payloads, NEW r \in Payloads, Len(p) = Len(r),
           \A i \in 1 .. Len(p) : p[i] = r[i]
    PROVE  p = r
BY SeqEqual DEF Payloads

\* Nothing from m to m; one unit; a piece and the one after it; a piece cut in two.
LEMMA PieceFacts ==
    ASSUME NEW c \in 0 .. MaxCalls
    PROVE  /\ \A m \in Nat : Piece(c, m, m) = <<>>
           /\ \A m \in Nat : << <<c, m + 1>> >> = Piece(c, m, m + 1)
           /\ \A m, n, k \in Nat : m <= n /\ n <= k =>
                 Piece(c, m, n) \o Piece(c, n, k) = Piece(c, m, k)
           /\ \A m, n, r \in Nat : m + r <= n =>
                 /\ SubSeq(Piece(c, m, n), 1, r) = Piece(c, m, m + r)
                 /\ SubSeq(Piece(c, m, n), r + 1, Len(Piece(c, m, n))) = Piece(c, m + r, n)
<1>1. ASSUME NEW m \in Nat PROVE Piece(c, m, m) = <<>>
  <2>0. m <= m /\ m - m = 0  OBVIOUS
  <2>1. Piece(c, m, m) \in Payloads /\ Len(Piece(c, m, m)) = 0  BY <2>0, PieceIs
  <2>. QED  BY <2>1 DEF Payloads
<1>2. ASSUME NEW m \in Nat PROVE << <<c, m + 1>> >> = Piece(c, m, m + 1)
  <2>0. m + 1 \in Nat /\ m <= m + 1 /\ (m + 1) - m = 1 /\ 1 \in 1 .. 1  OBVIOUS
  <2>1. /\ Piece(c, m, m + 1) \in Payloads /\ Len(Piece(c, m, m + 1)) = 1
        /\ Piece(c, m, m + 1)[1] = <<c, m + 1>>
    BY <2>0, PieceIs
  <2>2. << <<c, m + 1>> >> \in Payloads  BY Payload
  <2>3. Len(<< <<c, m + 1>> >>) = 1 /\ << <<c, m + 1>> >>[1] = <<c, m + 1>>  OBVIOUS
  <2>4. \A i \in 1 .. 1 : i = 1  OBVIOUS
  <2>. QED  BY <2>1, <2>2, <2>3, <2>4, SamePayload
<1>3. ASSUME NEW m \in Nat, NEW n \in Nat, NEW k \in Nat, m <= n, n <= k
      PROVE  Piece(c, m, n) \o Piece(c, n, k) = Piece(c, m, k)
  <2> DEFINE p == Piece(c, m, n)
             r == Piece(c, n, k)
             q == Piece(c, m, k)
  <2>0. m <= k  BY <1>3
  <2>1. /\ p \in Payloads /\ Len(p) = n - m /\ \A i \in 1 .. n - m : p[i] = <<c, m + i>>
        /\ r \in Payloads /\ Len(r) = k - n /\ \A i \in 1 .. k - n : r[i] = <<c, n + i>>
        /\ q \in Payloads /\ Len(q) = k - m /\ \A i \in 1 .. k - m : q[i] = <<c, m + i>>
    <3>1. p \in Payloads /\ Len(p) = n - m /\ \A i \in 1 .. n - m : p[i] = <<c, m + i>>
      BY <1>3, PieceIs
    <3>2. r \in Payloads /\ Len(r) = k - n /\ \A i \in 1 .. k - n : r[i] = <<c, n + i>>
      BY <1>3, PieceIs
    <3>3. q \in Payloads /\ Len(q) = k - m /\ \A i \in 1 .. k - m : q[i] = <<c, m + i>>
      BY <2>0, PieceIs
    <3>. QED  BY <3>1, <3>2, <3>3
  <2> HIDE DEF p, r, q
  <2>2. p \o r \in Payloads /\ Len(p \o r) = k - m
    BY <1>3, <2>1 DEF Payloads
  <2>3. ASSUME NEW i \in 1 .. k - m PROVE (p \o r)[i] = q[i]
    <3>0. /\ i \in 1 .. Len(p) + Len(r)
          /\ (p \o r)[i] = IF i <= n - m THEN p[i] ELSE r[i - (n - m)]
      <4>1. i \in 1 .. Len(p) + Len(r)  BY <1>3, <2>1
      <4>2. p \in Seq(Units) /\ r \in Seq(Units)  BY <2>1 DEF Payloads
      <4>3. \A j \in 1 .. Len(p) + Len(r) :
              (p \o r)[j] = IF j <= Len(p) THEN p[j] ELSE r[j - Len(p)]
        BY <4>2, ConcatProperties
      <4>. QED  BY <2>1, <4>1, <4>3
    <3>1. CASE i <= n - m
      <4>1. i \in 1 .. n - m  BY <1>3, <3>1
      <4>. QED  BY <2>1, <3>0, <3>1, <4>1
    <3>2. CASE ~(i <= n - m)
      <4>1. (p \o r)[i] = r[i - (n - m)]  BY <3>0, <3>2
      <4>2. i - (n - m) \in 1 .. k - n /\ n + (i - (n - m)) = m + i  BY <1>3, <3>2
      <4>. QED  BY <2>1, <4>1, <4>2
    <3>. QED  BY <3>1, <3>2
  <2>4. p \o r = q  BY <2>1, <2>2, <2>3, SamePayload
  <2>. QED  BY <2>4 DEF p, r, q
<1>4. ASSUME NEW m \in Nat, NEW n \in Nat, NEW r \in Nat, m + r <= n
      PROVE  /\ SubSeq(Piece(c, m, n), 1, r) = Piece(c, m, m + r)
             /\ SubSeq(Piece(c, m, n), r + 1, Len(Piece(c, m, n))) = Piece(c, m + r, n)
  <2> DEFINE p == Piece(c, m, n)
             front == Piece(c, m, m + r)
             back == Piece(c, m + r, n)
  <2>0. m + r \in Nat /\ m <= n /\ m <= m + r  BY <1>4
  <2>1. /\ p \in Payloads /\ Len(p) = n - m /\ \A i \in 1 .. n - m : p[i] = <<c, m + i>>
    BY <2>0, PieceIs
  <2>2. /\ front \in Payloads /\ Len(front) = r /\ \A i \in 1 .. r : front[i] = <<c, m + i>>
    <3>1. (m + r) - m = r  OBVIOUS
    <3>. QED  BY <2>0, <3>1, PieceIs
  <2>3. /\ back \in Payloads /\ Len(back) = n - (m + r)
        /\ \A i \in 1 .. n - (m + r) : back[i] = <<c, (m + r) + i>>
    BY <1>4, <2>0, PieceIs
  <2> HIDE DEF p, front, back
  <2>4. SubSeq(p, 1, r) = front
    <3>1. /\ SubSeq(p, 1, r) \in Payloads /\ Len(SubSeq(p, 1, r)) = r
          /\ \A i \in 1 .. r : SubSeq(p, 1, r)[i] = p[i]
      BY <1>4, <2>1 DEF Payloads
    <3>2. \A i \in 1 .. r : i \in 1 .. n - m  BY <1>4
    <3>3. \A i \in 1 .. r : SubSeq(p, 1, r)[i] = front[i]  BY <2>1, <2>2, <3>1, <3>2
    <3>. QED  BY <2>2, <3>1, <3>3, SamePayload
  <2>5. SubSeq(p, r + 1, Len(p)) = back
    <3>1. /\ SubSeq(p, r + 1, n - m) \in Payloads
          /\ Len(SubSeq(p, r + 1, n - m)) = n - (m + r)
          /\ \A i \in 1 .. n - (m + r) : SubSeq(p, r + 1, n - m)[i] = p[r + i]
      BY <1>4, <2>1 DEF Payloads
    <3>2. \A i \in 1 .. n - (m + r) : p[r + i] = <<c, (m + r) + i>>
      <4> TAKE i \in 1 .. n - (m + r)
      <4>1. r + i \in 1 .. n - m /\ m + (r + i) = (m + r) + i  BY <1>4
      <4>. QED  BY <2>1, <4>1
    <3>. QED  BY <2>1, <2>3, <3>1, <3>2, SamePayload
  <2>. QED  BY <2>4, <2>5 DEF p, front, back
<1>. QED  BY <1>1, <1>2, <1>3, <1>4

\* A request is the first pieces of its call, and an answer its first len units.
LEMMA RequestIs ==
    ASSUME NEW c, shape[c].pieces \in Nat, shape[c].len \in Nat
    PROVE  Request(c) = Piece(c, 0, shape[c].pieces) /\ Answer(c) = Piece(c, 0, shape[c].len)
BY DEF Request, Answer, Piece

\* A piece and the one after it.
LEMMA PieceJoin ==
    ASSUME NEW c \in 0 .. MaxCalls, NEW m \in Nat, NEW n \in Nat, NEW k \in Nat,
           m <= n, n <= k
    PROVE  Piece(c, m, n) \o Piece(c, n, k) = Piece(c, m, k)
<1>1. \A x, y, z \in Nat : x <= y /\ y <= z => Piece(c, x, y) \o Piece(c, y, z) = Piece(c, x, z)
  BY PieceFacts, Zenon
<1>. QED  BY <1>1

\* A piece cut after its first r units, as write cuts an answer that does not fit.
LEMMA PieceCut ==
    ASSUME NEW c \in 0 .. MaxCalls, NEW m \in Nat, NEW n \in Nat, NEW r \in Nat, m + r < n
    PROVE  /\ Fits(Piece(c, m, n), r) = Piece(c, m, m + r)
           /\ TailOf(Piece(c, m, n), r) = Piece(c, m + r, n)
<1>1. \A x, y, z \in Nat : x + z <= y =>
        /\ SubSeq(Piece(c, x, y), 1, z) = Piece(c, x, x + z)
        /\ SubSeq(Piece(c, x, y), z + 1, Len(Piece(c, x, y))) = Piece(c, x + z, y)
  BY PieceFacts, Zenon
<1>2. m + r <= n /\ m <= n  OBVIOUS
<1>3. Len(Piece(c, m, n)) > r
  <2>1. Len(Piece(c, m, n)) = n - m  BY <1>2, PieceIs
  <2>. QED  BY <2>1
<1>4. /\ SubSeq(Piece(c, m, n), 1, r) = Piece(c, m, m + r)
      /\ SubSeq(Piece(c, m, n), r + 1, Len(Piece(c, m, n))) = Piece(c, m + r, n)
  BY <1>1, <1>2
<1>5. Fits(Piece(c, m, n), r) = SubSeq(Piece(c, m, n), 1, r)  BY <1>3 DEF Fits
<1>6. TailOf(Piece(c, m, n), r) = SubSeq(Piece(c, m, n), r + 1, Len(Piece(c, m, n)))
  BY DEF TailOf
<1>. QED  BY <1>4, <1>5, <1>6

\* The first n units of a payload, as OwnAnswer compares them.
Front(body, n) == SubSeq(body, 1, n)
\* The front of a piece is a piece.
LEMMA PieceFront ==
    ASSUME NEW c \in 0 .. MaxCalls, NEW m \in Nat, NEW n \in Nat, NEW r \in Nat, m + r <= n
    PROVE  Front(Piece(c, m, n), r) = Piece(c, m, m + r)
<1>1. \A x, y, z \in Nat : x + z <= y =>
        /\ SubSeq(Piece(c, x, y), 1, z) = Piece(c, x, x + z)
        /\ SubSeq(Piece(c, x, y), z + 1, Len(Piece(c, x, y))) = Piece(c, x + z, y)
  BY PieceFacts, Zenon
<1>2. SubSeq(Piece(c, m, n), 1, r) = Piece(c, m, m + r)  BY <1>1
<1>. QED  BY <1>2 DEF Front

-----------------------------------------------------------------------------
(* The contents, seen from a call that holds its slot *)

\* A call that holds a slot was submitted, and no other call holds it.
LEMMA Held ==
    ASSUME IInv, TInv, NEW a \in Calls, NEW s \in Slots, Holds(a, s)
    PROVE  /\ a \in Given /\ a \in 0 .. MaxCalls /\ Len(shape) \in Nat
           /\ shape[a].pieces \in Nat /\ shape[a].pieces >= 1 /\ shape[a].len \in Nat
           /\ shape[a].op \in {"cap", "nocap"} /\ shape[a].status \in {"OK", "ERR"}
           /\ status[s] \notin {"FREE", "CANCELLED"} /\ ~(w.pc = "cancel" /\ w.slot = s)
           /\ w.fn = "collect" => (w.slot = s <=> w.call = a)
           /\ w.fn = "submit" /\ w.loop # "claim" => (w.slot = s <=> w.call = a)
           /\ w.fn = "submit" /\ w.loop = "claim" => w.call # a
           /\ \A c \in Calls : Holds(c, s) => c = a
<1>a. TypeOK  BY DEF IInv
<1>b. s # 0 /\ ticket[a].slot # 0 /\ ticket[a].gen = gen[s] /\ ticket[a].slot = s
  BY DEF Holds, Slots
<1>1. a \in Given  BY <1>b DEF TInv, Numbered, NoTicket
<1>2. shape[a] \in Shapes /\ Len(shape) \in Nat  BY <1>a, <1>1 DEF TypeOK, Given
<1>3. a \in 0 .. MaxCalls  BY SizesAssumption DEF Calls
<1>4. /\ shape[a].pieces \in Nat /\ shape[a].pieces >= 1 /\ shape[a].len \in Nat
      /\ shape[a].op \in {"cap", "nocap"} /\ shape[a].status \in {"OK", "ERR"}
  BY <1>2, ShapesAssumption
<1>5. status[s] \notin {"FREE", "CANCELLED"} /\ ~(w.pc = "cancel" /\ w.slot = s)
  BY DEF TInv, Unheld, Loose
<1>6. \A c \in Calls : Holds(c, s) => c = a  BY <1>b DEF TInv, TicketsApart, Holds
<1>7. \A c \in Given : c \in Calls  BY <1>2, SizesAssumption DEF IInv, HostAt, Given, Calls
<1>8. w.fn = "collect" => (w.slot = s <=> w.call = a)
  BY <1>6, <1>7, <1>b DEF TInv, WorkerHolds, Holds
<1>9. w.fn = "submit" /\ w.loop # "claim" => (w.slot = s <=> w.call = a)
  BY <1>6, <1>7, <1>b DEF TInv, WorkerHolds, Holds, IInv, WorkerAt
<1>10. w.fn = "submit" /\ w.loop = "claim" => w.call # a
  BY <1>b DEF TInv, WorkerHolds, NoTicket
<1>. QED  BY <1>1, <1>2, <1>3, <1>4, <1>5, <1>6, <1>8, <1>9, <1>10

\* A call that still holds its slot is not at the slot whose generation moved.
LEMMA StillHeld ==
    ASSUME TypeOK, NEW a \in Calls, NEW s \in Slots, NEW x \in Slots, Holds(a, s), Holds(a, s)',
           gen' = [gen EXCEPT ![x] = @ + 1], ticket'[a] = ticket[a] \/ ticket'[a] = NoTicket
    PROVE  s # x
<1>1. s # 0 /\ NoTicket.slot = 0  BY DEF Slots, NoTicket
<1>2. ticket'[a] = ticket[a]  BY <1>1 DEF Holds
<1>3. gen'[s] = gen[s] /\ gen[s] \in Nat  BY <1>2 DEF Holds, TypeOK
<1>4. s = x => gen'[s] = gen[s] + 1  BY DEF TypeOK
<1>. QED  BY <1>3, <1>4

\* The worker has read slot s, or is filling it: what the slot says is no longer used.
Spent(s) == w.slot = s /\ (w.pc \in {"handback", "decide"} \/ w.loop = "reqbuf")

\* What a slot says to its call lasts as long as nobody writes to it.
LEMMA ToldKept ==
    ASSUME NEW a \in Calls, NEW s \in Slots, Told(a, s),
           Submits(a)' <=> Submits(a), Got(a)' = Got(a), shape'[a] = shape[a], gen'[s] = gen[s],
           pending'[s] = pending[s], finalStatus'[s] = finalStatus[s],
           resStatus'[s] = resStatus[s], Bytes(s)' = Bytes(s),
           h' = h \/ ~(Replies' /\ h'.slot = s),
           status'[s] = "READY" => status[s] = "READY" /\ (Spent(s) => Spent(s)')
    PROVE  Told(a, s)'
<1>2. Says(a, s, resStatus[s], Bytes(s))' <=> Says(a, s, resStatus[s], Bytes(s))
  BY DEF Says
<1>3. CASE h' = h  BY <1>2, <1>3 DEF Told, Spent
<1>4. CASE ~(Replies' /\ h'.slot = s)  BY <1>2, <1>4 DEF Told, Spent, Replies
<1>. QED  BY <1>3, <1>4

\* Only claim gives a call a slot: one that holds one now, held it before.
LEMMA HeldBefore == ASSUME IInv, TInv, Next, ~ClaimSlot, NEW a \in Calls, NEW s \in Slots, Holds(a, s)' PROVE Holds(a, s)
<1> USE DEF reqPool, resArea, program, tables
<1>a. TypeOK  BY DEF IInv
<1>n. Holds(a, s)' /\ s # 0  BY DEF Slots
<1>1. ASSUME NEW c \in Calls, CancelReady(c) PROVE Holds(a, s)
  <2>1. ticket[c].slot \in Slots  BY <1>1, <1>a, LiveSlot DEF CancelReady
  <2>2. gen' = [gen EXCEPT ![ticket[c].slot] = @ + 1]  BY <1>1 DEF CancelReady, Release
  <2>3. \A x \in Calls : ticket'[x] = ticket[x] \/ ticket'[x] = NoTicket  BY <1>1 DEF CancelReady, Release
  <2>4. \A x \in Calls : ~(ticket'[x].slot = ticket[c].slot /\ ticket'[x].gen = gen'[ticket[c].slot])
    BY <1>a, <2>1, <2>2, <2>3, Bump DEF TInv
  <2>5. \A x \in Slots : x # ticket[c].slot => gen'[x] = gen[x]  BY <1>a, <2>1, <2>2, <2>3, Bump DEF TInv
  <2>6. \A x \in Calls : \/ ticket'[x].slot = ticket[x].slot /\ ticket'[x].gen = ticket[x].gen
                         \/ ticket'[x].slot = 0
    BY <2>3, <1>a, TicketFields
  <2>. QED  BY <1>n, <2>4, <2>5, <2>6 DEF Holds
<1>2. ASSUME NEW c \in Calls, CancelBump(c) PROVE Holds(a, s)
  <2>1. ticket[c].slot \in Slots  BY <1>2, <1>a, LiveSlot DEF CancelBump
  <2>2. gen' = [gen EXCEPT ![ticket[c].slot] = @ + 1]  BY <1>2 DEF CancelBump
  <2>3. \A x \in Calls : ticket'[x] = ticket[x] \/ ticket'[x] = NoTicket  BY <1>2 DEF CancelBump
  <2>4. \A x \in Calls : ~(ticket'[x].slot = ticket[c].slot /\ ticket'[x].gen = gen'[ticket[c].slot])
    BY <1>a, <2>1, <2>2, <2>3, Bump DEF TInv
  <2>5. \A x \in Slots : x # ticket[c].slot => gen'[x] = gen[x]  BY <1>a, <2>1, <2>2, <2>3, Bump DEF TInv
  <2>6. \A x \in Calls : \/ ticket'[x].slot = ticket[x].slot /\ ticket'[x].gen = ticket[x].gen
                         \/ ticket'[x].slot = 0
    BY <2>3, <1>a, TicketFields
  <2>. QED  BY <1>n, <2>4, <2>5, <2>6 DEF Holds
<1>3. CASE Park
  <2>1. \A c \in Calls : ticket'[c] = ticket[c] \/ ticket'[c] = NoTicket
    BY <1>3, <1>a, RaiseEffect, ParkEffect DEF GoesOn
  <2>2. gen' = gen  BY <1>3, <1>a, ParkEffect
  <2>3. \A c \in Calls : \/ ticket'[c].slot = ticket[c].slot /\ ticket'[c].gen = ticket[c].gen
                         \/ ticket'[c].slot = 0
    BY <2>1, <1>a, TicketFields
  <2>. QED  BY <1>n, <2>2, <2>3 DEF Holds
<1>4. ASSUME NEW timeout \in BOOLEAN, Unpark(timeout) PROVE Holds(a, s)
  <2>1. \A c \in Calls : ticket'[c] = ticket[c] \/ ticket'[c] = NoTicket
    BY <1>4, <1>a, RaiseEffect, ParkEffect DEF GoesOn
  <2>2. gen' = gen  BY <1>4, <1>a, ParkEffect
  <2>3. \A c \in Calls : \/ ticket'[c].slot = ticket[c].slot /\ ticket'[c].gen = ticket[c].gen
                         \/ ticket'[c].slot = 0
    BY <2>1, <1>a, TicketFields
  <2>. QED  BY <1>n, <2>2, <2>3 DEF Holds
<1>5. CASE ClaimSlot
  BY <1>5
<1>6. CASE ClaimNext
  <2>1. \A c \in Calls : ticket'[c] = ticket[c] \/ ticket'[c] = NoTicket
    BY <1>6, <1>a, RaiseEffect, ClaimEffect DEF GoesOn
  <2>2. gen' = gen  BY <1>6, <1>a, ClaimEffect
  <2>3. \A c \in Calls : \/ ticket'[c].slot = ticket[c].slot /\ ticket'[c].gen = ticket[c].gen
                         \/ ticket'[c].slot = 0
    BY <2>1, <1>a, TicketFields
  <2>. QED  BY <1>n, <2>2, <2>3 DEF Holds
<1>7. CASE PieceFailed
  <2>1. w.slot \in Slots  BY <1>7 DEF PieceFailed, IInv, WorkerAt
  <2>2. gen' = [gen EXCEPT ![w.slot] = @ + 1]  BY <1>7 DEF PieceFailed, Release
  <2>3. \A x \in Calls : ticket'[x] = ticket[x] \/ ticket'[x] = NoTicket  BY <1>7, <1>a, RaiseEffect DEF PieceFailed
  <2>4. \A x \in Calls : ~(ticket'[x].slot = w.slot /\ ticket'[x].gen = gen'[w.slot])
    BY <1>a, <2>1, <2>2, <2>3, Bump DEF TInv
  <2>5. \A x \in Slots : x # w.slot => gen'[x] = gen[x]  BY <1>a, <2>1, <2>2, <2>3, Bump DEF TInv
  <2>6. \A x \in Calls : \/ ticket'[x].slot = ticket[x].slot /\ ticket'[x].gen = ticket[x].gen
                         \/ ticket'[x].slot = 0
    BY <2>3, <1>a, TicketFields
  <2>. QED  BY <1>n, <2>4, <2>5, <2>6 DEF Holds
<1>8. CASE CollectLast
  <2>1. w.slot \in Slots  BY <1>8 DEF CollectLast, IInv, WorkerAt
  <2>2. gen' = [gen EXCEPT ![w.slot] = @ + 1]  BY <1>8 DEF CollectLast, Release
  <2>3. \A x \in Calls : ticket'[x] = ticket[x] \/ ticket'[x] = NoTicket  BY <1>8 DEF CollectLast, Release
  <2>4. \A x \in Calls : ~(ticket'[x].slot = w.slot /\ ticket'[x].gen = gen'[w.slot])
    BY <1>a, <2>1, <2>2, <2>3, Bump DEF TInv
  <2>5. \A x \in Slots : x # w.slot => gen'[x] = gen[x]  BY <1>a, <2>1, <2>2, <2>3, Bump DEF TInv
  <2>6. \A x \in Calls : \/ ticket'[x].slot = ticket[x].slot /\ ticket'[x].gen = ticket[x].gen
                         \/ ticket'[x].slot = 0
    BY <2>3, <1>a, TicketFields
  <2>. QED  BY <1>n, <2>4, <2>5, <2>6 DEF Holds
<1>f. CASE UNCHANGED <<ticket, gen>>  BY <1>f DEF TInv, Holds
<1>p. CASE Program
  BY <1>p, <1>1, <1>2, <1>f
  DEF Program, Submit, Collect, WaitAny
<1>w. CASE Worker
  BY <1>w, <1>3, <1>4, <1>5, <1>6, <1>7, <1>8, <1>f
  DEF Worker, Wake, Look, TakeReqBuf, PublishPiece, AwaitReady, ReadRes, HandBack,
      NextPiece, CollectMore, CancelStore, WaitScan
<1>h. CASE Host
  BY <1>h, <1>f
  DEF Host, LoopWake, SweepSkip, SweepDone, Abandon, Take, TakeLost, TakeContinue,
      TakePush, TakeDispatch, TakeUnknown, Reply, WriteStale, Write, Publish,
      PublishLost, FailSkip, FailSlot, FailDone, DetachBoth, Taken, DetachRequest
<1>t. CASE Timeout  BY <1>t, <1>4 DEF Timeout
<1>d. CASE HandlerDone  BY <1>d, <1>f DEF HandlerDone, Complete
<1>s. CASE Stop  BY <1>s, <1>f DEF Stop
<1>. QED  BY <1>p, <1>w, <1>h, <1>t, <1>d, <1>s DEF Next

\* A piece goes from the worker to the buffer, to the host's register and to partial.
LEMMA PushedStep == ASSUME IInv, TInv, RInv, AInv, Quiet, Quiet', Next, NEW a \in Calls, NEW s \in Slots,
           Holds(a, s), Holds(a, s)' PROVE Pushed(a, s)'
<1> USE DEF reqPool, resArea, program, tables
<1>a. TypeOK  BY DEF IInv
<1>q. /\ ~hostGone /\ ~hostGone' /\ "PENDING" \notin CancelFrom
      /\ h.pc # "fail" /\ h.ret # "fail"
  BY DEF Quiet, TInv, StopAt
<1>c. Pushed(a, s) /\ Asked(a, s) /\ Told(a, s)  BY DEF AInv, Contents
<1>k. /\ a \in Given /\ a \in 0 .. MaxCalls /\ Len(shape) \in Nat
      /\ shape[a].pieces \in Nat /\ shape[a].pieces >= 1 /\ shape[a].len \in Nat
      /\ shape[a].op \in {"cap", "nocap"} /\ shape[a].status \in {"OK", "ERR"}
      /\ status[s] \notin {"FREE", "CANCELLED"} /\ ~(w.pc = "cancel" /\ w.slot = s)
      /\ w.fn = "collect" => (w.slot = s <=> w.call = a)
      /\ w.fn = "submit" /\ w.loop # "claim" => (w.slot = s <=> w.call = a)
      /\ w.fn = "submit" /\ w.loop = "claim" => w.call # a
  BY Held
<1>e. \A m \in Nat : Piece(a, m, m) = <<>>  BY <1>k, PieceFacts
<1>1. CASE Park
  <2>1. CASE hostGone /\ Raise
    BY <1>1, <2>1, <1>a, RaiseEffect, ParkEffect, <1>q, <1>c, <1>k DEF IInv, Pushed, Submits, OnItsWay, WorkerAt, WorkersSlot, Replies, HostsSlot, HostAt
  <2>2. CASE ~hostGone /\ GoesOn /\ w'.slot = w.slot /\ w'.pc \in {"parked", "seen"}
    BY <1>1, <2>2, <1>a, ParkEffect, <1>q, <1>c, <1>k DEF GoesOn, IInv, Pushed, Submits, OnItsWay, WorkerAt, WorkersSlot, Replies, HostsSlot, HostAt
  <2>. QED  BY <1>1, <2>1, <2>2, <1>a, ParkEffect
<1>2. ASSUME NEW timeout \in BOOLEAN, Unpark(timeout) PROVE Pushed(a, s)'
  <2>1. CASE hostGone /\ Raise
    BY <1>2, <2>1, <1>a, RaiseEffect, ParkEffect, <1>q, <1>c, <1>k DEF IInv, Pushed, Submits, OnItsWay, WorkerAt, WorkersSlot, Replies, HostsSlot, HostAt
  <2>2. CASE ~hostGone /\ GoesOn /\ w'.slot = w.slot /\ w'.pc \in {"parked", "seen"}
    BY <1>2, <2>2, <1>a, ParkEffect, <1>q, <1>c, <1>k DEF GoesOn, IInv, Pushed, Submits, OnItsWay, WorkerAt, WorkersSlot, Replies, HostsSlot, HostAt
  <2>. QED  BY <1>2, <2>1, <2>2, <1>a, ParkEffect
<1>3. CASE ClaimNext
  <2>0. /\ w.pc = "claim"
        /\ UNCHANGED <<status, gen, op, reqPool, resArea, hostGone, shape, h, tables>>
    BY <1>3, <1>a, ClaimEffect
  <2>1. CASE Raise
    BY <2>0, <2>1, <1>a, RaiseEffect, <1>q, <1>c, <1>k DEF IInv, Pushed, Submits, OnItsWay, WorkerAt, WorkersSlot, Replies, HostsSlot, HostAt
  <2>2. CASE GoesOn /\ w'.pc \in {"claim", "park"}
    BY <2>0, <2>2, <1>q, <1>c, <1>k DEF GoesOn, IInv, Pushed, Submits, OnItsWay, WorkerAt, WorkersSlot, Replies, HostsSlot, HostAt
  <2>. QED  BY <1>3, <2>1, <2>2, <1>a, ClaimEffect
<1>4. CASE TakeReqBuf
  BY <1>4, <1>a, TakeReqBufEffect, <1>q, <1>c, <1>k DEF IInv, Pushed, Submits, OnItsWay, WorkerAt, WorkersSlot, Replies, HostsSlot, HostAt
<1>5. CASE PublishPiece
  <2>1. /\ w.pc = "fill" /\ w.loop = "reqbuf" /\ w.fn = "submit" /\ w.slot \in Slots
        /\ w.buf \in Bufs /\ w.sent \in Nat /\ status[w.slot] \in {"CLAIMED", "READY"}
    BY <1>5, <1>a DEF PublishPiece, IInv, WorkerAt, WorkersSlot, TypeOK, WorkerRegs
  <2>2. /\ op' = [op EXCEPT ![w.slot] = IF w.sent + 1 = shape[w.call].pieces
                                        THEN shape[w.call].op ELSE "PUSH"]
        /\ reqMem' = [reqMem EXCEPT ![w.buf] = << <<w.call, w.sent + 1>> >>]
        /\ reqBuf' = [reqBuf EXCEPT ![w.slot] = w.buf]
        /\ status' = [status EXCEPT ![w.slot] = "PENDING"]
        /\ UNCHANGED <<gen, resArea, hostGone, program, h, tables>>
        /\ w' = IF w.sent + 1 = shape[w.call].pieces THEN WorkerIdle
                ELSE [w EXCEPT !.pc = "seen", !.loop = "await", !.sent = @ + 1, !.buf = 0]
    BY <1>5 DEF PublishPiece
  <2>3. /\ op'[w.slot] = IF w.sent + 1 = shape[w.call].pieces THEN shape[w.call].op ELSE "PUSH"
        /\ reqMem'[w.buf] = << <<w.call, w.sent + 1>> >> /\ reqBuf'[w.slot] = w.buf
        /\ status'[w.slot] = "PENDING"
    BY <1>a, <2>1, <2>2 DEF TypeOK
  <2>4. ~(h.pc = "taken" /\ h.slot = w.slot) /\ ~(Replies /\ h.slot = w.slot)
    BY <2>1 DEF RInv, HostsSlot
  <2>5. w.slot # s =>
           /\ op'[s] = op[s] /\ reqBuf'[s] = reqBuf[s] /\ status'[s] = status[s]
           /\ reqBuf[s] # 0 => reqMem'[reqBuf[s]] = reqMem[reqBuf[s]]
    <3>1. w.slot # s => op'[s] = op[s] /\ reqBuf'[s] = reqBuf[s] /\ status'[s] = status[s]
      BY <1>a, <2>1, <2>2 DEF TypeOK
    <3>2. reqBuf[s] # w.buf /\ (reqBuf[s] # 0 => reqBuf[s] \in Bufs)
      BY <1>a, <2>1 DEF IInv, ReqPoolExact, TypeOK, Bufs
    <3>. QED  BY <1>a, <2>1, <2>2, <3>1, <3>2 DEF TypeOK
  <2>6. CASE w.sent + 1 = shape[w.call].pieces
    <3>1. w' = WorkerIdle  BY <2>2, <2>6
    <3>. QED  BY <3>1 DEF Pushed, Submits, WorkerIdle
  <2>7. CASE w.sent + 1 # shape[w.call].pieces
    <3>1. /\ w'.fn = "submit" /\ w'.call = w.call /\ w'.loop = "await" /\ w'.sent = w.sent + 1
          /\ w'.slot = w.slot /\ w'.pc = "seen" /\ w'.got = w.got
      BY <1>a, <2>1, <2>2, <2>7 DEF TypeOK, WorkerRegs
    <3>2. CASE w.slot # s
      BY <1>k, <2>1, <3>1, <3>2 DEF Pushed, Submits
    <3>3. CASE w.slot = s
      <4>1. w.call = a /\ w.sent < shape[a].pieces /\ partial[s] = Piece(a, 0, w.sent)
        BY <1>c, <1>k, <2>1, <3>3 DEF Pushed, Submits
      <4>2. w.sent + 1 \in 1 .. shape[a].pieces - 1 /\ (w.sent + 1) - 1 = w.sent
        BY <1>k, <2>1, <2>7, <4>1
      <4>3. << <<a, w.sent + 1>> >> = Piece(a, w.sent, w.sent + 1)  BY <1>k, <2>1, PieceFacts
      <4>4. reqMem'[reqBuf'[s]] = Piece(a, w.sent, w.sent + 1) /\ ~(h'.pc = "taken" /\ h'.slot = s)
        BY <2>2, <2>3, <2>4, <3>3, <4>1, <4>3
      <4>. QED
        BY <2>2, <2>3, <2>7, <3>1, <3>3, <4>1, <4>2, <4>4 DEF Pushed, Submits, OnItsWay
    <3>. QED  BY <3>2, <3>3
  <2>. QED  BY <2>6, <2>7
<1>6. CASE WaitScan
  <2>1. w.fn = "waitAny"  BY <1>6, <1>a DEF WaitScan, IInv, WorkerAt, TypeOK, WorkerRegs
  <2>2. /\ w'.fn \notin {"submit", "collect"} /\ w'.pc \notin {"handback", "decide"}
        /\ w'.loop \notin {"claim", "reqbuf", "await"}
        /\ UNCHANGED <<status, gen, op, reqPool, resArea, hostGone, program, h, tables>>
    <3>1. /\ w' = WorkerIdle \/ w' = [w EXCEPT !.pc = "park"]
          /\ UNCHANGED <<status, gen, op, reqPool, resArea, hostGone, program, h, tables>>
      BY <1>6 DEF WaitScan
    <3>2. CASE w' = WorkerIdle  BY <3>1, <3>2 DEF WorkerIdle
    <3>3. CASE w' = [w EXCEPT !.pc = "park"]
      <4>1. w.loop = "waitAny" /\ w'.fn = w.fn /\ w'.loop = w.loop /\ w'.pc = "park"
        BY <1>a, <2>1, <3>3 DEF TypeOK, WorkerRegs, IInv, WorkerAt
      <4>. QED  BY <2>1, <3>1, <4>1
    <3>. QED  BY <3>1, <3>2, <3>3
  <2>. QED  BY <2>2 DEF Pushed, Submits
<1>7. CASE Take
  <2>1. /\ h.pc = "sweep" /\ h.slot \in Slots /\ status[h.slot] = "PENDING"
        /\ reqBuf' = [reqBuf EXCEPT ![h.slot] = 0] /\ h'.pc = "taken" /\ h'.slot = h.slot
        /\ h'.payload = IF reqBuf[h.slot] = 0 THEN <<>> ELSE reqMem[reqBuf[h.slot]]
        /\ UNCHANGED <<status, gen, op, reqMem, resArea, hostGone, w, program, tables>>
    BY <1>7, <1>a DEF Take, IInv, HostAt, TypeOK, HostRegs, Slots
  <2>2. op[h.slot] # "CONTINUE" => reqBuf[h.slot] # 0  BY <2>1 DEF IInv, RequestAttached
  <2>3. \A p : op[s] # "CONTINUE" /\ OnItsWay(s, p) => OnItsWay(s, p)'
    BY <1>a, <2>1, <2>2 DEF OnItsWay, TypeOK
  <2>. QED  BY <1>c, <2>1, <2>3 DEF Pushed, Submits, OnItsWay, Replies
<1>8. CASE TakePush
  <2>1. /\ h.pc = "taken" /\ h.slot \in Slots /\ status[h.slot] = "PENDING" /\ op[h.slot] = "PUSH"
        /\ status' = [status EXCEPT ![h.slot] = "RUNNING"]
        /\ partial' = [partial EXCEPT ![h.slot] = @ \o h.payload]
        /\ h'.pc = "reply" /\ h'.slot = h.slot /\ UNCHANGED <<op, reqBuf, reqMem, w, shape>>
    BY <1>8, <1>a DEF TakePush, Taken, Replying, IInv, HostAt, TypeOK, HostRegs
  <2>2. CASE h.slot # s
    <3>1. status'[s] = status[s] /\ partial'[s] = partial[s]  BY <1>a, <2>1, <2>2 DEF TypeOK
    <3>. QED  BY <1>c, <2>1, <2>2, <3>1 DEF Pushed, Submits, OnItsWay, Replies
  <2>3. CASE h.slot = s /\ Submits(a)
    <3>1. w.loop = "await"
      BY <1>k, <2>1, <2>3 DEF Submits, IInv, WorkerAt, WorkersSlot
    <3>2. /\ w.sent \in 1 .. shape[a].pieces - 1 /\ partial[s] = Piece(a, 0, w.sent - 1)
          /\ h.payload = Piece(a, w.sent - 1, w.sent)
      BY <1>c, <2>1, <2>3, <3>1 DEF Pushed, OnItsWay
    <3>3. 0 <= w.sent - 1 /\ w.sent - 1 <= w.sent /\ w.sent - 1 \in Nat /\ w.sent \in Nat
      BY <1>k, <3>2
    <3>4. Piece(a, 0, w.sent - 1) \o Piece(a, w.sent - 1, w.sent) = Piece(a, 0, w.sent)
      BY <1>k, <3>3, PieceJoin
    <3>5. partial'[s] = Piece(a, 0, w.sent) /\ status'[s] = "RUNNING"
      BY <1>a, <2>1, <2>3, <3>2, <3>4 DEF TypeOK
    <3>. QED  BY <2>1, <2>3, <3>1, <3>2, <3>5 DEF Pushed, Submits, Replies
  <2>4. CASE ~Submits(a)  BY <2>1, <2>4 DEF Pushed, Submits
  <2>. QED  BY <2>2, <2>3, <2>4
<1>9. CASE FailSkip
  BY <1>9, <1>q DEF FailSkip
<1>10. CASE FailSlot
  BY <1>10, <1>q DEF FailSlot
<1>11. CASE FailDone
  BY <1>11, <1>q DEF FailDone
<1>12. CASE Stop
  BY <1>12, <1>q DEF Stop
<1>13. ASSUME NEW sh \in Shapes, Submit(sh) PROVE Pushed(a, s)'
  BY <1>13, <1>q, <1>c, <1>k DEF Submit, WorkerIdle, IInv, Pushed, Submits, OnItsWay,
     WorkerAt, WorkersSlot, Replies, HostsSlot, HostAt, RInv, TypeOK, WorkerRegs,
     HostRegs, Slots
<1>14. ASSUME NEW c \in Calls, Collect(c) PROVE Pushed(a, s)'
  BY <1>14, <1>q, <1>c, <1>k DEF Collect, WorkerIdle, Live, IInv, Pushed, Submits,
     OnItsWay, WorkerAt, WorkersSlot, Replies, HostsSlot, HostAt, RInv, TypeOK,
     WorkerRegs, HostRegs, Slots
<1>15. ASSUME NEW c \in Calls, CancelReady(c) PROVE Pushed(a, s)'
  BY <1>15, <1>q, <1>c, <1>k DEF CancelReady, Release, Live, IInv, Pushed, Submits,
     OnItsWay, WorkerAt, WorkersSlot, Replies, HostsSlot, HostAt, RInv, TypeOK,
     WorkerRegs, HostRegs, Slots
<1>16. ASSUME NEW c \in Calls, CancelBump(c) PROVE Pushed(a, s)'
  BY <1>16, <1>q, <1>c, <1>k DEF CancelBump, WorkerIdle, Live, IInv, Pushed, Submits,
     OnItsWay, WorkerAt, WorkersSlot, Replies, HostsSlot, HostAt, RInv, TypeOK,
     WorkerRegs, HostRegs, Slots
<1>17. ASSUME NEW set \in SUBSET Calls, NEW timed \in BOOLEAN, WaitAny(set, timed) PROVE
      Pushed(a, s)'
  BY <1>17, <1>q, <1>c, <1>k DEF WaitAny, WorkerIdle, IInv, Pushed, Submits, OnItsWay,
     WorkerAt, WorkersSlot, Replies, HostsSlot, HostAt, RInv, TypeOK, WorkerRegs,
     HostRegs, Slots
<1>18. CASE Look
  BY <1>18, <1>q, <1>c, <1>k DEF Look, IInv, Pushed, Submits, OnItsWay, WorkerAt,
     WorkersSlot, Replies, HostsSlot, HostAt, RInv, TypeOK, WorkerRegs, HostRegs, Slots
<1>19. CASE ClaimSlot
  BY <1>19, <1>q, <1>c, <1>k DEF ClaimSlot, IInv, Pushed, Submits, OnItsWay, WorkerAt,
     WorkersSlot, Replies, HostsSlot, HostAt, RInv, TypeOK, WorkerRegs, HostRegs, Slots
<1>20. CASE AwaitReady
  BY <1>20, <1>q, <1>c, <1>k DEF AwaitReady, IInv, Pushed, Submits, OnItsWay, WorkerAt,
     WorkersSlot, Replies, HostsSlot, HostAt, RInv, TypeOK, WorkerRegs, HostRegs, Slots
<1>21. CASE ReadRes
  BY <1>21, <1>q, <1>c, <1>k DEF ReadRes, IInv, Pushed, Submits, OnItsWay, WorkerAt,
     WorkersSlot, Replies, HostsSlot, HostAt, RInv, TypeOK, WorkerRegs, HostRegs, Slots
<1>22. CASE HandBack
  BY <1>22, <1>q, <1>c, <1>k DEF HandBack, IInv, Pushed, Submits, OnItsWay, WorkerAt,
     WorkersSlot, Replies, HostsSlot, HostAt, RInv, TypeOK, WorkerRegs, HostRegs, Slots
<1>23. CASE NextPiece
  BY <1>23, <1>q, <1>c, <1>k DEF NextPiece, IInv, Pushed, Submits, OnItsWay, WorkerAt,
     WorkersSlot, Replies, HostsSlot, HostAt, RInv, TypeOK, WorkerRegs, HostRegs, Slots
<1>24. CASE PieceFailed
  BY <1>24, <1>q, <1>c, <1>k DEF PieceFailed, Raise, WorkerIdle, NoTicket, Release,
     IInv, Pushed, Submits, OnItsWay, WorkerAt, WorkersSlot, Replies, HostsSlot, HostAt,
     RInv, TypeOK, WorkerRegs, HostRegs, Slots
<1>25. CASE CollectMore
  BY <1>25, <1>q, <1>c, <1>k DEF CollectMore, IInv, Pushed, Submits, OnItsWay, WorkerAt,
     WorkersSlot, Replies, HostsSlot, HostAt, RInv, TypeOK, WorkerRegs, HostRegs, Slots
<1>26. CASE CollectLast
  BY <1>26, <1>q, <1>c, <1>k DEF CollectLast, WorkerIdle, Release, IInv, Pushed,
     Submits, OnItsWay, WorkerAt, WorkersSlot, Replies, HostsSlot, HostAt, RInv, TypeOK,
     WorkerRegs, HostRegs, Slots
<1>27. CASE CancelStore
  BY <1>27, <1>q, <1>c, <1>k DEF CancelStore, WorkerIdle, IInv, Pushed, Submits,
     OnItsWay, WorkerAt, WorkersSlot, Replies, HostsSlot, HostAt, RInv, TypeOK,
     WorkerRegs, HostRegs, Slots
<1>28. CASE LoopWake
  BY <1>28, <1>q, <1>c, <1>k DEF LoopWake, HostIdle, IInv, Pushed, Submits, OnItsWay,
     WorkerAt, WorkersSlot, Replies, HostsSlot, HostAt, RInv, TypeOK, WorkerRegs,
     HostRegs, Slots
<1>29. CASE SweepSkip
  BY <1>29, <1>q, <1>c, <1>k DEF SweepSkip, SweepNext, HostIdle, IInv, Pushed, Submits,
     OnItsWay, WorkerAt, WorkersSlot, Replies, HostsSlot, HostAt, RInv, TypeOK,
     WorkerRegs, HostRegs, Slots
<1>30. CASE SweepDone
  BY <1>30, <1>q, <1>c, <1>k DEF SweepDone, HostIdle, IInv, Pushed, Submits, OnItsWay,
     WorkerAt, WorkersSlot, Replies, HostsSlot, HostAt, RInv, TypeOK, WorkerRegs,
     HostRegs, Slots
<1>31. CASE Abandon
  BY <1>31, <1>q, <1>c, <1>k DEF Abandon, SweepNext, HostIdle, DetachBoth, IInv, Pushed,
     Submits, OnItsWay, WorkerAt, WorkersSlot, Replies, HostsSlot, HostAt, RInv, TypeOK,
     WorkerRegs, HostRegs, Slots
<1>32. CASE TakeLost
  BY <1>32, <1>q, <1>c, <1>k DEF TakeLost, SweepNext, HostIdle, IInv, Pushed, Submits,
     OnItsWay, WorkerAt, WorkersSlot, Replies, HostsSlot, HostAt, RInv, TypeOK,
     WorkerRegs, HostRegs, Slots
<1>33. CASE TakeContinue
  BY <1>33, <1>q, <1>c, <1>k DEF TakeContinue, Replying, Taken, IInv, Pushed, Submits,
     OnItsWay, WorkerAt, WorkersSlot, Replies, HostsSlot, HostAt, RInv, TypeOK,
     WorkerRegs, HostRegs, Slots
<1>34. CASE TakeDispatch
  BY <1>34, <1>q, <1>c, <1>k DEF TakeDispatch, SweepNext, HostIdle, Taken, Joined, IInv,
     Pushed, Submits, OnItsWay, WorkerAt, WorkersSlot, Replies, HostsSlot, HostAt, RInv,
     TypeOK, WorkerRegs, HostRegs, Slots
<1>35. CASE TakeUnknown
  BY <1>35, <1>q, <1>c, <1>k DEF TakeUnknown, Replying, Taken, IInv, Pushed, Submits,
     OnItsWay, WorkerAt, WorkersSlot, Replies, HostsSlot, HostAt, RInv, TypeOK,
     WorkerRegs, HostRegs, Slots
<1>36. CASE Reply
  BY <1>36, <1>q, <1>c, <1>k DEF Reply, IInv, Pushed, Submits, OnItsWay, WorkerAt,
     WorkersSlot, Replies, HostsSlot, HostAt, RInv, TypeOK, WorkerRegs, HostRegs, Slots
<1>37. CASE WriteStale
  BY <1>37, <1>q, <1>c, <1>k DEF WriteStale, Return, HostIdle, Told, IInv, Pushed,
     Submits, OnItsWay, WorkerAt, WorkersSlot, Replies, HostsSlot, HostAt, RInv, TypeOK,
     WorkerRegs, HostRegs, Slots
<1>38. CASE Write
  BY <1>38, <1>q, <1>c, <1>k DEF Write, FreeBufs, FirstFree, TailOf, IInv, Pushed,
     Submits, OnItsWay, WorkerAt, WorkersSlot, Replies, HostsSlot, HostAt, RInv, TypeOK,
     WorkerRegs, HostRegs, Slots
<1>39. CASE Publish
  BY <1>39, <1>q, <1>c, <1>k DEF Publish, Return, HostIdle, PublishWins, IInv, Pushed,
     Submits, OnItsWay, WorkerAt, WorkersSlot, Replies, HostsSlot, HostAt, RInv, TypeOK,
     WorkerRegs, HostRegs, Slots
<1>40. CASE PublishLost
  BY <1>40, <1>q, <1>c, <1>k DEF PublishLost, Return, HostIdle, PublishWins, IInv,
     Pushed, Submits, OnItsWay, WorkerAt, WorkersSlot, Replies, HostsSlot, HostAt, RInv,
     TypeOK, WorkerRegs, HostRegs, Slots
<1>41. ASSUME NEW k \in handlers, Complete(k) PROVE Pushed(a, s)'
  BY <1>41, <1>q, <1>c, <1>k DEF Complete, HostIdle, StillOurs, IInv, Pushed, Submits,
     OnItsWay, WorkerAt, WorkersSlot, Replies, HostsSlot, HostAt, RInv, TypeOK,
     WorkerRegs, HostRegs, Slots
<1>f. CASE UNCHANGED <<w, status, op, partial, reqBuf, reqMem, h, shape>>  BY <1>f, <1>c DEF TInv, RInv, Pushed, Submits, OnItsWay, Replies
<1>p. CASE Program
  BY <1>p, <1>13, <1>14, <1>15, <1>16, <1>17
  DEF Program
<1>w. CASE Worker
  BY <1>w, <1>18, <1>1, <1>2, <1>19, <1>3, <1>4, <1>5, <1>20, <1>21, <1>22, <1>23,
     <1>24, <1>25, <1>26, <1>27, <1>6
  DEF Worker, Wake
<1>h. CASE Host
  BY <1>h, <1>28, <1>29, <1>30, <1>31, <1>7, <1>32, <1>33, <1>8, <1>34, <1>35, <1>36,
     <1>37, <1>38, <1>39, <1>40, <1>9, <1>10, <1>11
  DEF Host
<1>t. CASE Timeout  BY <1>t, <1>2 DEF Timeout
<1>d. CASE HandlerDone  BY <1>d, <1>41 DEF HandlerDone
<1>s. CASE Stop  BY <1>s, <1>12
<1>. QED  BY <1>p, <1>w, <1>h, <1>t, <1>d, <1>s DEF Next

\* The last piece is dispatched with the ones before it; a tail waits for OP_CONTINUE.
LEMMA AskedStep == ASSUME IInv, TInv, RInv, AInv, Quiet, Quiet', Next, NEW a \in Calls, NEW s \in Slots,
           Holds(a, s), Holds(a, s)' PROVE Asked(a, s)'
<1> USE DEF reqPool, resArea, program, tables
<1>a. TypeOK  BY DEF IInv
<1>q. /\ ~hostGone /\ ~hostGone' /\ "PENDING" \notin CancelFrom
      /\ h.pc # "fail" /\ h.ret # "fail"
  BY DEF Quiet, TInv, StopAt
<1>c. Pushed(a, s) /\ Asked(a, s) /\ Told(a, s)  BY DEF AInv, Contents
<1>k. /\ a \in Given /\ a \in 0 .. MaxCalls /\ Len(shape) \in Nat
      /\ shape[a].pieces \in Nat /\ shape[a].pieces >= 1 /\ shape[a].len \in Nat
      /\ shape[a].op \in {"cap", "nocap"} /\ shape[a].status \in {"OK", "ERR"}
      /\ status[s] \notin {"FREE", "CANCELLED"} /\ ~(w.pc = "cancel" /\ w.slot = s)
      /\ w.fn = "collect" => (w.slot = s <=> w.call = a)
      /\ w.fn = "submit" /\ w.loop # "claim" => (w.slot = s <=> w.call = a)
      /\ w.fn = "submit" /\ w.loop = "claim" => w.call # a
  BY Held
<1>e. \A m \in Nat : Piece(a, m, m) = <<>>  BY <1>k, PieceFacts
<1>1. ASSUME NEW sh \in Shapes, Submit(sh) PROVE Asked(a, s)'
  <2>1. /\ w.pc = "idle" /\ w.fn = "none" /\ shape' = Append(shape, sh)
        /\ w'.fn = "submit" /\ w'.loop = "claim" /\ w'.call = Len(shape) + 1 /\ w'.pc = "seen"
        /\ UNCHANGED <<status, gen, op, reqPool, resArea, hostGone, ticket, h, tables>>
    BY <1>1 DEF Submit, WorkerIdle, IInv, WorkerAt
  <2>2. shape'[a] = shape[a] /\ a # Len(shape) + 1  BY <1>a, <1>k, <2>1 DEF TypeOK, Given
  <2>3. ~Submits(a) /\ ~Submits(a)' /\ Got(a) = 0 /\ Got(a)' = 0
    BY <2>1, <2>2 DEF Submits, Got
  <2>. QED  BY <1>c, <2>1, <2>2, <2>3 DEF Asked, OnItsWay, Replies
<1>2. ASSUME NEW c \in Calls, CancelReady(c) PROVE Asked(a, s)'
  <2>1. ticket[c].slot \in Slots  BY <1>2, <1>a, LiveSlot DEF CancelReady
  <2>2. /\ gen' = [gen EXCEPT ![ticket[c].slot] = @ + 1] /\ status' = [status EXCEPT ![ticket[c].slot] = "FREE"]
        /\ resBuf' = [resBuf EXCEPT ![ticket[c].slot] = 0]
        /\ UNCHANGED <<op, reqPool, resMem, resStatus, inline, hostGone, shape, h, tables>>
    BY <1>2 DEF CancelReady, Release
  <2>3. ticket'[a] = ticket[a] \/ ticket'[a] = NoTicket  BY <1>2 DEF CancelReady
  <2>4. s # ticket[c].slot  BY <1>a, <2>1, <2>2, <2>3, StillHeld
  <2>5. status'[s] = status[s] /\ resBuf'[s] = resBuf[s]  BY <1>a, <2>1, <2>2, <2>4 DEF TypeOK
  <2>6. w' = w /\ w.fn = "none"  BY <1>2 DEF CancelReady, IInv, WorkerAt
  <2>7. ~Submits(a) /\ ~Submits(a)' /\ Got(a) = 0 /\ Got(a)' = 0
    BY <1>k, <2>4, <2>6 DEF Submits, Got, WorkerIdle
  <2>. QED  BY <1>c, <1>k, <2>2, <2>4, <2>5, <2>6, <2>7 DEF Asked, OnItsWay, Replies
<1>3. CASE Park
  <2>1. CASE hostGone /\ Raise
    BY <1>3, <2>1, <1>a, RaiseEffect, ParkEffect, <1>q, <1>c, <1>k DEF IInv, Asked, Submits, Got, OnItsWay, WorkerAt, WorkersSlot, Replies, HostsSlot, HostAt
  <2>2. CASE ~hostGone /\ GoesOn /\ w'.slot = w.slot /\ w'.pc \in {"parked", "seen"}
    BY <1>3, <2>2, <1>a, ParkEffect, <1>q, <1>c, <1>k DEF GoesOn, IInv, Asked, Submits, Got, OnItsWay, WorkerAt, WorkersSlot, Replies, HostsSlot, HostAt
  <2>. QED  BY <1>3, <2>1, <2>2, <1>a, ParkEffect
<1>4. ASSUME NEW timeout \in BOOLEAN, Unpark(timeout) PROVE Asked(a, s)'
  <2>1. CASE hostGone /\ Raise
    BY <1>4, <2>1, <1>a, RaiseEffect, ParkEffect, <1>q, <1>c, <1>k DEF IInv, Asked, Submits, Got, OnItsWay, WorkerAt, WorkersSlot, Replies, HostsSlot, HostAt
  <2>2. CASE ~hostGone /\ GoesOn /\ w'.slot = w.slot /\ w'.pc \in {"parked", "seen"}
    BY <1>4, <2>2, <1>a, ParkEffect, <1>q, <1>c, <1>k DEF GoesOn, IInv, Asked, Submits, Got, OnItsWay, WorkerAt, WorkersSlot, Replies, HostsSlot, HostAt
  <2>. QED  BY <1>4, <2>1, <2>2, <1>a, ParkEffect
<1>5. CASE ClaimNext
  <2>0. /\ w.pc = "claim"
        /\ UNCHANGED <<status, gen, op, reqPool, resArea, hostGone, shape, h, tables>>
    BY <1>5, <1>a, ClaimEffect
  <2>1. CASE Raise
    BY <2>0, <2>1, <1>a, RaiseEffect, <1>q, <1>c, <1>k DEF IInv, Asked, Submits, Got, OnItsWay, WorkerAt, WorkersSlot, Replies, HostsSlot, HostAt
  <2>2. CASE GoesOn /\ w'.pc \in {"claim", "park"}
    BY <2>0, <2>2, <1>q, <1>c, <1>k DEF GoesOn, IInv, Asked, Submits, Got, OnItsWay, WorkerAt, WorkersSlot, Replies, HostsSlot, HostAt
  <2>. QED  BY <1>5, <2>1, <2>2, <1>a, ClaimEffect
<1>6. CASE TakeReqBuf
  BY <1>6, <1>a, TakeReqBufEffect, <1>q, <1>c, <1>k DEF IInv, Asked, Submits, Got, OnItsWay, WorkerAt, WorkersSlot, Replies, HostsSlot, HostAt
<1>7. CASE PublishPiece
  <2>1. /\ w.pc = "fill" /\ w.loop = "reqbuf" /\ w.fn = "submit" /\ w.slot \in Slots
        /\ w.buf \in Bufs /\ w.sent \in Nat /\ status[w.slot] \in {"CLAIMED", "READY"}
    BY <1>7, <1>a DEF PublishPiece, IInv, WorkerAt, WorkersSlot, TypeOK, WorkerRegs
  <2>2. /\ op' = [op EXCEPT ![w.slot] = IF w.sent + 1 = shape[w.call].pieces
                                        THEN shape[w.call].op ELSE "PUSH"]
        /\ reqMem' = [reqMem EXCEPT ![w.buf] = << <<w.call, w.sent + 1>> >>]
        /\ reqBuf' = [reqBuf EXCEPT ![w.slot] = w.buf]
        /\ status' = [status EXCEPT ![w.slot] = "PENDING"]
        /\ UNCHANGED <<gen, resArea, hostGone, program, h, tables>>
        /\ w' = IF w.sent + 1 = shape[w.call].pieces THEN WorkerIdle
                ELSE [w EXCEPT !.pc = "seen", !.loop = "await", !.sent = @ + 1, !.buf = 0]
    BY <1>7 DEF PublishPiece
  <2>3. /\ op'[w.slot] = IF w.sent + 1 = shape[w.call].pieces THEN shape[w.call].op ELSE "PUSH"
        /\ reqMem'[w.buf] = << <<w.call, w.sent + 1>> >> /\ reqBuf'[w.slot] = w.buf
        /\ status'[w.slot] = "PENDING"
    BY <1>a, <2>1, <2>2 DEF TypeOK
  <2>4. ~(h.pc = "taken" /\ h.slot = w.slot) /\ ~(Replies /\ h.slot = w.slot)
    BY <2>1 DEF RInv, HostsSlot
  <2>5. w.slot # s =>
           /\ op'[s] = op[s] /\ reqBuf'[s] = reqBuf[s] /\ status'[s] = status[s]
           /\ reqBuf[s] # 0 => reqMem'[reqBuf[s]] = reqMem[reqBuf[s]]
    <3>1. w.slot # s => op'[s] = op[s] /\ reqBuf'[s] = reqBuf[s] /\ status'[s] = status[s]
      BY <1>a, <2>1, <2>2 DEF TypeOK
    <3>2. reqBuf[s] # w.buf /\ (reqBuf[s] # 0 => reqBuf[s] \in Bufs)
      BY <1>a, <2>1 DEF IInv, ReqPoolExact, TypeOK, Bufs
    <3>. QED  BY <1>a, <2>1, <2>2, <3>1, <3>2 DEF TypeOK
  <2>6. CASE w.sent + 1 = shape[w.call].pieces
    <3>1. w' = WorkerIdle  BY <2>2, <2>6
    <3>2. CASE w.slot # s
      <4>1. ~Submits(a) /\ ~Submits(a)' /\ Got(a) = 0 /\ Got(a)' = 0
        BY <1>k, <2>1, <3>1, <3>2 DEF Submits, Got, WorkerIdle
      <4>2. \A p : OnItsWay(s, p) => OnItsWay(s, p)'  BY <2>2, <2>5, <3>2 DEF OnItsWay
      <4>. QED  BY <1>c, <2>1, <2>2, <2>5, <3>2, <4>1, <4>2 DEF Asked, Replies, OnItsWay
    <3>3. CASE w.slot = s
      <4>1. w.call = a /\ w.sent < shape[a].pieces /\ partial[s] = Piece(a, 0, w.sent)
        BY <1>c, <1>k, <2>1, <3>3 DEF Pushed, Submits
      <4>2. shape[a].pieces - 1 = w.sent /\ shape[a].op # "CONTINUE"  BY <1>k, <2>1, <2>6, <4>1
      <4>3. << <<a, w.sent + 1>> >> = Piece(a, w.sent, w.sent + 1)  BY <1>k, <2>1, PieceFacts
      <4>4. /\ reqMem'[reqBuf'[s]] = Piece(a, w.sent, shape[a].pieces)
            /\ ~(h'.pc = "taken" /\ h'.slot = s)
        BY <2>2, <2>3, <2>4, <2>6, <3>3, <4>1, <4>3
      <4>5. ~Submits(a)' /\ Got(a)' = 0  BY <3>1 DEF Submits, Got, WorkerIdle
      <4>6. status'[s] = "PENDING" /\ op'[s] = shape[a].op  BY <2>3, <2>6, <3>3, <4>1
      <4>. QED  BY <2>2, <4>1, <4>2, <4>4, <4>5, <4>6 DEF Asked, OnItsWay
    <3>. QED  BY <3>2, <3>3
  <2>7. CASE w.sent + 1 # shape[w.call].pieces
    <3>1. /\ w'.fn = "submit" /\ w'.call = w.call /\ w'.loop = "await" /\ w'.sent = w.sent + 1
          /\ w'.slot = w.slot /\ w'.pc = "seen" /\ w'.got = w.got
      BY <1>a, <2>1, <2>2, <2>7 DEF TypeOK, WorkerRegs
    <3>2. CASE w.slot # s
      <4>1. ~Submits(a) /\ ~Submits(a)' /\ Got(a) = 0 /\ Got(a)' = 0
        BY <1>k, <2>1, <3>1, <3>2 DEF Submits, Got
      <4>2. \A p : OnItsWay(s, p) => OnItsWay(s, p)'  BY <2>2, <2>5, <3>2 DEF OnItsWay
      <4>. QED  BY <1>c, <2>1, <2>2, <2>5, <3>2, <4>1, <4>2 DEF Asked, Replies, OnItsWay
    <3>3. CASE w.slot = s  BY <1>k, <2>1, <3>1, <3>3 DEF Asked, Submits
    <3>. QED  BY <3>2, <3>3
  <2>. QED  BY <2>6, <2>7
<1>8. CASE PieceFailed
  <2>1. w.slot \in Slots  BY <1>8 DEF PieceFailed, IInv, WorkerAt
  <2>2. /\ gen' = [gen EXCEPT ![w.slot] = @ + 1] /\ status' = [status EXCEPT ![w.slot] = "FREE"]
        /\ resBuf' = [resBuf EXCEPT ![w.slot] = 0]
        /\ UNCHANGED <<op, reqPool, resMem, resStatus, inline, hostGone, shape, h, tables>>
    BY <1>8 DEF PieceFailed, Release
  <2>3. ticket'[a] = ticket[a] \/ ticket'[a] = NoTicket  BY <1>8, <1>a, RaiseEffect DEF PieceFailed
  <2>4. s # w.slot  BY <1>a, <2>1, <2>2, <2>3, StillHeld
  <2>5. status'[s] = status[s] /\ resBuf'[s] = resBuf[s]  BY <1>a, <2>1, <2>2, <2>4 DEF TypeOK
  <2>6. w' = WorkerIdle /\ w.fn = "submit" /\ w.loop = "await"  BY <1>8, <1>a, RaiseEffect DEF PieceFailed, IInv, WorkerAt
  <2>7. ~Submits(a) /\ ~Submits(a)' /\ Got(a) = 0 /\ Got(a)' = 0
    BY <1>k, <2>4, <2>6 DEF Submits, Got, WorkerIdle
  <2>. QED  BY <1>c, <1>k, <2>2, <2>4, <2>5, <2>6, <2>7 DEF Asked, OnItsWay, Replies
<1>9. CASE CollectMore
  <2>1. /\ w.pc = "decide" /\ w.fn = "collect" /\ w.status = "MORE" /\ w.slot \in Slots
        /\ status[w.slot] = "READY"
        /\ op' = [op EXCEPT ![w.slot] = "CONTINUE"] /\ status' = [status EXCEPT ![w.slot] = "PENDING"]
        /\ UNCHANGED <<gen, reqPool, resArea, hostGone, program, h, tables>>
        /\ w'.fn = w.fn /\ w'.call = w.call /\ w'.got = w.got \o w.bytes
    BY <1>9, <1>a DEF CollectMore, IInv, WorkerAt, WorkersSlot, TypeOK, WorkerRegs
  <2>2. CASE w.slot # s
    <3>1. op'[s] = op[s] /\ status'[s] = status[s]  BY <1>a, <2>1, <2>2 DEF TypeOK
    <3>2. (Submits(a)' <=> Submits(a)) /\ Got(a) = 0 /\ Got(a)' = 0
      BY <1>k, <2>1, <2>2 DEF Submits, Got
    <3>. QED  BY <1>c, <2>1, <3>1, <3>2 DEF Asked, Replies, OnItsWay
  <2>3. CASE w.slot = s
    <3>1. w.call = a /\ ~Submits(a) /\ partial[s] = <<>>  BY <1>c, <1>k, <2>1, <2>3 DEF Asked, Submits
    <3>2. Says(a, s, "MORE", w.bytes)  BY <2>1, <2>3, <3>1 DEF AInv, Read
    <3>3. w.got = Piece(a, 0, Len(w.got)) /\ Got(a) = Len(w.got) /\ Len(w.got) \in Nat
      BY <1>a, <2>1, <3>1 DEF AInv, Read, Got, TypeOK, WorkerRegs, Payloads
    <3>4. PICK n \in Got(a) .. shape[a].len :
             /\ w.bytes = Piece(a, Got(a), n) /\ pending[s] = Piece(a, n, shape[a].len)
             /\ finalStatus[s] = shape[a].status /\ shape[a].op = "cap"
      BY <1>k, <3>1, <3>2 DEF Says
    <3>5. n \in Nat /\ Len(w.got) <= n /\ 0 <= Len(w.got) /\ n <= shape[a].len  BY <1>k, <3>3, <3>4
    <3>6. w'.got = Piece(a, 0, n)
      <4>1. Piece(a, 0, Len(w.got)) \o Piece(a, Len(w.got), n) = Piece(a, 0, n)
        BY <1>k, <3>3, <3>5, PieceJoin
      <4>. QED  BY <2>1, <3>3, <3>4, <4>1
    <3>7. Len(w'.got) = n
      <4>1. 0 <= n /\ n - 0 = n  BY <3>5
      <4>2. Len(Piece(a, 0, n)) = n - 0  BY <1>k, <3>5, <4>1, PieceIs
      <4>. QED  BY <3>6, <4>1, <4>2
    <3>8. ~Submits(a)' /\ Got(a)' = n  BY <2>1, <3>1, <3>7 DEF Submits, Got
    <3>9. op'[s] = "CONTINUE" /\ status'[s] = "PENDING"  BY <1>a, <2>1, <2>3 DEF TypeOK
    <3>. QED  BY <2>1, <3>1, <3>4, <3>5, <3>8, <3>9 DEF Asked
  <2>. QED  BY <2>2, <2>3
<1>10. CASE CollectLast
  <2>1. w.slot \in Slots  BY <1>10 DEF CollectLast, IInv, WorkerAt
  <2>2. /\ gen' = [gen EXCEPT ![w.slot] = @ + 1] /\ status' = [status EXCEPT ![w.slot] = "FREE"]
        /\ resBuf' = [resBuf EXCEPT ![w.slot] = 0]
        /\ UNCHANGED <<op, reqPool, resMem, resStatus, inline, hostGone, shape, h, tables>>
    BY <1>10 DEF CollectLast, Release
  <2>3. ticket'[a] = ticket[a] \/ ticket'[a] = NoTicket  BY <1>10 DEF CollectLast
  <2>4. s # w.slot  BY <1>a, <2>1, <2>2, <2>3, StillHeld
  <2>5. status'[s] = status[s] /\ resBuf'[s] = resBuf[s]  BY <1>a, <2>1, <2>2, <2>4 DEF TypeOK
  <2>6. w' = WorkerIdle /\ w.fn = "collect"  BY <1>10 DEF CollectLast, IInv, WorkerAt
  <2>7. ~Submits(a) /\ ~Submits(a)' /\ Got(a) = 0 /\ Got(a)' = 0
    BY <1>k, <2>4, <2>6 DEF Submits, Got, WorkerIdle
  <2>. QED  BY <1>c, <1>k, <2>2, <2>4, <2>5, <2>6, <2>7 DEF Asked, OnItsWay, Replies
<1>11. CASE WaitScan
  <2>1. w.fn = "waitAny"  BY <1>11, <1>a DEF WaitScan, IInv, WorkerAt, TypeOK, WorkerRegs
  <2>2. /\ w'.fn \notin {"submit", "collect"} /\ w'.pc \notin {"handback", "decide"}
        /\ w'.loop \notin {"claim", "reqbuf", "await"}
        /\ UNCHANGED <<status, gen, op, reqPool, resArea, hostGone, program, h, tables>>
    <3>1. /\ w' = WorkerIdle \/ w' = [w EXCEPT !.pc = "park"]
          /\ UNCHANGED <<status, gen, op, reqPool, resArea, hostGone, program, h, tables>>
      BY <1>11 DEF WaitScan
    <3>2. CASE w' = WorkerIdle  BY <3>1, <3>2 DEF WorkerIdle
    <3>3. CASE w' = [w EXCEPT !.pc = "park"]
      <4>1. w.loop = "waitAny" /\ w'.fn = w.fn /\ w'.loop = w.loop /\ w'.pc = "park"
        BY <1>a, <2>1, <3>3 DEF TypeOK, WorkerRegs, IInv, WorkerAt
      <4>. QED  BY <2>1, <3>1, <4>1
    <3>. QED  BY <3>1, <3>2, <3>3
  <2>. QED  BY <1>c, <2>1, <2>2 DEF Asked, Submits, Got, OnItsWay, Replies
<1>12. CASE Take
  <2>1. /\ h.pc = "sweep" /\ h.slot \in Slots /\ status[h.slot] = "PENDING"
        /\ reqBuf' = [reqBuf EXCEPT ![h.slot] = 0] /\ h'.pc = "taken" /\ h'.slot = h.slot
        /\ h'.payload = IF reqBuf[h.slot] = 0 THEN <<>> ELSE reqMem[reqBuf[h.slot]]
        /\ UNCHANGED <<status, gen, op, reqMem, resArea, hostGone, w, program, tables>>
    BY <1>12, <1>a DEF Take, IInv, HostAt, TypeOK, HostRegs, Slots
  <2>2. op[h.slot] # "CONTINUE" => reqBuf[h.slot] # 0  BY <2>1 DEF IInv, RequestAttached
  <2>3. \A p : op[s] # "CONTINUE" /\ OnItsWay(s, p) => OnItsWay(s, p)'
    BY <1>a, <2>1, <2>2 DEF OnItsWay, TypeOK
  <2>. QED  BY <1>c, <2>1, <2>3 DEF Asked, Submits, Got, OnItsWay, Replies
<1>13. CASE Write
  <2>1. h.pc = "write" /\ h.slot \in Slots /\ status[h.slot] \in {"RUNNING", "CANCELLED"}
    BY <1>13, WriteEffect DEF IInv, HostAt, RInv, HostsSlot, Replies
  <2>2. /\ h'.pc = "publish" /\ h'.slot = h.slot /\ h'.payload = h.payload
        /\ UNCHANGED <<status, op, reqPool, w, program, partial>>
    BY <1>13, <1>a, WriteEffect DEF TypeOK, HostRegs
  <2>3. status[s] = "PENDING" => pending'[s] = pending[s] /\ finalStatus'[s] = finalStatus[s]
    BY <1>13, <1>a, <2>1, WriteEffect DEF TypeOK
  <2>. QED  BY <1>c, <2>1, <2>2, <2>3 DEF Asked, Submits, Got, OnItsWay, Replies
<1>14. CASE FailSkip
  BY <1>14, <1>q DEF FailSkip
<1>15. CASE FailSlot
  BY <1>15, <1>q DEF FailSlot
<1>16. CASE FailDone
  BY <1>16, <1>q DEF FailDone
<1>17. CASE Stop
  BY <1>17, <1>q DEF Stop
<1>18. ASSUME NEW c \in Calls, Collect(c) PROVE Asked(a, s)'
  BY <1>18, <1>q, <1>c, <1>k DEF Collect, WorkerIdle, Live, IInv, Asked, Submits, Got,
     OnItsWay, WorkerAt, WorkersSlot, Replies, HostsSlot, HostAt, RInv, TypeOK,
     WorkerRegs, HostRegs, Slots
<1>19. ASSUME NEW c \in Calls, CancelBump(c) PROVE Asked(a, s)'
  BY <1>19, <1>q, <1>c, <1>k DEF CancelBump, WorkerIdle, Live, IInv, Asked, Submits,
     Got, OnItsWay, WorkerAt, WorkersSlot, Replies, HostsSlot, HostAt, RInv, TypeOK,
     WorkerRegs, HostRegs, Slots
<1>20. ASSUME NEW set \in SUBSET Calls, NEW timed \in BOOLEAN, WaitAny(set, timed) PROVE
      Asked(a, s)'
  BY <1>20, <1>q, <1>c, <1>k DEF WaitAny, WorkerIdle, IInv, Asked, Submits, Got,
     OnItsWay, WorkerAt, WorkersSlot, Replies, HostsSlot, HostAt, RInv, TypeOK,
     WorkerRegs, HostRegs, Slots
<1>21. CASE Look
  BY <1>21, <1>q, <1>c, <1>k DEF Look, IInv, Asked, Submits, Got, OnItsWay, WorkerAt,
     WorkersSlot, Replies, HostsSlot, HostAt, RInv, TypeOK, WorkerRegs, HostRegs, Slots
<1>22. CASE ClaimSlot
  BY <1>22, <1>q, <1>c, <1>k DEF ClaimSlot, IInv, Asked, Submits, Got, OnItsWay,
     WorkerAt, WorkersSlot, Replies, HostsSlot, HostAt, RInv, TypeOK, WorkerRegs,
     HostRegs, Slots
<1>23. CASE AwaitReady
  BY <1>23, <1>q, <1>c, <1>k DEF AwaitReady, IInv, Asked, Submits, Got, OnItsWay,
     WorkerAt, WorkersSlot, Replies, HostsSlot, HostAt, RInv, TypeOK, WorkerRegs,
     HostRegs, Slots
<1>24. CASE ReadRes
  BY <1>24, <1>q, <1>c, <1>k DEF ReadRes, IInv, Asked, Submits, Got, OnItsWay, WorkerAt,
     WorkersSlot, Replies, HostsSlot, HostAt, RInv, TypeOK, WorkerRegs, HostRegs, Slots
<1>25. CASE HandBack
  BY <1>25, <1>q, <1>c, <1>k DEF HandBack, IInv, Asked, Submits, Got, OnItsWay,
     WorkerAt, WorkersSlot, Replies, HostsSlot, HostAt, RInv, TypeOK, WorkerRegs,
     HostRegs, Slots
<1>26. CASE NextPiece
  BY <1>26, <1>q, <1>c, <1>k DEF NextPiece, IInv, Asked, Submits, Got, OnItsWay,
     WorkerAt, WorkersSlot, Replies, HostsSlot, HostAt, RInv, TypeOK, WorkerRegs,
     HostRegs, Slots
<1>27. CASE CancelStore
  BY <1>27, <1>q, <1>c, <1>k DEF CancelStore, WorkerIdle, IInv, Asked, Submits, Got,
     OnItsWay, WorkerAt, WorkersSlot, Replies, HostsSlot, HostAt, RInv, TypeOK,
     WorkerRegs, HostRegs, Slots
<1>28. CASE LoopWake
  BY <1>28, <1>q, <1>c, <1>k DEF LoopWake, HostIdle, IInv, Asked, Submits, Got,
     OnItsWay, WorkerAt, WorkersSlot, Replies, HostsSlot, HostAt, RInv, TypeOK,
     WorkerRegs, HostRegs, Slots
<1>29. CASE SweepSkip
  BY <1>29, <1>q, <1>c, <1>k DEF SweepSkip, SweepNext, HostIdle, IInv, Asked, Submits,
     Got, OnItsWay, WorkerAt, WorkersSlot, Replies, HostsSlot, HostAt, RInv, TypeOK,
     WorkerRegs, HostRegs, Slots
<1>30. CASE SweepDone
  BY <1>30, <1>q, <1>c, <1>k DEF SweepDone, HostIdle, IInv, Asked, Submits, Got,
     OnItsWay, WorkerAt, WorkersSlot, Replies, HostsSlot, HostAt, RInv, TypeOK,
     WorkerRegs, HostRegs, Slots
<1>31. CASE Abandon
  BY <1>31, <1>q, <1>c, <1>k DEF Abandon, SweepNext, HostIdle, DetachBoth, IInv, Asked,
     Submits, Got, OnItsWay, WorkerAt, WorkersSlot, Replies, HostsSlot, HostAt, RInv,
     TypeOK, WorkerRegs, HostRegs, Slots
<1>32. CASE TakeLost
  BY <1>32, <1>q, <1>c, <1>k DEF TakeLost, SweepNext, HostIdle, IInv, Asked, Submits,
     Got, OnItsWay, WorkerAt, WorkersSlot, Replies, HostsSlot, HostAt, RInv, TypeOK,
     WorkerRegs, HostRegs, Slots
<1>33. CASE TakeContinue
  BY <1>33, <1>q, <1>c, <1>k DEF TakeContinue, Replying, Taken, IInv, Asked, Submits,
     Got, OnItsWay, WorkerAt, WorkersSlot, Replies, HostsSlot, HostAt, RInv, TypeOK,
     WorkerRegs, HostRegs, Slots
<1>34. CASE TakePush
  BY <1>34, <1>q, <1>c, <1>k DEF TakePush, Replying, Taken, IInv, Asked, Submits, Got,
     OnItsWay, WorkerAt, WorkersSlot, Replies, HostsSlot, HostAt, RInv, TypeOK,
     WorkerRegs, HostRegs, Slots
<1>35. CASE TakeDispatch
  BY <1>35, <1>q, <1>c, <1>k DEF TakeDispatch, SweepNext, HostIdle, Taken, Joined, IInv,
     Asked, Submits, Got, OnItsWay, WorkerAt, WorkersSlot, Replies, HostsSlot, HostAt,
     RInv, TypeOK, WorkerRegs, HostRegs, Slots
<1>36. CASE TakeUnknown
  BY <1>36, <1>q, <1>c, <1>k DEF TakeUnknown, Replying, Taken, IInv, Asked, Submits,
     Got, OnItsWay, WorkerAt, WorkersSlot, Replies, HostsSlot, HostAt, RInv, TypeOK,
     WorkerRegs, HostRegs, Slots
<1>37. CASE Reply
  BY <1>37, <1>q, <1>c, <1>k DEF Reply, IInv, Asked, Submits, Got, OnItsWay, WorkerAt,
     WorkersSlot, Replies, HostsSlot, HostAt, RInv, TypeOK, WorkerRegs, HostRegs, Slots
<1>38. CASE WriteStale
  BY <1>38, <1>q, <1>c, <1>k DEF WriteStale, Return, HostIdle, Told, IInv, Asked,
     Submits, Got, OnItsWay, WorkerAt, WorkersSlot, Replies, HostsSlot, HostAt, RInv,
     TypeOK, WorkerRegs, HostRegs, Slots
<1>39. CASE Publish
  BY <1>39, <1>q, <1>c, <1>k DEF Publish, Return, HostIdle, PublishWins, IInv, Asked,
     Submits, Got, OnItsWay, WorkerAt, WorkersSlot, Replies, HostsSlot, HostAt, RInv,
     TypeOK, WorkerRegs, HostRegs, Slots
<1>40. CASE PublishLost
  BY <1>40, <1>q, <1>c, <1>k DEF PublishLost, Return, HostIdle, PublishWins, IInv,
     Asked, Submits, Got, OnItsWay, WorkerAt, WorkersSlot, Replies, HostsSlot, HostAt,
     RInv, TypeOK, WorkerRegs, HostRegs, Slots
<1>41. ASSUME NEW k \in handlers, Complete(k) PROVE Asked(a, s)'
  BY <1>41, <1>q, <1>c, <1>k DEF Complete, HostIdle, StillOurs, IInv, Asked, Submits,
     Got, OnItsWay, WorkerAt, WorkersSlot, Replies, HostsSlot, HostAt, RInv, TypeOK,
     WorkerRegs, HostRegs, Slots
<1>f. CASE UNCHANGED <<w, status, op, partial, reqBuf, reqMem, pending, finalStatus, h, shape>>  BY <1>f, <1>c DEF TInv, RInv, Asked, Submits, Got, OnItsWay, Replies
<1>p. CASE Program
  BY <1>p, <1>1, <1>18, <1>2, <1>19, <1>20
  DEF Program
<1>w. CASE Worker
  BY <1>w, <1>21, <1>3, <1>4, <1>22, <1>5, <1>6, <1>7, <1>23, <1>24, <1>25, <1>26, <1>8,
     <1>9, <1>10, <1>27, <1>11
  DEF Worker, Wake
<1>h. CASE Host
  BY <1>h, <1>28, <1>29, <1>30, <1>31, <1>12, <1>32, <1>33, <1>34, <1>35, <1>36, <1>37,
     <1>38, <1>13, <1>39, <1>40, <1>14, <1>15, <1>16
  DEF Host
<1>t. CASE Timeout  BY <1>t, <1>4 DEF Timeout
<1>d. CASE HandlerDone  BY <1>d, <1>41 DEF HandlerDone
<1>s. CASE Stop  BY <1>s, <1>17
<1>. QED  BY <1>p, <1>w, <1>h, <1>t, <1>d, <1>s DEF Next

\* write cuts an answer where it stops fitting and keeps the rest; publish changes none.
LEMMA ToldStep == ASSUME IInv, TInv, RInv, AInv, Quiet, Quiet', Next, NEW a \in Calls, NEW s \in Slots,
           Holds(a, s), Holds(a, s)' PROVE Told(a, s)'
<1> USE DEF reqPool, resArea, program, tables
<1>a. TypeOK  BY DEF IInv
<1>q. /\ ~hostGone /\ ~hostGone' /\ "PENDING" \notin CancelFrom
      /\ h.pc # "fail" /\ h.ret # "fail"
  BY DEF Quiet, TInv, StopAt
<1>c. Pushed(a, s) /\ Asked(a, s) /\ Told(a, s)  BY DEF AInv, Contents
<1>k. /\ a \in Given /\ a \in 0 .. MaxCalls /\ Len(shape) \in Nat
      /\ shape[a].pieces \in Nat /\ shape[a].pieces >= 1 /\ shape[a].len \in Nat
      /\ shape[a].op \in {"cap", "nocap"} /\ shape[a].status \in {"OK", "ERR"}
      /\ status[s] \notin {"FREE", "CANCELLED"} /\ ~(w.pc = "cancel" /\ w.slot = s)
      /\ w.fn = "collect" => (w.slot = s <=> w.call = a)
      /\ w.fn = "submit" /\ w.loop # "claim" => (w.slot = s <=> w.call = a)
      /\ w.fn = "submit" /\ w.loop = "claim" => w.call # a
  BY Held
<1>e. \A m \in Nat : Piece(a, m, m) = <<>>  BY <1>k, PieceFacts
<1>1. ASSUME NEW sh \in Shapes, Submit(sh) PROVE Told(a, s)'
  <2>1. /\ w.pc = "idle" /\ w.fn = "none" /\ shape' = Append(shape, sh)
        /\ w'.fn = "submit" /\ w'.loop = "claim" /\ w'.call = Len(shape) + 1 /\ w'.pc = "seen"
        /\ UNCHANGED <<status, gen, op, reqPool, resArea, hostGone, ticket, h, tables>>
    BY <1>1 DEF Submit, WorkerIdle, IInv, WorkerAt
  <2>2. shape'[a] = shape[a] /\ a # Len(shape) + 1  BY <1>a, <1>k, <2>1 DEF TypeOK, Given
  <2>3. ~Submits(a) /\ ~Submits(a)' /\ Got(a) = 0 /\ Got(a)' = 0
    BY <2>1, <2>2 DEF Submits, Got
  <2>4. ~Spent(s)  BY <2>1 DEF Spent, IInv, WorkerAt
  <2>5. Bytes(s)' = Bytes(s)  BY <2>1 DEF Bytes
  <2>. QED  BY <1>c, <2>1, <2>2, <2>3, <2>4, <2>5, ToldKept
<1>2. ASSUME NEW c \in Calls, CancelReady(c) PROVE Told(a, s)'
  <2>1. ticket[c].slot \in Slots  BY <1>2, <1>a, LiveSlot DEF CancelReady
  <2>2. /\ gen' = [gen EXCEPT ![ticket[c].slot] = @ + 1] /\ status' = [status EXCEPT ![ticket[c].slot] = "FREE"]
        /\ resBuf' = [resBuf EXCEPT ![ticket[c].slot] = 0]
        /\ UNCHANGED <<op, reqPool, resMem, resStatus, inline, hostGone, shape, h, tables>>
    BY <1>2 DEF CancelReady, Release
  <2>3. ticket'[a] = ticket[a] \/ ticket'[a] = NoTicket  BY <1>2 DEF CancelReady
  <2>4. s # ticket[c].slot  BY <1>a, <2>1, <2>2, <2>3, StillHeld
  <2>5. status'[s] = status[s] /\ resBuf'[s] = resBuf[s]  BY <1>a, <2>1, <2>2, <2>4 DEF TypeOK
  <2>6. w' = w /\ w.fn = "none"  BY <1>2 DEF CancelReady, IInv, WorkerAt
  <2>7. ~Submits(a) /\ ~Submits(a)' /\ Got(a) = 0 /\ Got(a)' = 0
    BY <1>k, <2>4, <2>6 DEF Submits, Got, WorkerIdle
  <2>8. gen'[s] = gen[s]  BY <1>a, <2>1, <2>2, <2>4 DEF TypeOK
  <2>9. Bytes(s)' = Bytes(s)  BY <2>2, <2>5 DEF Bytes
  <2>10. ~Spent(s)  BY <2>4, <2>6 DEF Spent, IInv, WorkerAt
  <2>. QED  BY <1>c, <2>2, <2>5, <2>7, <2>8, <2>9, <2>10, ToldKept
<1>3. ASSUME NEW c \in Calls, CancelBump(c) PROVE Told(a, s)'
  <2>1. ticket[c].slot \in Slots  BY <1>3, <1>a, LiveSlot DEF CancelBump
  <2>2. /\ gen' = [gen EXCEPT ![ticket[c].slot] = @ + 1] /\ ticket' = ticket
        /\ w.fn = "none" /\ w'.fn = "cancel"
        /\ UNCHANGED <<status, op, reqPool, resArea, hostGone, program, h, tables>>
    BY <1>3 DEF CancelBump, WorkerIdle, IInv, WorkerAt
  <2>3. s # ticket[c].slot  BY <1>a, <2>1, <2>2, StillHeld
  <2>4. gen'[s] = gen[s]  BY <1>a, <2>1, <2>2, <2>3 DEF TypeOK
  <2>5. ~Submits(a) /\ ~Submits(a)' /\ Got(a) = 0 /\ Got(a)' = 0  BY <2>2 DEF Submits, Got
  <2>6. Bytes(s)' = Bytes(s) /\ ~Spent(s)  BY <1>3, <2>2 DEF Bytes, Spent, IInv, WorkerAt, CancelBump
  <2>. QED  BY <1>c, <2>2, <2>4, <2>5, <2>6, ToldKept
<1>4. CASE Park
  <2>1. CASE hostGone /\ Raise
    BY <1>4, <2>1, <1>a, RaiseEffect, ParkEffect, <1>q, <1>c, <1>k DEF IInv, Told, Submits, Got, Says, Bytes, WorkerAt, WorkersSlot, Replies, HostsSlot, HostAt
  <2>2. CASE ~hostGone /\ GoesOn /\ w'.slot = w.slot /\ w'.pc \in {"parked", "seen"}
    BY <1>4, <2>2, <1>a, ParkEffect, <1>q, <1>c, <1>k DEF GoesOn, IInv, Told, Submits, Got, Says, Bytes, WorkerAt, WorkersSlot, Replies, HostsSlot, HostAt
  <2>. QED  BY <1>4, <2>1, <2>2, <1>a, ParkEffect
<1>5. ASSUME NEW timeout \in BOOLEAN, Unpark(timeout) PROVE Told(a, s)'
  <2>1. CASE hostGone /\ Raise
    BY <1>5, <2>1, <1>a, RaiseEffect, ParkEffect, <1>q, <1>c, <1>k DEF IInv, Told, Submits, Got, Says, Bytes, WorkerAt, WorkersSlot, Replies, HostsSlot, HostAt
  <2>2. CASE ~hostGone /\ GoesOn /\ w'.slot = w.slot /\ w'.pc \in {"parked", "seen"}
    BY <1>5, <2>2, <1>a, ParkEffect, <1>q, <1>c, <1>k DEF GoesOn, IInv, Told, Submits, Got, Says, Bytes, WorkerAt, WorkersSlot, Replies, HostsSlot, HostAt
  <2>. QED  BY <1>5, <2>1, <2>2, <1>a, ParkEffect
<1>6. CASE ClaimNext
  <2>0. /\ w.pc = "claim"
        /\ UNCHANGED <<status, gen, op, reqPool, resArea, hostGone, shape, h, tables>>
    BY <1>6, <1>a, ClaimEffect
  <2>1. CASE Raise
    BY <2>0, <2>1, <1>a, RaiseEffect, <1>q, <1>c, <1>k DEF IInv, Told, Submits, Got, Says, Bytes, WorkerAt, WorkersSlot, Replies, HostsSlot, HostAt
  <2>2. CASE GoesOn /\ w'.pc \in {"claim", "park"}
    BY <2>0, <2>2, <1>q, <1>c, <1>k DEF GoesOn, IInv, Told, Submits, Got, Says, Bytes, WorkerAt, WorkersSlot, Replies, HostsSlot, HostAt
  <2>. QED  BY <1>6, <2>1, <2>2, <1>a, ClaimEffect
<1>7. CASE TakeReqBuf
  BY <1>7, <1>a, TakeReqBufEffect, <1>q, <1>c, <1>k DEF IInv, Told, Submits, Got, Says, Bytes, WorkerAt, WorkersSlot, Replies, HostsSlot, HostAt
<1>8. CASE PublishPiece
  <2>1. /\ w.pc = "fill" /\ w.loop = "reqbuf" /\ w.fn = "submit" /\ w.slot \in Slots
        /\ w.buf \in Bufs /\ w.sent \in Nat /\ status[w.slot] \in {"CLAIMED", "READY"}
    BY <1>8, <1>a DEF PublishPiece, IInv, WorkerAt, WorkersSlot, TypeOK, WorkerRegs
  <2>2. /\ op' = [op EXCEPT ![w.slot] = IF w.sent + 1 = shape[w.call].pieces
                                        THEN shape[w.call].op ELSE "PUSH"]
        /\ reqMem' = [reqMem EXCEPT ![w.buf] = << <<w.call, w.sent + 1>> >>]
        /\ reqBuf' = [reqBuf EXCEPT ![w.slot] = w.buf]
        /\ status' = [status EXCEPT ![w.slot] = "PENDING"]
        /\ UNCHANGED <<gen, resArea, hostGone, program, h, tables>>
        /\ w' = IF w.sent + 1 = shape[w.call].pieces THEN WorkerIdle
                ELSE [w EXCEPT !.pc = "seen", !.loop = "await", !.sent = @ + 1, !.buf = 0]
    BY <1>8 DEF PublishPiece
  <2>3. /\ op'[w.slot] = IF w.sent + 1 = shape[w.call].pieces THEN shape[w.call].op ELSE "PUSH"
        /\ reqMem'[w.buf] = << <<w.call, w.sent + 1>> >> /\ reqBuf'[w.slot] = w.buf
        /\ status'[w.slot] = "PENDING"
    BY <1>a, <2>1, <2>2 DEF TypeOK
  <2>4. ~(h.pc = "taken" /\ h.slot = w.slot) /\ ~(Replies /\ h.slot = w.slot)
    BY <2>1 DEF RInv, HostsSlot
  <2>5. w.slot # s =>
           /\ op'[s] = op[s] /\ reqBuf'[s] = reqBuf[s] /\ status'[s] = status[s]
           /\ reqBuf[s] # 0 => reqMem'[reqBuf[s]] = reqMem[reqBuf[s]]
    <3>1. w.slot # s => op'[s] = op[s] /\ reqBuf'[s] = reqBuf[s] /\ status'[s] = status[s]
      BY <1>a, <2>1, <2>2 DEF TypeOK
    <3>2. reqBuf[s] # w.buf /\ (reqBuf[s] # 0 => reqBuf[s] \in Bufs)
      BY <1>a, <2>1 DEF IInv, ReqPoolExact, TypeOK, Bufs
    <3>. QED  BY <1>a, <2>1, <2>2, <3>1, <3>2 DEF TypeOK
  <2>6. CASE w.sent + 1 = shape[w.call].pieces
    <3>1. w' = WorkerIdle  BY <2>2, <2>6
    <3>2. CASE w.slot = s  BY <2>2, <2>3, <2>4, <3>2 DEF Told, Replies
    <3>3. CASE w.slot # s
      <4>1. ~Submits(a) /\ ~Submits(a)' /\ Got(a) = 0 /\ Got(a)' = 0
        BY <1>k, <2>1, <3>1, <3>3 DEF Submits, Got, WorkerIdle
      <4>2. Bytes(s)' = Bytes(s) /\ ~Spent(s)  BY <2>2, <3>3 DEF Bytes, Spent
      <4>. QED  BY <1>c, <2>2, <2>5, <3>3, <4>1, <4>2, ToldKept
    <3>. QED  BY <3>2, <3>3
  <2>7. CASE w.sent + 1 # shape[w.call].pieces
    <3>1. /\ w'.fn = "submit" /\ w'.call = w.call /\ w'.loop = "await" /\ w'.sent = w.sent + 1
          /\ w'.slot = w.slot /\ w'.pc = "seen" /\ w'.got = w.got
      BY <1>a, <2>1, <2>2, <2>7 DEF TypeOK, WorkerRegs
    <3>2. CASE w.slot = s  BY <2>2, <2>3, <2>4, <3>2 DEF Told, Replies
    <3>3. CASE w.slot # s
      <4>1. ~Submits(a) /\ ~Submits(a)' /\ Got(a) = 0 /\ Got(a)' = 0
        BY <1>k, <2>1, <3>1, <3>3 DEF Submits, Got, WorkerIdle
      <4>2. Bytes(s)' = Bytes(s) /\ ~Spent(s)  BY <2>2, <3>3 DEF Bytes, Spent
      <4>. QED  BY <1>c, <2>2, <2>5, <3>3, <4>1, <4>2, ToldKept
    <3>. QED  BY <3>2, <3>3
  <2>. QED  BY <2>6, <2>7
<1>9. CASE PieceFailed
  <2>1. w.slot \in Slots  BY <1>9 DEF PieceFailed, IInv, WorkerAt
  <2>2. /\ gen' = [gen EXCEPT ![w.slot] = @ + 1] /\ status' = [status EXCEPT ![w.slot] = "FREE"]
        /\ resBuf' = [resBuf EXCEPT ![w.slot] = 0]
        /\ UNCHANGED <<op, reqPool, resMem, resStatus, inline, hostGone, shape, h, tables>>
    BY <1>9 DEF PieceFailed, Release
  <2>3. ticket'[a] = ticket[a] \/ ticket'[a] = NoTicket  BY <1>9, <1>a, RaiseEffect DEF PieceFailed
  <2>4. s # w.slot  BY <1>a, <2>1, <2>2, <2>3, StillHeld
  <2>5. status'[s] = status[s] /\ resBuf'[s] = resBuf[s]  BY <1>a, <2>1, <2>2, <2>4 DEF TypeOK
  <2>6. w' = WorkerIdle /\ w.fn = "submit" /\ w.loop = "await"  BY <1>9, <1>a, RaiseEffect DEF PieceFailed, IInv, WorkerAt
  <2>7. ~Submits(a) /\ ~Submits(a)' /\ Got(a) = 0 /\ Got(a)' = 0
    BY <1>k, <2>4, <2>6 DEF Submits, Got, WorkerIdle
  <2>8. gen'[s] = gen[s]  BY <1>a, <2>1, <2>2, <2>4 DEF TypeOK
  <2>9. Bytes(s)' = Bytes(s)  BY <2>2, <2>5 DEF Bytes
  <2>10. ~Spent(s)  BY <2>4, <2>6 DEF Spent, IInv, WorkerAt
  <2>. QED  BY <1>c, <2>2, <2>5, <2>7, <2>8, <2>9, <2>10, ToldKept
<1>10. CASE CollectMore
  <2>1. /\ w.pc = "decide" /\ w.fn = "collect" /\ w.slot \in Slots
        /\ status[w.slot] = "READY"
        /\ status' = [status EXCEPT ![w.slot] = "PENDING"]
        /\ UNCHANGED <<gen, reqPool, resArea, hostGone, program, h, tables>>
        /\ w'.fn = w.fn /\ w'.call = w.call
    BY <1>10, <1>a DEF CollectMore, IInv, WorkerAt, WorkersSlot, TypeOK, WorkerRegs
  <2>2. ~(Replies /\ h.slot = w.slot)  BY <2>1 DEF RInv, HostsSlot
  <2>3. CASE w.slot = s
    <3>1. status'[s] = "PENDING"  BY <1>a, <2>1, <2>3 DEF TypeOK
    <3>. QED  BY <2>1, <2>2, <2>3, <3>1 DEF Told, Replies
  <2>4. CASE w.slot # s
    <3>1. ~Submits(a) /\ ~Submits(a)' /\ Got(a) = 0 /\ Got(a)' = 0
      BY <1>k, <2>1, <2>4 DEF Submits, Got
    <3>2. Bytes(s)' = Bytes(s) /\ ~Spent(s) /\ status'[s] = status[s]
      BY <1>a, <2>1, <2>4 DEF Bytes, Spent, TypeOK
    <3>. QED  BY <1>c, <2>1, <3>1, <3>2, ToldKept
  <2>. QED  BY <2>3, <2>4
<1>11. CASE CollectLast
  <2>1. w.slot \in Slots  BY <1>11 DEF CollectLast, IInv, WorkerAt
  <2>2. /\ gen' = [gen EXCEPT ![w.slot] = @ + 1] /\ status' = [status EXCEPT ![w.slot] = "FREE"]
        /\ resBuf' = [resBuf EXCEPT ![w.slot] = 0]
        /\ UNCHANGED <<op, reqPool, resMem, resStatus, inline, hostGone, shape, h, tables>>
    BY <1>11 DEF CollectLast, Release
  <2>3. ticket'[a] = ticket[a] \/ ticket'[a] = NoTicket  BY <1>11 DEF CollectLast
  <2>4. s # w.slot  BY <1>a, <2>1, <2>2, <2>3, StillHeld
  <2>5. status'[s] = status[s] /\ resBuf'[s] = resBuf[s]  BY <1>a, <2>1, <2>2, <2>4 DEF TypeOK
  <2>6. w' = WorkerIdle /\ w.fn = "collect"  BY <1>11 DEF CollectLast, IInv, WorkerAt
  <2>7. ~Submits(a) /\ ~Submits(a)' /\ Got(a) = 0 /\ Got(a)' = 0
    BY <1>k, <2>4, <2>6 DEF Submits, Got, WorkerIdle
  <2>8. gen'[s] = gen[s]  BY <1>a, <2>1, <2>2, <2>4 DEF TypeOK
  <2>9. Bytes(s)' = Bytes(s)  BY <2>2, <2>5 DEF Bytes
  <2>10. ~Spent(s)  BY <2>4, <2>6 DEF Spent, IInv, WorkerAt
  <2>. QED  BY <1>c, <2>2, <2>5, <2>7, <2>8, <2>9, <2>10, ToldKept
<1>12. CASE CancelStore
  <2>1. /\ w.pc = "cancel" /\ w.fn = "cancel" /\ w.slot \in Slots /\ w' = WorkerIdle
        /\ status' = [status EXCEPT ![w.slot] = "CANCELLED"]
        /\ UNCHANGED <<gen, reqPool, resArea, hostGone, program, h, tables>>
    BY <1>12 DEF CancelStore, IInv, WorkerAt
  <2>2. w.slot # s  BY <1>k, <2>1
  <2>3. ~Submits(a) /\ ~Submits(a)' /\ Got(a) = 0 /\ Got(a)' = 0
    BY <2>1 DEF Submits, Got, WorkerIdle
  <2>4. Bytes(s)' = Bytes(s) /\ ~Spent(s) /\ status'[s] = status[s]
    BY <1>a, <2>1, <2>2 DEF Bytes, Spent, TypeOK
  <2>. QED  BY <1>c, <2>1, <2>3, <2>4, ToldKept
<1>13. CASE WaitScan
  <2>1. w.fn = "waitAny"  BY <1>13, <1>a DEF WaitScan, IInv, WorkerAt, TypeOK, WorkerRegs
  <2>2. /\ w'.fn \notin {"submit", "collect"} /\ w'.pc \notin {"handback", "decide"}
        /\ w'.loop \notin {"claim", "reqbuf", "await"}
        /\ UNCHANGED <<status, gen, op, reqPool, resArea, hostGone, program, h, tables>>
    <3>1. /\ w' = WorkerIdle \/ w' = [w EXCEPT !.pc = "park"]
          /\ UNCHANGED <<status, gen, op, reqPool, resArea, hostGone, program, h, tables>>
      BY <1>13 DEF WaitScan
    <3>2. CASE w' = WorkerIdle  BY <3>1, <3>2 DEF WorkerIdle
    <3>3. CASE w' = [w EXCEPT !.pc = "park"]
      <4>1. w.loop = "waitAny" /\ w'.fn = w.fn /\ w'.loop = w.loop /\ w'.pc = "park"
        BY <1>a, <2>1, <3>3 DEF TypeOK, WorkerRegs, IInv, WorkerAt
      <4>. QED  BY <2>1, <3>1, <4>1
    <3>. QED  BY <3>1, <3>2, <3>3
  <2>3. ~Submits(a) /\ ~Submits(a)' /\ Got(a) = 0 /\ Got(a)' = 0  BY <2>1, <2>2 DEF Submits, Got
  <2>4. Bytes(s)' = Bytes(s)  BY <2>2 DEF Bytes
  <2>5. ~Spent(s)  BY <1>13, <2>1 DEF WaitScan, Spent, IInv, WorkerAt
  <2>. QED  BY <1>c, <2>2, <2>3, <2>4, <2>5, ToldKept
<1>14. CASE TakeContinue
  <2>1. /\ h.pc = "taken" /\ h.slot \in Slots /\ status[h.slot] = "PENDING"
        /\ status' = [status EXCEPT ![h.slot] = "RUNNING"]
        /\ h'.pc = "reply" /\ h'.slot = h.slot /\ UNCHANGED <<gen, resArea, w, shape>>
        /\ op[h.slot] = "CONTINUE" /\ h'.status = finalStatus[h.slot] /\ h'.body = pending[h.slot]
        /\ pending' = [pending EXCEPT ![h.slot] = <<>>] /\ finalStatus' = finalStatus
    BY <1>14, <1>a DEF TakeContinue, Taken, Replying, IInv, HostAt, TypeOK, HostRegs
  <2>2. CASE h.slot # s
    <3>1. (Submits(a)' <=> Submits(a)) /\ Got(a)' = Got(a) /\ Bytes(s)' = Bytes(s) /\ (Spent(s)' <=> Spent(s))
      BY <2>1 DEF Submits, Got, Bytes, Spent
    <3>2. status'[s] = status[s] /\ pending'[s] = pending[s]  BY <1>a, <2>1, <2>2 DEF TypeOK
    <3>. QED  BY <1>c, <2>1, <2>2, <3>1, <3>2, ToldKept
  <2>3. CASE h.slot = s
    <3>0. status'[s] = "RUNNING"  BY <1>a, <2>1, <2>3 DEF TypeOK
    <3>1. Submits(a) => w.loop = "await" /\ op[s] = "PUSH"
      <4>1. Submits(a) => w.loop = "await"
        BY <1>k, <2>1, <2>3 DEF Submits, IInv, WorkerAt, WorkersSlot
      <4>. QED  BY <1>c, <2>1, <2>3, <4>1 DEF Pushed
    <3>2. ~Submits(a) => op[s] \in {"CONTINUE", shape[a].op}  BY <1>c, <2>1, <2>3 DEF Asked
    <3>3. (Submits(a)' <=> Submits(a)) /\ Got(a)' = Got(a)  BY <2>1 DEF Submits, Got
    <3>4. /\ ~Submits(a) /\ shape[a].op = "cap" /\ Got(a) <= shape[a].len
          /\ pending[s] = Piece(a, Got(a), shape[a].len) /\ finalStatus[s] = shape[a].status
      BY <1>c, <2>1, <2>3, <3>1 DEF Asked
    <3>5. h'.body = Piece(a, Got(a), shape[a].len) /\ h'.status = shape[a].status
      BY <2>1, <2>3, <3>4
    <3>. QED  BY <2>1, <3>0, <3>3, <3>4, <3>5 DEF Told
  <2>. QED  BY <2>2, <2>3
<1>15. CASE TakePush
  <2>1. /\ h.pc = "taken" /\ h.slot \in Slots /\ status[h.slot] = "PENDING"
        /\ status' = [status EXCEPT ![h.slot] = "RUNNING"]
        /\ h'.pc = "reply" /\ h'.slot = h.slot /\ UNCHANGED <<gen, resArea, w, shape>>
        /\ op[h.slot] = "PUSH" /\ h'.status = "ACK" /\ h'.body = <<>>
        /\ UNCHANGED <<pending, finalStatus>>
    BY <1>15, <1>a DEF TakePush, Taken, Replying, IInv, HostAt, TypeOK, HostRegs
  <2>2. CASE h.slot # s
    <3>1. (Submits(a)' <=> Submits(a)) /\ Got(a)' = Got(a) /\ Bytes(s)' = Bytes(s) /\ (Spent(s)' <=> Spent(s))
      BY <2>1 DEF Submits, Got, Bytes, Spent
    <3>2. status'[s] = status[s] /\ pending'[s] = pending[s]  BY <1>a, <2>1, <2>2 DEF TypeOK
    <3>. QED  BY <1>c, <2>1, <2>2, <3>1, <3>2, ToldKept
  <2>3. CASE h.slot = s
    <3>0. status'[s] = "RUNNING"  BY <1>a, <2>1, <2>3 DEF TypeOK
    <3>1. Submits(a) => w.loop = "await" /\ op[s] = "PUSH"
      <4>1. Submits(a) => w.loop = "await"
        BY <1>k, <2>1, <2>3 DEF Submits, IInv, WorkerAt, WorkersSlot
      <4>. QED  BY <1>c, <2>1, <2>3, <4>1 DEF Pushed
    <3>2. ~Submits(a) => op[s] \in {"CONTINUE", shape[a].op}  BY <1>c, <2>1, <2>3 DEF Asked
    <3>3. (Submits(a)' <=> Submits(a)) /\ Got(a)' = Got(a)  BY <2>1 DEF Submits, Got
    <3>. QED  BY <1>k, <2>1, <2>3, <3>0, <3>2, <3>3 DEF Told
  <2>. QED  BY <2>2, <2>3
<1>16. CASE TakeUnknown
  <2>1. /\ h.pc = "taken" /\ h.slot \in Slots /\ status[h.slot] = "PENDING"
        /\ status' = [status EXCEPT ![h.slot] = "RUNNING"]
        /\ h'.pc = "reply" /\ h'.slot = h.slot /\ UNCHANGED <<gen, resArea, w, shape>>
        /\ op[h.slot] = "nocap" /\ h'.status = "ERR" /\ h'.body = Message
        /\ UNCHANGED <<pending, finalStatus>>
    BY <1>16, <1>a DEF TakeUnknown, Taken, Replying, IInv, HostAt, TypeOK, HostRegs
  <2>2. CASE h.slot # s
    <3>1. (Submits(a)' <=> Submits(a)) /\ Got(a)' = Got(a) /\ Bytes(s)' = Bytes(s) /\ (Spent(s)' <=> Spent(s))
      BY <2>1 DEF Submits, Got, Bytes, Spent
    <3>2. status'[s] = status[s] /\ pending'[s] = pending[s]  BY <1>a, <2>1, <2>2 DEF TypeOK
    <3>. QED  BY <1>c, <2>1, <2>2, <3>1, <3>2, ToldKept
  <2>3. CASE h.slot = s
    <3>0. status'[s] = "RUNNING"  BY <1>a, <2>1, <2>3 DEF TypeOK
    <3>1. Submits(a) => w.loop = "await" /\ op[s] = "PUSH"
      <4>1. Submits(a) => w.loop = "await"
        BY <1>k, <2>1, <2>3 DEF Submits, IInv, WorkerAt, WorkersSlot
      <4>. QED  BY <1>c, <2>1, <2>3, <4>1 DEF Pushed
    <3>2. ~Submits(a) => op[s] \in {"CONTINUE", shape[a].op}  BY <1>c, <2>1, <2>3 DEF Asked
    <3>3. (Submits(a)' <=> Submits(a)) /\ Got(a)' = Got(a)  BY <2>1 DEF Submits, Got
    <3>. QED  BY <1>k, <2>1, <2>3, <3>0, <3>1, <3>2, <3>3 DEF Told
  <2>. QED  BY <2>2, <2>3
<1>17. CASE WriteStale
  <2>1. /\ h.pc = "write" /\ h.slot \in Slots /\ UNCHANGED <<gen, resMem, resStatus, inline, w, shape, finalStatus>>
        /\ h'.pc \notin {"reply", "write", "publish"}
        /\ UNCHANGED <<status, resBuf, pending>>
    BY <1>17, <1>a DEF WriteStale, Return, HostIdle, PublishWins, IInv, HostAt, TypeOK, HostRegs
  <2>2. (Submits(a)' <=> Submits(a)) /\ Got(a)' = Got(a) /\ (Spent(s)' <=> Spent(s))
    BY <2>1 DEF Submits, Got, Spent
  <2>3. Bytes(s)' = Bytes(s)  BY <2>1 DEF Bytes
  <2>. QED  BY <1>c, <2>1, <2>2, <2>3, ToldKept DEF Replies
<1>18. CASE Write
  <2>1. /\ h.pc = "write" /\ h.slot \in Slots /\ status[h.slot] \in {"RUNNING", "CANCELLED"}
    BY <1>18, WriteEffect DEF IInv, HostAt, RInv, HostsSlot, Replies
  <2>2. /\ h'.pc = "publish" /\ h'.slot = h.slot
        /\ UNCHANGED <<status, gen, w, shape>>
    BY <1>18, <1>a, WriteEffect DEF TypeOK, HostRegs
  <2>3. (Submits(a)' <=> Submits(a)) /\ Got(a)' = Got(a) /\ (Spent(s)' <=> Spent(s))
    BY <2>2 DEF Submits, Got, Spent
  <2>4. PICK room \in {BUF, INLINE} :
          /\ \/ \E b \in Bufs : /\ b \notin resHeld /\ resHeld' = resHeld \union {b}
                                /\ resMem' = [resMem EXCEPT ![b] = Fits(h.body, room)]
                                /\ resBuf' = [resBuf EXCEPT ![h.slot] = b]
                                /\ UNCHANGED inline
             \/ /\ inline' = [inline EXCEPT ![h.slot] = Fits(h.body, room)]
                /\ resBuf' = [resBuf EXCEPT ![h.slot] = 0]
                /\ UNCHANGED <<resHeld, resMem>>
          /\ \/ /\ Len(h.body) > room
                /\ resStatus' = [resStatus EXCEPT ![h.slot] = "MORE"]
                /\ pending' = [pending EXCEPT ![h.slot] = TailOf(h.body, room)]
                /\ finalStatus' = [finalStatus EXCEPT ![h.slot] = h.status]
             \/ /\ ~(Len(h.body) > room)
                /\ resStatus' = [resStatus EXCEPT ![h.slot] = h.status]
                /\ UNCHANGED <<pending, finalStatus>>
    BY <1>18, WriteEffect
  <2>5. room \in Nat /\ room >= 1  BY SizesAssumption
  <2>6. CASE h.slot # s
    <3>1. /\ resStatus'[s] = resStatus[s] /\ pending'[s] = pending[s]
          /\ finalStatus'[s] = finalStatus[s] /\ resBuf'[s] = resBuf[s]
      BY <1>a, <2>1, <2>4, <2>6 DEF TypeOK
    <3>2. Bytes(s)' = Bytes(s)
      <4>1. CASE UNCHANGED resMem /\ inline' = [inline EXCEPT ![h.slot] = Fits(h.body, room)]
        BY <1>a, <2>1, <2>6, <3>1, <4>1 DEF Bytes, TypeOK
      <4>2. ASSUME NEW b \in Bufs, b \notin resHeld, UNCHANGED inline,
                   resMem' = [resMem EXCEPT ![b] = Fits(h.body, room)]
            PROVE  Bytes(s)' = Bytes(s)
        <5>1. resBuf[s] # 0 => resBuf[s] \in Bufs /\ resBuf[s] # b
          BY <1>a, <4>2 DEF RInv, ResPoolExact, TypeOK
        <5>. QED  BY <1>a, <3>1, <4>2, <5>1 DEF Bytes, TypeOK
      <4>. QED  BY <2>4, <4>1, <4>2
    <3>. QED  BY <1>c, <2>2, <2>3, <2>6, <3>1, <3>2, ToldKept
  <2>7. CASE h.slot = s
    <3>1. Bytes(s)' = Fits(h.body, room)
      <4>1. CASE /\ inline' = [inline EXCEPT ![h.slot] = Fits(h.body, room)]
                 /\ resBuf' = [resBuf EXCEPT ![h.slot] = 0]
        BY <1>a, <2>1, <2>7, <4>1 DEF Bytes, TypeOK
      <4>2. ASSUME NEW b \in Bufs, resMem' = [resMem EXCEPT ![b] = Fits(h.body, room)],
                   resBuf' = [resBuf EXCEPT ![h.slot] = b]
            PROVE  Bytes(s)' = Fits(h.body, room)
        <5>1. resBuf'[s] = b /\ b # 0 /\ resMem'[b] = Fits(h.body, room)
          BY <1>a, <2>1, <2>7, <4>2 DEF TypeOK, Bufs
        <5>. QED  BY <5>1 DEF Bytes
      <4>. QED  BY <2>4, <4>1, <4>2
    <3>2. \/ /\ Len(h.body) > room /\ resStatus'[s] = "MORE"
             /\ pending'[s] = TailOf(h.body, room) /\ finalStatus'[s] = h.status
          \/ ~(Len(h.body) > room) /\ resStatus'[s] = h.status
      BY <1>a, <2>1, <2>4, <2>7 DEF TypeOK
    <3>3. ~(Len(h.body) > room) => Fits(h.body, room) = h.body  BY DEF Fits
    <3>4. Says(a, s, resStatus[s], Bytes(s))'
      <4>1. CASE Submits(a)
        <5>1. h.status = "ACK" /\ h.body = <<>>  BY <1>c, <2>1, <2>7, <4>1 DEF Told
        <5>2. ~(Len(h.body) > room)  BY <2>5, <5>1
        <5>. QED  BY <2>3, <3>2, <4>1, <5>1, <5>2 DEF Says
      <4>2. CASE ~Submits(a) /\ h.status = "ERR" /\ h.body = Message /\ shape[a].op = "nocap"
        <5>1. Len(Message) = 1  BY DEF Message
        <5>2. ~(Len(h.body) > room)  BY <2>5, <4>2, <5>1
        <5>. QED  BY <2>2, <2>3, <3>1, <3>2, <3>3, <4>2, <5>2 DEF Says
      <4>3. CASE /\ ~Submits(a) /\ shape[a].op = "cap" /\ Got(a) <= shape[a].len
                 /\ h.status = shape[a].status /\ h.body = Piece(a, Got(a), shape[a].len)
        <5>1. Got(a) \in Nat  BY <1>a DEF Got, TypeOK, WorkerRegs, Payloads
        <5> DEFINE g == Got(a)
                   L == shape[a].len
        <5>g. g \in Nat /\ L \in Nat /\ g <= L /\ a \in 0 .. MaxCalls /\ h.body = Piece(a, g, L)
          BY <1>k, <4>3, <5>1
        <5> HIDE DEF g, L
        <5>2. Len(h.body) = L - g
          <6>1. Len(Piece(a, g, L)) = L - g  BY <5>g, PieceIs
          <6>. QED  BY <5>g, <6>1
        <5>3. CASE ~(Len(h.body) > room)
          <6>1. L \in g .. L  BY <5>g
          <6>2. Bytes(s)' = Piece(a, g, L) /\ resStatus'[s] = shape[a].status
            <7>1. Fits(h.body, room) = h.body  BY <3>3, <5>3
            <7>2. Bytes(s)' = h.body  BY <3>1, <7>1
            <7>. QED  BY <3>2, <4>3, <5>3, <5>g, <7>2
          <6>. QED  BY <2>2, <2>3, <4>3, <6>1, <6>2 DEF Says, g, L
        <5>4. CASE Len(h.body) > room
          <6> DEFINE n == g + room
          <6>1. n \in Nat /\ g + room < L /\ n \in g .. L
            BY <2>5, <5>g, <5>2, <5>4
          <6>c. /\ Fits(Piece(a, g, L), room) = Piece(a, g, g + room)
                /\ TailOf(Piece(a, g, L), room) = Piece(a, g + room, L)
            BY <2>5, <5>g, <6>1, PieceCut
          <6>2. Fits(h.body, room) = Piece(a, g, n)  BY <5>g, <6>c
          <6>3. TailOf(h.body, room) = Piece(a, n, L)  BY <5>g, <6>c
          <6> HIDE DEF n
          <6>4. /\ Bytes(s)' = Piece(a, g, n) /\ resStatus'[s] = "MORE"
                /\ pending'[s] = Piece(a, n, L) /\ finalStatus'[s] = shape[a].status
            BY <3>1, <3>2, <4>3, <5>4, <6>2, <6>3
          <6>. QED  BY <2>2, <2>3, <4>3, <6>1, <6>4 DEF Says, g, L
        <5>. QED  BY <5>3, <5>4
      <4>. QED  BY <1>c, <2>1, <2>7, <4>1, <4>2, <4>3 DEF Told
    <3>. QED  BY <2>1, <2>2, <2>7, <3>4 DEF Told
  <2>. QED  BY <2>6, <2>7
<1>19. CASE Publish
  <2>1. /\ h.pc = "publish" /\ h.slot \in Slots /\ UNCHANGED <<gen, resMem, resStatus, inline, w, shape, finalStatus>>
        /\ h'.pc \notin {"reply", "write", "publish"}
        /\ status' = [status EXCEPT ![h.slot] = "READY"] /\ UNCHANGED <<resBuf, pending>>
    BY <1>19, <1>a DEF Publish, Return, HostIdle, PublishWins, IInv, HostAt, TypeOK, HostRegs
  <2>2. (Submits(a)' <=> Submits(a)) /\ Got(a)' = Got(a) /\ (Spent(s)' <=> Spent(s))
    BY <2>1 DEF Submits, Got, Spent
  <2>3. Bytes(s)' = Bytes(s)  BY <2>1 DEF Bytes
  <2>4. CASE h.slot = s
    <3>1. Says(a, s, resStatus[s], Bytes(s))  BY <1>c, <2>1, <2>4 DEF Told
    <3>2. Says(a, s, resStatus[s], Bytes(s))'  BY <2>1, <2>2, <2>3, <3>1 DEF Says
    <3>. QED  BY <2>1, <3>2 DEF Told
  <2>5. CASE h.slot # s
    <3>1. status'[s] = status[s]  BY <1>a, <2>1, <2>5 DEF TypeOK
    <3>. QED  BY <1>c, <2>1, <2>2, <2>3, <3>1, ToldKept DEF Replies
  <2>. QED  BY <2>4, <2>5
<1>20. CASE PublishLost
  <2>1. /\ h.pc = "publish" /\ status[h.slot] # "RUNNING" /\ h.slot \in Slots /\ UNCHANGED <<gen, resMem, resStatus, inline, w, shape, finalStatus>>
        /\ h'.pc \notin {"reply", "write", "publish"}
        /\ resBuf' = [resBuf EXCEPT ![h.slot] = 0] /\ pending' = [pending EXCEPT ![h.slot] = <<>>]
        /\ UNCHANGED status
    BY <1>20, <1>a DEF PublishLost, Return, HostIdle, PublishWins, IInv, HostAt, TypeOK, HostRegs
  <2>2. (Submits(a)' <=> Submits(a)) /\ Got(a)' = Got(a) /\ (Spent(s)' <=> Spent(s))
    BY <2>1 DEF Submits, Got, Spent
  <2>3. h.slot # s  BY <1>k, <2>1 DEF RInv, HostsSlot, Replies
  <2>4. resBuf'[s] = resBuf[s] /\ pending'[s] = pending[s]  BY <1>a, <2>1, <2>3 DEF TypeOK
  <2>5. Bytes(s)' = Bytes(s)  BY <2>1, <2>4 DEF Bytes
  <2>. QED  BY <1>c, <2>1, <2>2, <2>4, <2>5, ToldKept DEF Replies
<1>21. CASE FailSkip
  BY <1>21, <1>q DEF FailSkip
<1>22. CASE FailSlot
  BY <1>22, <1>q DEF FailSlot
<1>23. CASE FailDone
  BY <1>23, <1>q DEF FailDone
<1>24. ASSUME NEW k \in handlers, Complete(k) PROVE Told(a, s)'
  <2>1. /\ h.pc = "loop" /\ k.slot \in Slots
        /\ UNCHANGED <<status, gen, op, resArea, w, program, pending, finalStatus>>
    BY <1>24, <1>a DEF Complete, TypeOK, Handlers
  <2>2. /\ (Submits(a)' <=> Submits(a)) /\ Got(a)' = Got(a) /\ (Spent(s)' <=> Spent(s))
        /\ Bytes(s)' = Bytes(s)
    BY <2>1 DEF Submits, Got, Spent, Bytes
  <2>3. CASE ~StillOurs(k) \/ k.slot # s
    <3>1. h' = h \/ h'.slot # s  BY <1>24, <2>3 DEF Complete, HostIdle
    <3>. QED  BY <1>c, <2>1, <2>2, <3>1, ToldKept
  <2>4. CASE StillOurs(k) /\ k.slot = s
    <3>1. k.gen = gen[s]  BY <2>4 DEF StillOurs
    <3>2. PICK c \in Given : /\ k.whole = Request(c) /\ ~Submits(c) /\ shape[c].op = "cap"
                             /\ ticket[c] = [slot |-> k.slot, gen |-> k.gen]
      BY DEF AInv, HandlersAreOwn
    <3>3. c = a
      <4>1. c \in Calls  BY <1>k, SizesAssumption DEF IInv, HostAt, Given, Calls
      <4>2. Holds(c, s)  BY <2>4, <3>1, <3>2 DEF Holds
      <4>. QED  BY <4>1, <4>2, Held
    <3>4. k.whole[1][1] = a
      <4>1. 1 \in 1 .. shape[a].pieces  BY <1>k
      <4>. QED  BY <3>2, <3>3, <4>1 DEF Request
    <3>5. status[s] = "RUNNING"  BY <2>4, <3>1 DEF RInv, HandlersRun, Current
    <3>6. Got(a) = 0  BY <1>c, <2>1, <3>2, <3>3, <3>5 DEF Asked, Replies
    <3>7. /\ h'.pc = "reply" /\ h'.slot = s /\ h'.status = shape[a].status /\ h'.body = Answer(a)
      BY <1>24, <2>4, <3>4 DEF Complete, HostIdle
    <3>8. Answer(a) = Piece(a, Got(a), shape[a].len) /\ Got(a) <= shape[a].len
      BY <1>k, <3>6, RequestIs
    <3>. QED  BY <2>1, <2>2, <3>2, <3>3, <3>5, <3>7, <3>8 DEF Told
  <2>. QED  BY <2>3, <2>4
<1>25. CASE Stop
  BY <1>25, <1>q DEF Stop
<1>26. ASSUME NEW c \in Calls, Collect(c) PROVE Told(a, s)'
  BY <1>26, <1>q, <1>c, <1>k DEF Collect, WorkerIdle, Live, IInv, Told, Submits, Got,
     Says, Bytes, WorkerAt, WorkersSlot, Replies, HostsSlot, HostAt, RInv, TypeOK,
     WorkerRegs, HostRegs, Slots
<1>27. ASSUME NEW set \in SUBSET Calls, NEW timed \in BOOLEAN, WaitAny(set, timed) PROVE
      Told(a, s)'
  BY <1>27, <1>q, <1>c, <1>k DEF WaitAny, WorkerIdle, IInv, Told, Submits, Got, Says,
     Bytes, WorkerAt, WorkersSlot, Replies, HostsSlot, HostAt, RInv, TypeOK, WorkerRegs,
     HostRegs, Slots
<1>28. CASE Look
  BY <1>28, <1>q, <1>c, <1>k DEF Look, IInv, Told, Submits, Got, Says, Bytes, WorkerAt,
     WorkersSlot, Replies, HostsSlot, HostAt, RInv, TypeOK, WorkerRegs, HostRegs, Slots
<1>29. CASE ClaimSlot
  BY <1>29, <1>q, <1>c, <1>k DEF ClaimSlot, IInv, Told, Submits, Got, Says, Bytes,
     WorkerAt, WorkersSlot, Replies, HostsSlot, HostAt, RInv, TypeOK, WorkerRegs,
     HostRegs, Slots
<1>30. CASE AwaitReady
  BY <1>30, <1>q, <1>c, <1>k DEF AwaitReady, IInv, Told, Submits, Got, Says, Bytes,
     WorkerAt, WorkersSlot, Replies, HostsSlot, HostAt, RInv, TypeOK, WorkerRegs,
     HostRegs, Slots
<1>31. CASE ReadRes
  BY <1>31, <1>q, <1>c, <1>k DEF ReadRes, IInv, Told, Submits, Got, Says, Bytes,
     WorkerAt, WorkersSlot, Replies, HostsSlot, HostAt, RInv, TypeOK, WorkerRegs,
     HostRegs, Slots
<1>32. CASE HandBack
  BY <1>32, <1>q, <1>c, <1>k DEF HandBack, IInv, Told, Submits, Got, Says, Bytes,
     WorkerAt, WorkersSlot, Replies, HostsSlot, HostAt, RInv, TypeOK, WorkerRegs,
     HostRegs, Slots
<1>33. CASE NextPiece
  BY <1>33, <1>q, <1>c, <1>k DEF NextPiece, IInv, Told, Submits, Got, Says, Bytes,
     WorkerAt, WorkersSlot, Replies, HostsSlot, HostAt, RInv, TypeOK, WorkerRegs,
     HostRegs, Slots
<1>34. CASE LoopWake
  BY <1>34, <1>q, <1>c, <1>k DEF LoopWake, HostIdle, IInv, Told, Submits, Got, Says,
     Bytes, WorkerAt, WorkersSlot, Replies, HostsSlot, HostAt, RInv, TypeOK, WorkerRegs,
     HostRegs, Slots
<1>35. CASE SweepSkip
  BY <1>35, <1>q, <1>c, <1>k DEF SweepSkip, SweepNext, HostIdle, IInv, Told, Submits,
     Got, Says, Bytes, WorkerAt, WorkersSlot, Replies, HostsSlot, HostAt, RInv, TypeOK,
     WorkerRegs, HostRegs, Slots
<1>36. CASE SweepDone
  BY <1>36, <1>q, <1>c, <1>k DEF SweepDone, HostIdle, IInv, Told, Submits, Got, Says,
     Bytes, WorkerAt, WorkersSlot, Replies, HostsSlot, HostAt, RInv, TypeOK, WorkerRegs,
     HostRegs, Slots
<1>37. CASE Abandon
  BY <1>37, <1>q, <1>c, <1>k DEF Abandon, SweepNext, HostIdle, DetachBoth, IInv, Told,
     Submits, Got, Says, Bytes, WorkerAt, WorkersSlot, Replies, HostsSlot, HostAt, RInv,
     TypeOK, WorkerRegs, HostRegs, Slots
<1>38. CASE Take
  BY <1>38, <1>q, <1>c, <1>k DEF Take, IInv, Told, Submits, Got, Says, Bytes, WorkerAt,
     WorkersSlot, Replies, HostsSlot, HostAt, RInv, TypeOK, WorkerRegs, HostRegs, Slots
<1>39. CASE TakeLost
  BY <1>39, <1>q, <1>c, <1>k DEF TakeLost, SweepNext, HostIdle, IInv, Told, Submits,
     Got, Says, Bytes, WorkerAt, WorkersSlot, Replies, HostsSlot, HostAt, RInv, TypeOK,
     WorkerRegs, HostRegs, Slots
<1>40. CASE TakeDispatch
  BY <1>40, <1>q, <1>c, <1>k DEF TakeDispatch, SweepNext, HostIdle, Taken, Joined, IInv,
     Told, Submits, Got, Says, Bytes, WorkerAt, WorkersSlot, Replies, HostsSlot, HostAt,
     RInv, TypeOK, WorkerRegs, HostRegs, Slots
<1>41. CASE Reply
  BY <1>41, <1>q, <1>c, <1>k DEF Reply, IInv, Told, Submits, Got, Says, Bytes, WorkerAt,
     WorkersSlot, Replies, HostsSlot, HostAt, RInv, TypeOK, WorkerRegs, HostRegs, Slots
<1>f. CASE UNCHANGED <<w, status, gen, resBuf, resMem, inline, resStatus, pending, finalStatus, h, shape>>  BY <1>f, <1>c DEF TInv, RInv, Told, Submits, Got, Says, Bytes, Replies
<1>p. CASE Program
  BY <1>p, <1>1, <1>26, <1>2, <1>3, <1>27
  DEF Program
<1>w. CASE Worker
  BY <1>w, <1>28, <1>4, <1>5, <1>29, <1>6, <1>7, <1>8, <1>30, <1>31, <1>32, <1>33, <1>9,
     <1>10, <1>11, <1>12, <1>13
  DEF Worker, Wake
<1>h. CASE Host
  BY <1>h, <1>34, <1>35, <1>36, <1>37, <1>38, <1>39, <1>14, <1>15, <1>40, <1>16, <1>41,
     <1>17, <1>18, <1>19, <1>20, <1>21, <1>22, <1>23
  DEF Host
<1>t. CASE Timeout  BY <1>t, <1>5 DEF Timeout
<1>d. CASE HandlerDone  BY <1>d, <1>24 DEF HandlerDone
<1>s. CASE Stop  BY <1>s, <1>25
<1>. QED  BY <1>p, <1>w, <1>h, <1>t, <1>d, <1>s DEF Next

\* Every slot a call holds after a step carries what is that call's: what it held before by the
\* three lemmas above, and what claim has just given it is clean.
LEMMA ContentsStep == ASSUME IInv, TInv, RInv, AInv, Quiet, Quiet', Next PROVE Contents'
<1> SUFFICES ASSUME NEW a \in Calls, NEW s \in Slots, Holds(a, s)'
             PROVE  Pushed(a, s)' /\ Asked(a, s)' /\ Told(a, s)'
  BY DEF Contents
<1>1. CASE Holds(a, s)  BY <1>1, PushedStep, AskedStep, ToldStep
<1>2. CASE ~Holds(a, s)
  <2> USE DEF reqPool, resArea, program, tables
  <2>a. TypeOK  BY DEF IInv
  <2>1. ClaimSlot  BY <1>2, HeldBefore
  <2>2. /\ w.pc = "claim" /\ w.fn = "submit" /\ w.loop = "claim" /\ w.slot \in Slots
        /\ status[w.slot] = "FREE"
    BY <2>1 DEF ClaimSlot, IInv, WorkerAt
  <2>3. a = w.call /\ s = w.slot
    <3>1. a # w.call => ticket'[a] = ticket[a]  BY <2>1, <2>a DEF ClaimSlot, TypeOK
    <3>2. gen' = gen  BY <2>1 DEF ClaimSlot
    <3>3. a = w.call  BY <1>2, <3>1, <3>2 DEF Holds
    <3>4. ticket'[a] = [slot |-> w.slot, gen |-> gen[w.slot]]  BY <2>1, <2>a, <3>3 DEF ClaimSlot, TypeOK
    <3>5. ticket'[a].slot = w.slot  BY <3>4
    <3>. QED  BY <3>3, <3>5 DEF Holds
  <2>4. /\ w'.fn = "submit" /\ w'.call = a /\ w'.loop = "reqbuf" /\ w'.sent = w.sent
        /\ w'.pc = "seen" /\ w'.slot = s
    BY <2>1, <2>2, <2>3, <2>a DEF ClaimSlot, TypeOK, WorkerRegs
  <2>5. /\ status'[s] = "CLAIMED" /\ UNCHANGED <<partial, h, shape, gen>>
    BY <2>1, <2>3, <2>a DEF ClaimSlot, TypeOK
  <2>6. w.sent = 0 /\ partial[s] = <<>>  BY <2>2, <2>3 DEF AInv, Read, Clean
  <2>7. shape[a].pieces \in Nat /\ shape[a].pieces >= 1 /\ a \in 0 .. MaxCalls
    <3>1. a \in Given  BY <2>2, <2>3 DEF IInv, WorkerAt
    <3>2. shape[a] \in Shapes  BY <2>a, <3>1 DEF TypeOK, Given
    <3>3. a \in 0 .. MaxCalls  BY SizesAssumption DEF Calls
    <3>. QED  BY <3>2, <3>3, ShapesAssumption
  <2>8. Piece(a, 0, 0) = <<>>  BY <2>7, PieceFacts
  <2>9. Submits(a)'  BY <2>4 DEF Submits
  <2>10. Pushed(a, s)'  BY <2>4, <2>5, <2>6, <2>7, <2>8 DEF Pushed
  <2>11. Asked(a, s)'  BY <2>9 DEF Asked
  <2>12. ~(Replies /\ h.slot = s)  BY <2>2, <2>3 DEF RInv, HostsSlot
  <2>13. Told(a, s)'  BY <2>5, <2>12 DEF Told, Replies
  <2>. QED  BY <2>10, <2>11, <2>13
<1>. QED  BY <1>1, <1>2

\* What readRes read stays true as long as the worker stands still.
LEMMA ReadKept ==
    ASSUME Read, w' = w, shape' = shape,
           w.pc \in {"handback", "decide"} =>
             pending'[w.slot] = pending[w.slot] /\ finalStatus'[w.slot] = finalStatus[w.slot]
    PROVE  Read'
<1>1. ASSUME w.pc \in {"handback", "decide"}
      PROVE  Says(w.call, w.slot, w.status, w.bytes)'
  BY <1>1 DEF Read, Says, Submits, Got
<1>. QED  BY <1>1 DEF Read

\* readRes copies what the slot says to its call, and collect appends what it read.
LEMMA ReadStep == ASSUME IInv, TInv, RInv, AInv, Quiet, Quiet', Next PROVE Read'
<1> USE DEF reqPool, resArea, program, tables
<1>a. TypeOK  BY DEF IInv
<1>q. /\ ~hostGone /\ ~hostGone' /\ "PENDING" \notin CancelFrom
      /\ h.pc # "fail" /\ h.ret # "fail"
  BY DEF Quiet, TInv, StopAt
<1>1. ASSUME NEW c \in Calls, Collect(c) PROVE Read'
  <2>1. ticket[c] = [slot |-> ticket[c].slot, gen |-> gen[ticket[c].slot]] /\ ticket[c] # NoTicket
    BY <1>1 DEF Collect, Live, IInv, TypeOK, Tickets, NoTicket
  <2>2. c \in Given  BY <2>1 DEF TInv, Numbered
  <2>3. shape[c] \in Shapes /\ c \in 0 .. MaxCalls  BY <1>a, <2>2, SizesAssumption DEF TypeOK, Given, Calls
  <2>4. shape[c].len \in Nat /\ Piece(c, 0, 0) = <<>>  BY <2>3, ShapesAssumption, PieceFacts
  <2>5. /\ w'.pc = "seen" /\ w'.loop = "await" /\ w'.fn = "collect" /\ w'.call = c /\ w'.got = <<>>
        /\ shape' = shape
    BY <1>1 DEF Collect, WorkerIdle
  <2>6. Len(w'.got) = 0  BY <2>5
  <2>. QED  BY <2>4, <2>5, <2>6 DEF Read
<1>2. CASE Park
  <2>1. CASE hostGone /\ Raise
    BY <1>2, <2>1, <1>a, RaiseEffect, ParkEffect, <1>q DEF IInv, AInv, Read, WorkerAt
  <2>2. CASE ~hostGone /\ GoesOn /\ w'.slot = w.slot /\ w'.pc \in {"parked", "seen"}
    BY <1>2, <2>2, <1>a, ParkEffect, <1>q DEF GoesOn, IInv, AInv, Read, WorkerAt
  <2>. QED  BY <1>2, <2>1, <2>2, <1>a, ParkEffect
<1>3. ASSUME NEW timeout \in BOOLEAN, Unpark(timeout) PROVE Read'
  <2>1. CASE hostGone /\ Raise
    BY <1>3, <2>1, <1>a, RaiseEffect, ParkEffect, <1>q DEF IInv, AInv, Read, WorkerAt
  <2>2. CASE ~hostGone /\ GoesOn /\ w'.slot = w.slot /\ w'.pc \in {"parked", "seen"}
    BY <1>3, <2>2, <1>a, ParkEffect, <1>q DEF GoesOn, IInv, AInv, Read, WorkerAt
  <2>. QED  BY <1>3, <2>1, <2>2, <1>a, ParkEffect
<1>4. CASE ClaimNext
  <2>0. /\ w.pc = "claim"
        /\ UNCHANGED <<status, gen, op, reqPool, resArea, hostGone, shape, h, tables>>
    BY <1>4, <1>a, ClaimEffect
  <2>1. CASE Raise
    BY <2>0, <2>1, <1>a, RaiseEffect, <1>q DEF IInv, AInv, Read, WorkerAt
  <2>2. CASE GoesOn /\ w'.pc \in {"claim", "park"}
    BY <2>0, <2>2, <1>q DEF GoesOn, IInv, AInv, Read, WorkerAt
  <2>. QED  BY <1>4, <2>1, <2>2, <1>a, ClaimEffect
<1>5. CASE TakeReqBuf
  BY <1>5, <1>a, TakeReqBufEffect, <1>q DEF IInv, AInv, Read, WorkerAt
<1>6. CASE PublishPiece
  <2>1. w.fn = "submit" /\ w.loop = "reqbuf"  BY <1>6 DEF PublishPiece, IInv, WorkerAt
  <2>2. \/ w' = WorkerIdle
        \/ w' = [w EXCEPT !.pc = "seen", !.loop = "await", !.sent = @ + 1, !.buf = 0]
    BY <1>6 DEF PublishPiece
  <2>3. CASE w' = WorkerIdle  BY <2>3 DEF Read, WorkerIdle
  <2>4. CASE w' = [w EXCEPT !.pc = "seen", !.loop = "await", !.sent = @ + 1, !.buf = 0]
    <3>1. w'.fn = "submit" /\ w'.loop = "await" /\ w'.pc = "seen"
      BY <1>a, <2>1, <2>4 DEF TypeOK, WorkerRegs
    <3>. QED  BY <3>1 DEF Read
  <2>. QED  BY <2>2, <2>3, <2>4
<1>7. CASE AwaitReady
  <2>1. /\ w.pc = "await" /\ w.loop = "await" /\ shape' = shape
        /\ w' = [w EXCEPT !.pc = IF status[w.slot] = "READY" THEN "read" ELSE "park"]
    BY <1>7 DEF AwaitReady, IInv, WorkerAt
  <2>2. /\ w'.pc \in {"read", "park"} /\ w'.fn = w.fn /\ w'.loop = w.loop /\ w'.call = w.call
        /\ w'.got = w.got
    BY <1>a, <2>1 DEF TypeOK, WorkerRegs
  <2>. QED  BY <2>1, <2>2 DEF AInv, Read
<1>8. CASE ReadRes
  <2>1. /\ w.pc = "read" /\ w.loop = "await" /\ w.slot \in Slots /\ status[w.slot] = "READY"
        /\ w'.pc = "handback" /\ w'.status = resStatus[w.slot] /\ w'.bytes = Bytes(w.slot)
        /\ w'.fn = w.fn /\ w'.loop = w.loop /\ w'.call = w.call /\ w'.slot = w.slot /\ w'.got = w.got
        /\ UNCHANGED <<shape, pending, finalStatus>>
    BY <1>8, <1>a DEF ReadRes, IInv, WorkerAt, WorkersSlot, TypeOK, WorkerRegs, Bytes
  <2>2. w.call \in Calls /\ Holds(w.call, w.slot)
    BY <2>1, SizesAssumption DEF TInv, WorkerHolds, IInv, WorkerAt, HostAt, Given, Calls
  <2>3. Says(w.call, w.slot, resStatus[w.slot], Bytes(w.slot))
    <3>1. Told(w.call, w.slot)  BY <2>1, <2>2 DEF AInv, Contents
    <3>. QED  BY <2>1, <3>1 DEF Told
  <2>4. Says(w.call, w.slot, w.status, w.bytes)'
    BY <2>1, <2>3 DEF Says, Submits, Got
  <2>. QED  BY <2>1, <2>4 DEF AInv, Read
<1>9. CASE HandBack
  <2>1. /\ w.pc = "handback" /\ w.loop = "await" /\ w'.pc = "decide"
        /\ w'.status = w.status /\ w'.bytes = w.bytes
        /\ w'.fn = w.fn /\ w'.loop = w.loop /\ w'.call = w.call /\ w'.slot = w.slot /\ w'.got = w.got
        /\ UNCHANGED <<shape, pending, finalStatus>>
    BY <1>9, <1>a DEF HandBack, IInv, WorkerAt, TypeOK, WorkerRegs
  <2>2. Says(w.call, w.slot, w.status, w.bytes)  BY <2>1 DEF AInv, Read
  <2>3. Says(w.call, w.slot, w.status, w.bytes)'
    BY <2>1, <2>2 DEF Says, Submits, Got
  <2>. QED  BY <2>1, <2>3 DEF AInv, Read
<1>10. CASE CollectMore
  <2>1. /\ w.pc = "decide" /\ w.fn = "collect" /\ w.loop = "await" /\ w.status = "MORE"
        /\ w'.pc = "seen" /\ w'.fn = w.fn /\ w'.loop = w.loop /\ w'.call = w.call
        /\ w'.got = w.got \o w.bytes /\ shape' = shape
    BY <1>10, <1>a DEF CollectMore, IInv, WorkerAt, TypeOK, WorkerRegs
  <2>2. w.call \in Given /\ w.call \in 0 .. MaxCalls
    BY <1>a, <2>1, SizesAssumption DEF TInv, WorkerHolds, IInv, HostAt, Given, TypeOK, WorkerRegs
  <2>3. shape[w.call].len \in Nat  BY <1>a, <2>2, ShapesAssumption DEF TypeOK, Given
  <2>4. Says(w.call, w.slot, "MORE", w.bytes)  BY <2>1 DEF AInv, Read
  <2>5. w.got = Piece(w.call, 0, Len(w.got)) /\ Len(w.got) \in Nat
    BY <1>a, <2>1 DEF AInv, Read, TypeOK, WorkerRegs, Payloads
  <2>6. PICK n \in Len(w.got) .. shape[w.call].len : w.bytes = Piece(w.call, Len(w.got), n)
    <3>1. ~Submits(w.call) /\ Got(w.call) = Len(w.got)  BY <2>1 DEF Submits, Got
    <3>. QED  BY <2>4, <3>1 DEF Says
  <2>7. n \in Nat /\ Len(w.got) <= n /\ 0 <= Len(w.got) /\ n <= shape[w.call].len /\ 0 <= n
    BY <2>3, <2>5, <2>6
  <2>8. w'.got = Piece(w.call, 0, n)
    <3>1. Piece(w.call, 0, Len(w.got)) \o Piece(w.call, Len(w.got), n) = Piece(w.call, 0, n)
      BY <2>2, <2>5, <2>7, PieceJoin
    <3>. QED  BY <2>1, <2>5, <2>6, <3>1
  <2>9. Len(w'.got) = n
    <3>1. Len(Piece(w.call, 0, n)) = n - 0  BY <2>2, <2>7, PieceIs
    <3>2. n - 0 = n  BY <2>7
    <3>. QED  BY <2>8, <3>1, <3>2
  <2>. QED  BY <2>1, <2>7, <2>8, <2>9 DEF Read
<1>11. CASE WaitScan
  <2>1. w.fn = "waitAny"  BY <1>11, <1>a DEF WaitScan, IInv, WorkerAt, TypeOK, WorkerRegs
  <2>2. w' = WorkerIdle \/ w' = [w EXCEPT !.pc = "park"]  BY <1>11 DEF WaitScan
  <2>3. CASE w' = WorkerIdle  BY <2>3 DEF Read, WorkerIdle
  <2>4. CASE w' = [w EXCEPT !.pc = "park"]
    <3>1. w'.fn = w.fn /\ w'.loop = w.loop /\ w'.pc = "park"  BY <1>a, <2>4 DEF TypeOK, WorkerRegs
    <3>. QED  BY <2>1, <3>1 DEF Read, IInv, WorkerAt
  <2>. QED  BY <2>2, <2>3, <2>4
<1>12. CASE Abandon
  <2>1. status[h.slot] = "CANCELLED" /\ w' = w /\ shape' = shape
    BY <1>12 DEF Abandon
  <2>2. w.pc \in {"handback", "decide"} => w.slot # h.slot /\ w.slot \in Slots
    BY <2>1 DEF IInv, WorkersSlot, WorkerAt, RInv, HostsSlot, Replies
  <2>3. w.slot # h.slot /\ w.slot \in Slots =>
          pending'[w.slot] = pending[w.slot] /\ finalStatus'[w.slot] = finalStatus[w.slot]
    BY <1>12, <1>a DEF Abandon, TypeOK
  <2>. QED  BY <2>1, <2>2, <2>3, ReadKept DEF AInv
<1>13. CASE TakeContinue
  <2>1. status[h.slot] = "PENDING" /\ w' = w /\ shape' = shape
    BY <1>13 DEF TakeContinue, Taken
  <2>2. w.pc \in {"handback", "decide"} => w.slot # h.slot /\ w.slot \in Slots
    BY <2>1 DEF IInv, WorkersSlot, WorkerAt, RInv, HostsSlot, Replies
  <2>3. w.slot # h.slot /\ w.slot \in Slots =>
          pending'[w.slot] = pending[w.slot] /\ finalStatus'[w.slot] = finalStatus[w.slot]
    BY <1>13, <1>a DEF TakeContinue, TypeOK
  <2>. QED  BY <2>1, <2>2, <2>3, ReadKept DEF AInv
<1>14. CASE Write
  <2>1. h.pc = "write" /\ w' = w /\ shape' = shape
    BY <1>14, WriteEffect DEF Replies
  <2>2. w.pc \in {"handback", "decide"} => w.slot # h.slot /\ w.slot \in Slots
    BY <2>1 DEF IInv, WorkersSlot, WorkerAt, RInv, HostsSlot, Replies
  <2>3. w.slot # h.slot /\ w.slot \in Slots =>
          pending'[w.slot] = pending[w.slot] /\ finalStatus'[w.slot] = finalStatus[w.slot]
    BY <1>14, <1>a, WriteEffect DEF Replies, TypeOK
  <2>. QED  BY <2>1, <2>2, <2>3, ReadKept DEF AInv
<1>15. CASE PublishLost
  <2>1. h.pc = "publish" /\ w' = w /\ shape' = shape
    BY <1>15 DEF PublishLost
  <2>2. w.pc \in {"handback", "decide"} => w.slot # h.slot /\ w.slot \in Slots
    BY <2>1 DEF IInv, WorkersSlot, WorkerAt, RInv, HostsSlot, Replies
  <2>3. w.slot # h.slot /\ w.slot \in Slots =>
          pending'[w.slot] = pending[w.slot] /\ finalStatus'[w.slot] = finalStatus[w.slot]
    BY <1>15, <1>a DEF PublishLost, TypeOK
  <2>. QED  BY <2>1, <2>2, <2>3, ReadKept DEF AInv
<1>16. ASSUME NEW sh \in Shapes, Submit(sh) PROVE Read'
  BY <1>16, <1>q DEF Submit, WorkerIdle, IInv, AInv, Read, WorkerAt, TypeOK, WorkerRegs
<1>17. ASSUME NEW c \in Calls, CancelBump(c) PROVE Read'
  BY <1>17, <1>q DEF CancelBump, WorkerIdle, Live, IInv, AInv, Read, WorkerAt, TypeOK,
     WorkerRegs
<1>18. ASSUME NEW set \in SUBSET Calls, NEW timed \in BOOLEAN, WaitAny(set, timed) PROVE
      Read'
  BY <1>18, <1>q DEF WaitAny, WorkerIdle, IInv, AInv, Read, WorkerAt, TypeOK, WorkerRegs
<1>19. CASE Look
  BY <1>19, <1>q DEF Look, IInv, AInv, Read, WorkerAt, TypeOK, WorkerRegs
<1>20. CASE ClaimSlot
  BY <1>20, <1>q DEF ClaimSlot, IInv, AInv, Read, WorkerAt, TypeOK, WorkerRegs
<1>21. CASE NextPiece
  BY <1>21, <1>q DEF NextPiece, IInv, AInv, Read, WorkerAt, TypeOK, WorkerRegs
<1>22. CASE PieceFailed
  BY <1>22, <1>q DEF PieceFailed, Raise, WorkerIdle, NoTicket, Release, IInv, AInv,
     Read, WorkerAt, TypeOK, WorkerRegs
<1>23. CASE CollectLast
  BY <1>23, <1>q DEF CollectLast, WorkerIdle, Release, IInv, AInv, Read, WorkerAt,
     TypeOK, WorkerRegs
<1>24. CASE CancelStore
  BY <1>24, <1>q DEF CancelStore, WorkerIdle, IInv, AInv, Read, WorkerAt, TypeOK,
     WorkerRegs
<1>f. CASE UNCHANGED <<w, shape, pending, finalStatus>>  BY <1>f, ReadKept DEF AInv
<1>p. CASE Program
  BY <1>p, <1>16, <1>1, <1>17, <1>18, <1>f
  DEF Program, CancelReady, Release
<1>w. CASE Worker
  BY <1>w, <1>19, <1>2, <1>3, <1>20, <1>4, <1>5, <1>6, <1>7, <1>8, <1>9, <1>21, <1>22,
     <1>10, <1>23, <1>24, <1>11
  DEF Worker, Wake
<1>h. CASE Host
  BY <1>h, <1>12, <1>13, <1>14, <1>15, <1>f
  DEF Host, LoopWake, SweepSkip, SweepDone, Take, TakeLost, TakePush, TakeDispatch,
      TakeUnknown, Reply, WriteStale, Publish, FailSkip, FailSlot, FailDone, Taken,
      DetachRequest
<1>t. CASE Timeout  BY <1>t, <1>3 DEF Timeout
<1>d. CASE HandlerDone  BY <1>d, <1>f DEF HandlerDone, Complete
<1>s. CASE Stop  BY <1>s, <1>f DEF Stop
<1>. QED  BY <1>p, <1>w, <1>h, <1>t, <1>d, <1>s DEF Next

\* A handler keeps its call as long as that call keeps its ticket and its shape.
LEMMA OwnKept ==
    ASSUME HandlersAreOwn, handlers' \subseteq handlers,
           \A c \in Given : ~Submits(c) =>
             /\ c \in Given' /\ shape'[c] = shape[c] /\ ~Submits(c)' /\ ticket'[c] = ticket[c]
    PROVE  HandlersAreOwn'
<1> SUFFICES ASSUME NEW k \in handlers
             PROVE  \E c \in Given' : /\ k.whole = Request(c)' /\ ~Submits(c)' /\ shape'[c].op = "cap"
                                      /\ ticket'[c] = [slot |-> k.slot, gen |-> k.gen]
  BY DEF HandlersAreOwn
<1>1. PICK c \in Given : /\ k.whole = Request(c) /\ ~Submits(c) /\ shape[c].op = "cap"
                         /\ ticket[c] = [slot |-> k.slot, gen |-> k.gen]
  BY DEF HandlersAreOwn
<1>2. c \in Given' /\ shape'[c] = shape[c] /\ ~Submits(c)' /\ ticket'[c] = ticket[c]  BY <1>1
<1>3. Request(c)' = Request(c)  BY <1>2 DEF Request
<1>. QED  BY <1>1, <1>2, <1>3

\* take joins the pieces of the call that holds the slot, under the generation of its ticket.
LEMMA HandlersAreOwnStep == ASSUME IInv, TInv, RInv, AInv, Quiet, Quiet', Next PROVE HandlersAreOwn'
<1> USE DEF reqPool, resArea, program, tables
<1>a. TypeOK  BY DEF IInv
<1>q. /\ ~hostGone /\ ~hostGone' /\ "PENDING" \notin CancelFrom
      /\ h.pc # "fail" /\ h.ret # "fail"
  BY DEF Quiet, TInv, StopAt
<1>g. \A x \in Given : x \in Calls  BY <1>a, SizesAssumption DEF TypeOK, IInv, HostAt, Given, Calls
<1>1. ASSUME NEW sh \in Shapes, Submit(sh) PROVE HandlersAreOwn'
  <2>1. /\ Len(shape) \in Nat /\ shape' = Append(shape, sh) /\ w'.call = Len(shape) + 1
        /\ UNCHANGED <<ticket, handlers>>
    BY <1>1, <1>a DEF Submit, WorkerIdle, TypeOK
  <2>2. \A c \in Given : c # Len(shape) + 1 /\ c \in Given' /\ shape'[c] = shape[c]
    BY <1>a, <2>1 DEF Given, TypeOK
  <2>. QED  BY <2>1, <2>2, OwnKept DEF AInv, Submits, Given
<1>2. CASE Park
  <2>1. /\ UNCHANGED <<shape, handlers>>
        /\ w'.fn = "none" \/ (w'.fn = w.fn /\ w'.call = w.call)
        /\ \A c \in Calls : ~(w.fn = "submit" /\ c = w.call) => ticket'[c] = ticket[c]
    BY <1>2, <1>a, RaiseEffect, ParkEffect DEF GoesOn
  <2>. QED  BY <1>g, <2>1, OwnKept DEF AInv, Submits, Given
<1>3. ASSUME NEW timeout \in BOOLEAN, Unpark(timeout) PROVE HandlersAreOwn'
  <2>1. /\ UNCHANGED <<shape, handlers>>
        /\ w'.fn = "none" \/ (w'.fn = w.fn /\ w'.call = w.call)
        /\ \A c \in Calls : ~(w.fn = "submit" /\ c = w.call) => ticket'[c] = ticket[c]
    BY <1>3, <1>a, RaiseEffect, ParkEffect DEF GoesOn
  <2>. QED  BY <1>g, <2>1, OwnKept DEF AInv, Submits, Given
<1>4. CASE ClaimSlot
  <2>1. /\ UNCHANGED <<shape, handlers>> /\ w.fn = "submit"
        /\ w'.fn = w.fn /\ w'.call = w.call
        /\ \A c \in Calls : c # w.call => ticket'[c] = ticket[c]
    BY <1>4, <1>a DEF ClaimSlot, IInv, WorkerAt, TypeOK, WorkerRegs
  <2>. QED  BY <1>g, <2>1, OwnKept DEF AInv, Submits, Given
<1>5. CASE ClaimNext
  <2>1. /\ UNCHANGED <<shape, handlers>>
        /\ w'.fn = "none" \/ (w'.fn = w.fn /\ w'.call = w.call)
        /\ \A c \in Calls : ~(w.fn = "submit" /\ c = w.call) => ticket'[c] = ticket[c]
    BY <1>5, <1>a, RaiseEffect, ClaimEffect DEF GoesOn
  <2>. QED  BY <1>g, <2>1, OwnKept DEF AInv, Submits, Given
<1>6. CASE TakeReqBuf
  <2>1. UNCHANGED <<shape, handlers, ticket>> /\ w'.fn = w.fn /\ w'.call = w.call
    BY <1>6, <1>a, TakeReqBufEffect
  <2>. QED  BY <2>1, OwnKept DEF AInv, Submits, Given
<1>7. CASE PieceFailed
  <2>1. /\ UNCHANGED <<shape, handlers>>
        /\ w'.fn = "none" \/ (w'.fn = w.fn /\ w'.call = w.call)
        /\ \A c \in Calls : ~(w.fn = "submit" /\ c = w.call) => ticket'[c] = ticket[c]
    BY <1>7, <1>a, RaiseEffect DEF PieceFailed
  <2>. QED  BY <1>g, <2>1, OwnKept DEF AInv, Submits, Given
<1>8. CASE TakeDispatch
  <2> DEFINE n == [slot |-> h.slot, gen |-> h.gen, whole |-> Joined(h.slot)]
             s == h.slot
  <2>1. /\ h.pc = "taken" /\ s \in Slots /\ status[s] = "PENDING" /\ op[s] = "cap"
        /\ handlers' = handlers \union {n} /\ h.gen = gen[s] /\ UNCHANGED <<w, shape, ticket>>
    BY <1>8 DEF TakeDispatch, Taken, IInv, HostAt, RInv, HostsSlot
  <2>2. PICK c \in Calls : ticket[c] = [slot |-> s, gen |-> gen[s]]
    <3>1. ~(w.pc = "cancel" /\ w.slot = s)  BY <2>1 DEF RInv, HostsSlot
    <3>. QED  BY <1>q, <2>1, <3>1 DEF TInv, NoSlotStranded
  <2>3. Holds(c, s)  BY <2>2 DEF Holds
  <2>4. /\ c \in Given /\ c \in 0 .. MaxCalls /\ shape[c].pieces \in Nat /\ shape[c].pieces >= 1
        /\ shape[c].len \in Nat
        /\ w.fn = "submit" /\ w.loop # "claim" => (w.slot = s <=> w.call = c)
        /\ w.fn = "submit" /\ w.loop = "claim" => w.call # c
    BY <2>1, <2>3, Held
  <2>5. ~Submits(c)
    <3>1. SUFFICES ASSUME Submits(c) PROVE FALSE  OBVIOUS
    <3>2. w.loop = "await"  BY <2>1, <2>4, <3>1 DEF Submits, IInv, WorkerAt, WorkersSlot
    <3>3. Pushed(c, s)  BY <2>1, <2>3 DEF AInv, Contents
    <3>. QED  BY <2>1, <3>1, <3>2, <3>3 DEF Pushed
  <2>6. /\ shape[c].op = "cap" /\ partial[s] = Piece(c, 0, shape[c].pieces - 1)
        /\ h.payload = Piece(c, shape[c].pieces - 1, shape[c].pieces)
    <3>1. Asked(c, s)  BY <2>1, <2>3 DEF AInv, Contents
    <3>. QED  BY <2>1, <2>5, <3>1 DEF Asked, OnItsWay
  <2>7. Joined(s) = Request(c)
    <3> DEFINE m == shape[c].pieces - 1
               z == shape[c].pieces
    <3>1. m \in Nat /\ 0 <= m /\ m <= z /\ z \in Nat  BY <2>4
    <3> HIDE DEF m, z
    <3>2. Piece(c, 0, m) \o Piece(c, m, z) = Piece(c, 0, z)  BY <2>4, <3>1, PieceJoin
    <3>3. Request(c) = Piece(c, 0, z)  BY <2>4, RequestIs DEF z
    <3>. QED  BY <2>6, <3>2, <3>3 DEF Joined, m, z
  <2>8. n.whole = Request(c) /\ n.slot = s /\ n.gen = gen[s]  BY <2>1, <2>7
  <2> HIDE DEF n, s
  <2>9. \A x \in Given : Request(x)' = Request(x) /\ Submits(x)' = Submits(x) /\ Given' = Given
    BY <2>1 DEF Request, Submits, Given
  <2>. QED  BY <2>1, <2>2, <2>4, <2>5, <2>6, <2>8, <2>9 DEF AInv, HandlersAreOwn
<1>9. ASSUME NEW c \in Calls, Collect(c) PROVE HandlersAreOwn'
  BY <1>9, <1>q, OwnKept DEF Collect, WorkerIdle, Live, IInv, AInv, Submits, Given,
     WorkerAt, TypeOK, WorkerRegs
<1>10. ASSUME NEW c \in Calls, CancelBump(c) PROVE HandlersAreOwn'
  BY <1>10, <1>q, OwnKept DEF CancelBump, WorkerIdle, Live, IInv, AInv, Submits, Given,
     WorkerAt, TypeOK, WorkerRegs
<1>11. ASSUME NEW set \in SUBSET Calls, NEW timed \in BOOLEAN, WaitAny(set, timed) PROVE
      HandlersAreOwn'
  BY <1>11, <1>q, OwnKept DEF WaitAny, WorkerIdle, IInv, AInv, Submits, Given, WorkerAt,
     TypeOK, WorkerRegs
<1>12. CASE Look
  BY <1>12, <1>q, OwnKept DEF Look, IInv, AInv, Submits, Given, WorkerAt, TypeOK,
     WorkerRegs
<1>13. CASE PublishPiece
  BY <1>13, <1>q, OwnKept DEF PublishPiece, WorkerIdle, IInv, AInv, Submits, Given,
     WorkerAt, TypeOK, WorkerRegs
<1>14. CASE AwaitReady
  BY <1>14, <1>q, OwnKept DEF AwaitReady, IInv, AInv, Submits, Given, WorkerAt, TypeOK,
     WorkerRegs
<1>15. CASE ReadRes
  BY <1>15, <1>q, OwnKept DEF ReadRes, IInv, AInv, Submits, Given, WorkerAt, TypeOK,
     WorkerRegs
<1>16. CASE HandBack
  BY <1>16, <1>q, OwnKept DEF HandBack, IInv, AInv, Submits, Given, WorkerAt, TypeOK,
     WorkerRegs
<1>17. CASE NextPiece
  BY <1>17, <1>q, OwnKept DEF NextPiece, IInv, AInv, Submits, Given, WorkerAt, TypeOK,
     WorkerRegs
<1>18. CASE CollectMore
  BY <1>18, <1>q, OwnKept DEF CollectMore, IInv, AInv, Submits, Given, WorkerAt, TypeOK,
     WorkerRegs
<1>19. CASE CollectLast
  BY <1>19, <1>q, OwnKept DEF CollectLast, WorkerIdle, Release, IInv, AInv, Submits,
     Given, WorkerAt, TypeOK, WorkerRegs
<1>20. CASE CancelStore
  BY <1>20, <1>q, OwnKept DEF CancelStore, WorkerIdle, IInv, AInv, Submits, Given,
     WorkerAt, TypeOK, WorkerRegs
<1>21. CASE WaitScan
  BY <1>21, <1>q, OwnKept DEF WaitScan, WorkerIdle, IsDone, Live, IInv, AInv, Submits,
     Given, WorkerAt, TypeOK, WorkerRegs
<1>22. ASSUME NEW k \in handlers, Complete(k) PROVE HandlersAreOwn'
  BY <1>22, <1>q, OwnKept DEF Complete, HostIdle, StillOurs, IInv, AInv, Submits, Given,
     WorkerAt, TypeOK, WorkerRegs
<1>f. CASE UNCHANGED <<handlers, shape, ticket, w>>  BY <1>f, OwnKept DEF AInv, Submits, Given
<1>p. CASE Program
  BY <1>p, <1>1, <1>9, <1>10, <1>11, <1>f
  DEF Program, CancelReady, Release
<1>w. CASE Worker
  BY <1>w, <1>12, <1>2, <1>3, <1>4, <1>5, <1>6, <1>13, <1>14, <1>15, <1>16, <1>17, <1>7,
     <1>18, <1>19, <1>20, <1>21
  DEF Worker, Wake
<1>h. CASE Host
  BY <1>h, <1>8, <1>f
  DEF Host, LoopWake, SweepSkip, SweepDone, Abandon, Take, TakeLost, TakeContinue,
      TakePush, TakeUnknown, Reply, WriteStale, Write, Publish, PublishLost, FailSkip,
      FailSlot, FailDone, DetachBoth, Taken, DetachRequest
<1>t. CASE Timeout  BY <1>t, <1>3 DEF Timeout
<1>d. CASE HandlerDone  BY <1>d, <1>22 DEF HandlerDone
<1>s. CASE Stop  BY <1>s, <1>f DEF Stop
<1>. QED  BY <1>p, <1>w, <1>h, <1>t, <1>d, <1>s DEF Next

\* A slot is freed after its request was dispatched, or by abandon, which forgets the pieces.
LEMMA CleanStep == ASSUME IInv, TInv, RInv, AInv, Quiet, Quiet', Next PROVE Clean'
<1> USE DEF reqPool, resArea, program, tables
<1>a. TypeOK  BY DEF IInv
<1>q. /\ ~hostGone /\ ~hostGone' /\ "PENDING" \notin CancelFrom
      /\ h.pc # "fail" /\ h.ret # "fail"
  BY DEF Quiet, TInv, StopAt
<1>1. ASSUME NEW c \in Calls, CancelReady(c) PROVE Clean'
  <2>1. /\ ticket[c].slot \in Slots /\ status[ticket[c].slot] = "READY" /\ w.fn = "none"
        /\ status' = [status EXCEPT ![ticket[c].slot] = "FREE"] /\ partial' = partial
    BY <1>1, <1>a, LiveSlot DEF CancelReady, Release, IInv, WorkerAt
  <2>2. Holds(c, ticket[c].slot)  BY <1>1 DEF CancelReady, Live, Holds
  <2>3. Asked(c, ticket[c].slot)  BY <2>1, <2>2 DEF AInv, Contents
  <2>4. partial[ticket[c].slot] = <<>>  BY <2>1, <2>3 DEF Asked, Submits
  <2>. QED  BY <1>a, <2>1, <2>4 DEF AInv, Clean, TypeOK
<1>2. CASE PieceFailed
  <2>1. w.pc = "decide" /\ w.fn = "submit" /\ w.status = "ERR"  BY <1>2 DEF PieceFailed
  <2>2. Says(w.call, w.slot, w.status, w.bytes)  BY <2>1 DEF AInv, Read
  <2>. QED  BY <2>1, <2>2 DEF Says, Submits
<1>3. CASE CollectLast
  <2>1. /\ w.slot \in Slots /\ status[w.slot] = "READY" /\ w.fn = "collect" /\ w.call \in Calls
        /\ status' = [status EXCEPT ![w.slot] = "FREE"] /\ partial' = partial
    BY <1>3, SizesAssumption
    DEF CollectLast, Release, IInv, WorkerAt, WorkersSlot, HostAt, TInv, WorkerHolds, Given, Calls
  <2>2. Holds(w.call, w.slot)  BY <2>1 DEF TInv, WorkerHolds
  <2>3. Asked(w.call, w.slot)  BY <2>1, <2>2 DEF AInv, Contents
  <2>4. partial[w.slot] = <<>>  BY <2>1, <2>3 DEF Asked, Submits
  <2>. QED  BY <1>a, <2>1, <2>4 DEF AInv, Clean, TypeOK
<1>4. CASE FailSlot
  BY <1>4, <1>q DEF FailSlot
<1>5. CASE ClaimSlot
  BY <1>5, <1>q DEF ClaimSlot, IInv, AInv, Clean, TypeOK, HostRegs, WorkerAt, HostAt,
     Slots
<1>6. CASE PublishPiece
  BY <1>6, <1>q DEF PublishPiece, WorkerIdle, IInv, AInv, Clean, TypeOK, HostRegs,
     WorkerAt, HostAt, Slots
<1>7. CASE CollectMore
  BY <1>7, <1>q DEF CollectMore, IInv, AInv, Clean, TypeOK, HostRegs, WorkerAt, HostAt,
     Slots
<1>8. CASE CancelStore
  BY <1>8, <1>q DEF CancelStore, WorkerIdle, IInv, AInv, Clean, TypeOK, HostRegs,
     WorkerAt, HostAt, Slots
<1>9. CASE Abandon
  BY <1>9, <1>q DEF Abandon, SweepNext, HostIdle, DetachBoth, IInv, AInv, Clean, TypeOK,
     HostRegs, WorkerAt, HostAt, Slots
<1>10. CASE TakeContinue
  BY <1>10, <1>q DEF TakeContinue, Replying, Taken, IInv, AInv, Clean, TypeOK, HostRegs,
     WorkerAt, HostAt, Slots
<1>11. CASE TakePush
  BY <1>11, <1>q DEF TakePush, Replying, Taken, IInv, AInv, Clean, TypeOK, HostRegs,
     WorkerAt, HostAt, Slots
<1>12. CASE TakeDispatch
  BY <1>12, <1>q DEF TakeDispatch, SweepNext, HostIdle, Taken, Joined, IInv, AInv,
     Clean, TypeOK, HostRegs, WorkerAt, HostAt, Slots
<1>13. CASE TakeUnknown
  BY <1>13, <1>q DEF TakeUnknown, Replying, Taken, IInv, AInv, Clean, TypeOK, HostRegs,
     WorkerAt, HostAt, Slots
<1>14. CASE Publish
  BY <1>14, <1>q DEF Publish, Return, HostIdle, PublishWins, IInv, AInv, Clean, TypeOK,
     HostRegs, WorkerAt, HostAt, Slots
<1>f. CASE UNCHANGED <<status, partial>>  BY <1>f DEF AInv, Clean
<1>p. CASE Program
  BY <1>p, <1>1, <1>f
  DEF Program, Submit, Collect, CancelBump, WaitAny
<1>w. CASE Worker
  BY <1>w, <1>5, <1>6, <1>2, <1>7, <1>3, <1>8, <1>f
  DEF Worker, Wake, Look, Park, Unpark, ClaimNext, TakeReqBuf, AwaitReady, ReadRes,
      HandBack, NextPiece, WaitScan
<1>h. CASE Host
  BY <1>h, <1>9, <1>10, <1>11, <1>12, <1>13, <1>14, <1>4, <1>f
  DEF Host, LoopWake, SweepSkip, SweepDone, Take, TakeLost, Reply, WriteStale, Write,
      PublishLost, FailSkip, FailDone
<1>t. CASE Timeout  BY <1>t, <1>f DEF Timeout, Unpark
<1>d. CASE HandlerDone  BY <1>d, <1>f DEF HandlerDone, Complete
<1>s. CASE Stop  BY <1>s, <1>f DEF Stop
<1>. QED  BY <1>p, <1>w, <1>h, <1>t, <1>d, <1>s DEF Next

\* Nothing is on its way in a bridge that has just started.
LEMMA AnswersInit == ASSUME Init PROVE AInv
<1>1. \A c \in Calls, s \in Slots : ~Holds(c, s)  BY DEF Init, Holds, NoTicket, Slots
<1>2. Contents  BY <1>1 DEF Contents
<1>3. Read  BY DEF Init, Read, WorkerIdle
<1>4. HandlersAreOwn  BY DEF Init, HandlersAreOwn
<1>5. Clean  BY DEF Init, Clean
<1>. QED  BY <1>2, <1>3, <1>4, <1>5 DEF AInv

\* A step that changes nothing keeps what is.
LEMMA AnswersStutter == ASSUME AInv, UNCHANGED vars PROVE AInv'
<1> USE DEF vars, reqPool, resArea, program, tables
<1>1. Contents'
  <2> SUFFICES ASSUME NEW a \in Calls, NEW s \in Slots, Holds(a, s)
               PROVE  Pushed(a, s)' /\ Asked(a, s)' /\ Told(a, s)'
    BY DEF Contents, Holds
  <2>1. Pushed(a, s) /\ Asked(a, s) /\ Told(a, s)  BY DEF AInv, Contents
  <2>2. Pushed(a, s)'  BY <2>1 DEF Pushed, Submits, OnItsWay, Replies
  <2>3. Asked(a, s)'  BY <2>1 DEF Asked, Submits, Got, OnItsWay, Replies
  <2>4. Told(a, s)'
    <3>1. /\ (Submits(a)' <=> Submits(a)) /\ Got(a)' = Got(a) /\ Bytes(s)' = Bytes(s)
          /\ (Spent(s)' <=> Spent(s))
      BY DEF Submits, Got, Bytes, Spent
    <3>. QED  BY <2>1, <3>1, ToldKept
  <2>. QED  BY <2>2, <2>3, <2>4
<1>2. Read'  BY ReadKept DEF AInv
<1>3. HandlersAreOwn'  BY OwnKept DEF AInv, Submits, Given
<1>4. Clean'  BY DEF AInv, Clean
<1>. QED  BY <1>1, <1>2, <1>3, <1>4 DEF AInv

\* In every state in which the responder has not gone, of every bridge whose program cancels no
\* call the host has not taken, every slot, register and handler holds what is its call's own.
THEOREM AnswersInvariance == Spec => [](Quiet => AInv)
<1>1. Init => AInv  BY AnswersInit
<1>2. IInv /\ TInv /\ (Quiet => RInv) /\ (Quiet => AInv) /\ [Next]_vars => (Quiet => AInv)'
  <2>1. SUFFICES ASSUME IInv, TInv, Quiet => RInv, Quiet => AInv, [Next]_vars, Quiet'
                 PROVE  AInv'
    OBVIOUS
  <2>2. Quiet /\ RInv /\ AInv  BY <2>1, QuietBefore
  <2>3. CASE Next
    BY <2>1, <2>2, <2>3, ContentsStep, ReadStep, HandlersAreOwnStep, CleanStep DEF AInv
  <2>4. CASE UNCHANGED vars  BY <2>2, <2>4, AnswersStutter
  <2>. QED  BY <2>1, <2>3, <2>4
<1>. QED  BY <1>1, <1>2, Invariance, TicketsInvariance, ResponseInvariance, PTL DEF Spec

\* What collect has read so far is a beginning of its own call's answer, and the whole of it
\* when no more is to come.
LEMMA CollectsItsOwn == ASSUME IInv, TInv, AInv PROVE OwnAnswer
<1> SUFFICES ASSUME w.pc = "decide", w.fn = "collect"
             PROVE  OwnAnswer
  BY DEF OwnAnswer
<1> DEFINE c == w.call
           len == shape[c].len
           m == Len(w.got)
<1>a. TypeOK  BY DEF IInv
<1>1. c \in Given /\ c \in 0 .. MaxCalls
  BY <1>a, SizesAssumption DEF TInv, WorkerHolds, IInv, HostAt, Given, TypeOK, WorkerRegs
<1>2. len \in Nat /\ shape[c].pieces \in Nat /\ shape[c].status \in {"OK", "ERR"} /\ m \in Nat
  <2>1. shape[c] \in Shapes  BY <1>a, <1>1 DEF TypeOK, Given
  <2>2. m \in Nat  BY <1>a DEF TypeOK, WorkerRegs, Payloads
  <2>. QED  BY <2>1, <2>2, ShapesAssumption
<1>3. Says(c, w.slot, w.status, w.bytes) /\ w.got = Piece(c, 0, m) /\ ~Submits(c) /\ Got(c) = m
  BY DEF AInv, Read, Submits, Got
<1>4. Answer(c) = Piece(c, 0, len)  BY <1>2, RequestIs
<1>5. CASE w.status = "ERR" /\ w.bytes = Message /\ shape[c].op = "nocap"
  BY <1>5 DEF OwnAnswer
<1>6. ASSUME NEW n \in m .. len, shape[c].op = "cap", w.bytes = Piece(c, m, n),
             (n = len /\ w.status = shape[c].status) \/ w.status = "MORE"
      PROVE  OwnAnswer
  <2>1. n \in Nat /\ m <= n /\ n <= len /\ 0 <= m /\ 0 <= n /\ n - 0 = n /\ 0 + n = n /\ 0 + n <= len
    BY <1>2, <1>6
  <2> HIDE DEF m, len
  <2>2. w.got \o w.bytes = Piece(c, 0, n)
    <3>1. Piece(c, 0, m) \o Piece(c, m, n) = Piece(c, 0, n)  BY <1>1, <1>2, <2>1, PieceJoin
    <3>. QED  BY <1>3, <1>6, <3>1
  <2>3. Len(w.got \o w.bytes) = n
    <3>1. Len(Piece(c, 0, n)) = n - 0  BY <1>1, <2>1, PieceIs
    <3>. QED  BY <2>1, <2>2, <3>1
  <2>4. Front(Piece(c, 0, len), n) = Piece(c, 0, n)
    <3>1. Front(Piece(c, 0, len), n) = Piece(c, 0, 0 + n)  BY <1>1, <1>2, <2>1, PieceFront
    <3>. QED  BY <2>1, <3>1
  <2>5. SubSeq(Answer(c), 1, Len(w.got \o w.bytes)) = w.got \o w.bytes
    <3>1. SubSeq(Answer(c), 1, Len(w.got \o w.bytes)) = Front(Answer(c), Len(w.got \o w.bytes))
      BY DEF Front
    <3>2. Front(Answer(c), Len(w.got \o w.bytes)) = Front(Piece(c, 0, len), n)
      BY <1>4, <2>3
    <3>. QED  BY <2>2, <2>4, <3>1, <3>2
  <2>6. w.status # "MORE" => w.got \o w.bytes = Answer(c)  BY <1>4, <1>6, <2>2
  <2>. QED  BY <1>2, <1>6, <2>5, <2>6 DEF OwnAnswer, c
<1>7. \/ w.status = "ERR" /\ w.bytes = Message /\ shape[c].op = "nocap"
      \/ /\ shape[c].op = "cap"
         /\ \E n \in m .. len : /\ w.bytes = Piece(c, m, n)
                                /\ (n = len /\ w.status = shape[c].status) \/ w.status = "MORE"
  <2> HIDE DEF m, c
  <2>. QED  BY <1>3 DEF Says
<1>. QED  BY <1>5, <1>6, <1>7

\* While the responder runs, the program is told of its own calls only, if it cancels no call
\* the host has not taken: collect returns its call's answer, and a handler has its call's
\* request and ticket.
THEOREM OwnAnswers ==
    ASSUME "PENDING" \notin CancelFrom
    PROVE  Spec => [](hostGone \/ AnswersAreOwn)
<1>1. IInv /\ TInv /\ (Quiet => AInv) => hostGone \/ AnswersAreOwn
  <2>1. SUFFICES ASSUME IInv, TInv, AInv PROVE AnswersAreOwn  BY DEF Quiet
  <2>2. HandlerHoldsItsTicket  BY <2>1 DEF AInv, HandlersAreOwn, HandlerHoldsItsTicket, Given
  <2>. QED  BY <2>1, <2>2, CollectsItsOwn DEF AnswersAreOwn
<1>. QED  BY <1>1, Invariance, TicketsInvariance, AnswersInvariance, PTL

\* ... and it always is in a bridge whose responder is not stopped.
THEOREM AnswersStayOwn ==
    ASSUME "PENDING" \notin CancelFrom, ~MayStop
    PROVE  Spec => []AnswersAreOwn
<1>1. TInv => ~hostGone  BY DEF TInv, StopAt
<1>. QED  BY <1>1, OwnAnswers, TicketsInvariance, PTL

=============================================================================

------------------------------ MODULE TlsStream ------------------------------
(***************************************************************************)
(* packages/tls/host: a TLS connection driven from outside.  connect.ts has  *)
(* a stream that may be read while it is written and a one-shot request;      *)
(* serve.ts has a one-shot server.  The protocol (packages/tls/src) is a pure  *)
(* function of its state and of whole records; the host owns the socket,       *)
(* which reads and writes as many bytes as it likes.  A trap in the protocol    *)
(* is thrown into the host, which then keeps the state it had.                *)
(*                                                                         *)
(* A record is two cells, a header and a body: <<i, 1>> and <<i, 2>> are the   *)
(* peer's i-th record on the way in and our i-th on the way out.             *)
(***************************************************************************)
EXTENDS Integers, Sequences

CONSTANTS
    Scripts,     \* what a peer sends: sequences of kinds of records
    MaxWrites,   \* bound: calls of write on a stream
    MaxRead      \* bound: cells one read of the socket gives

\* In the clear: the hello, one that is refused, one that cannot be taken apart, and a
\* change of cipher.  Sealed: parts of a flight (or a ticket), its Finished, a handshake
\* message that is refused, data, an alert, and a KeyUpdate that asks for another.  "bad"
\* is anything that is neither a handshake in the clear nor opens.
Sealed == {"part", "finished", "refused", "app", "alert", "update"}
Kinds == Sealed \cup {"hello", "wrong", "broken", "ccs", "bad"}
ASSUME TlsAssumption == MaxWrites \in Nat /\ MaxRead \in Nat /\ \A s \in Scripts : s \in Seq(Kinds)

Roles == {"stream", "request", "serve"}

VARIABLES
    role,
    peer,       \* [script, arrived, ended]: cells in the socket, and whether the peer has closed
    state,      \* the protocol's: [phase, failed, last]; last is the last sealed record taken,
                \* which stands for the traffic keys and seqIn
    inbox,      \* [read, raw, plain, out, lost]: cells read, those not yet whole records, data
                \* decrypted and not handed out, data handed out, and whether a call of the
                \* protocol trapped (both history)
    outbox,     \* [made, reply, sending, wire]: records made, cells the reader and the writer
                \* have still to write, cells written
    stage,      \* "connect", "hello", "read", "done", "thrown"
    ready,      \* over has returned; the one-shots' message has been made
    writes,     \* calls of write so far
    socket      \* "none", "open", "closed"

tlsVars == <<role, peer, state, inbox, outbox, stage, ready, writes, socket>>

Cell(k) == <<(k + 1) \div 2, 2 - (k % 2)>>      \* the k-th cell of either direction
Between(a, b) == [k \in 1 .. b - a |-> Cell(a + k)]
Record(i) == Between(2 * i - 2, 2 * i)
Client == role # "serve"

TlsInit ==
    /\ role \in Roles
    /\ peer \in [script : Scripts, arrived : {0}, ended : {FALSE}]
    /\ state = [phase |-> 1, failed |-> FALSE, last |-> 0]
    /\ inbox = [read |-> 0, raw |-> <<>>, plain |-> <<>>, out |-> <<>>, lost |-> FALSE]
    /\ outbox = [made |-> 0, reply |-> <<>>, sending |-> <<>>, wire |-> <<>>]
    /\ stage = "connect" /\ ready = FALSE /\ writes = 0 /\ socket = "none"

-----------------------------------------------------------------------------
(* external: the peer's half of the socket *)

PeerSends ==
    /\ socket = "open" /\ ~peer.ended /\ peer.arrived < 2 * Len(peer.script)
    /\ Client => Len(outbox.wire) >= 2
    /\ peer' = [peer EXCEPT !.arrived = @ + 1]
    /\ UNCHANGED <<role, state, inbox, outbox, stage, ready, writes, socket>>
PeerEnds ==
    /\ socket = "open" /\ ~peer.ended /\ peer' = [peer EXCEPT !.ended = TRUE]
    /\ UNCHANGED <<role, state, inbox, outbox, stage, ready, writes, socket>>

-----------------------------------------------------------------------------
(* Opening *)

\* Straight to the host, or through a proxy, which may refuse the tunnel or close inside
\* its answer: that is thrown with the proxy's socket still open.
OpenStream ==
    /\ stage = "connect" /\ Client
    /\ \/ socket' = "open" /\ stage' = "hello"
       \/ socket' \in {"none", "open"} /\ stage' = "thrown"
    /\ UNCHANGED <<role, peer, state, inbox, outbox, ready, writes>>
\* The server's for await over its listener, and newConnection.
NewConnection ==
    /\ stage = "connect" /\ ~Client /\ socket' = "open" /\ stage' = "read"
    /\ UNCHANGED <<role, peer, state, inbox, outbox, ready, writes>>

\* conn.write, its result not looked at: the socket takes at least one byte of what it is given.
WriteOnce(box, cells) ==
    IF cells = <<>> THEN {box}
    ELSE {[box EXCEPT !.wire = @ \o SubSeq(cells, 1, n)] : n \in 1 .. Len(cells)}
\* #writeAll goes round until nothing is left.
LeftDropped(cells, n) == <<>>      \* mutant: a short write is taken for a whole one
Left(cells, n) == SubSeq(cells, n + 1, Len(cells))

\* init makes the ClientHello.
Hello ==
    /\ stage = "hello" /\ stage' = "read"
    /\ LET box == [outbox EXCEPT !.made = 1]
       IN  outbox' \in IF role = "stream" THEN {[box EXCEPT !.reply = Record(1)]}
                       ELSE WriteOnce(box, Record(1))
    /\ UNCHANGED <<role, peer, state, inbox, ready, writes, socket>>
WriteReply ==
    /\ outbox.reply # <<>>
    /\ \E n \in 1 .. Len(outbox.reply) :
         outbox' = [outbox EXCEPT !.wire = @ \o SubSeq(outbox.reply, 1, n),
                                  !.reply = Left(@, n)]
    /\ UNCHANGED <<role, peer, state, inbox, stage, ready, writes, socket>>

-----------------------------------------------------------------------------
(* Reading *)

\* Cells of the whole records at the front of what has been read.
Whole(cells) == 2 * (Len(cells) \div 2)
Kept(merged, n) == SubSeq(merged, n + 1, Len(merged))

\* A record opens when it is sealed under the keys and the number the reader is at: the
\* next sealed one after the last taken.  A client does not follow a KeyUpdate.
Opens(last, i) ==
    /\ peer.script[i] \in Sealed /\ i > last
    /\ \A j \in last + 1 .. i - 1 : peer.script[j] \notin Sealed
    /\ Client => \A j \in 1 .. last : peer.script[j] # "update"

TrapIn(s) == [s EXCEPT !.over = "trapped"]
\* fail and the server's alerts: the call returns with what it has.
Alert(s) == [s EXCEPT !.phase = 4, !.failed = Client, !.sends = @ + 1, !.over = "returned"]

\* A record in the clear.  failPlain's alert does not end the server's call.
FeedHello(s, kind) ==
    CASE kind = "hello" -> [s EXCEPT !.phase = 2, !.sends = @ + (IF Client THEN 0 ELSE 1)]
      [] kind # "hello" /\ Client /\ kind # "broken" -> Alert(s)
      [] kind = "wrong" /\ ~Client -> [s EXCEPT !.phase = 4, !.sends = @ + 1]
      [] OTHER -> TrapIn(s)
\* A sealed one that opens, before Finished and after it.
FeedFlight(s, kind, i) ==
    CASE kind = "finished" ->
           [s EXCEPT !.phase = 3, !.last = i, !.sends = @ + (IF Client THEN 1 ELSE 0)]
      [] kind = "part" /\ Client -> [s EXCEPT !.last = i]
      [] kind \notin {"finished", "part"} /\ Client -> Alert(s)
      [] kind = "refused" /\ ~Client -> Alert(s)
      [] OTHER -> TrapIn(s)
FeedEstablished(s, kind, i) ==
    CASE kind = "app" -> [s EXCEPT !.last = i, !.app = Append(@, i)]
      [] kind = "alert" -> [s EXCEPT !.last = i, !.phase = 4]
      [] kind = "update" /\ ~Client -> [s EXCEPT !.last = i, !.sends = @ + 1]
      [] kind = "refused" /\ ~Client -> Alert(s)
      [] OTHER -> [s EXCEPT !.last = i]

\* tlsClientFeed and tlsServerFeed on one record.  A connection that closed inside the
\* call traps at the next record.
Feed(s, cell) ==
    LET i == cell[1]
        kind == peer.script[i]
    IN  IF s.over # "no" \/ kind = "ccs" THEN s
        ELSE CASE s.phase = 1 -> FeedHello(s, kind)
               [] s.phase = 2 /\ Opens(s.last, i) -> FeedFlight(s, kind, i)
               [] s.phase = 3 /\ Opens(s.last, i) -> FeedEstablished(s, kind, i)
               [] OTHER -> TrapIn(s)
\* A call begins where the last one that returned left the state, and one on a connection
\* that is over returns at once.
Start ==
    [phase |-> state.phase, failed |-> state.failed, last |-> state.last, sends |-> 0, app |-> <<>>,
     over |-> IF state.phase = 4 THEN "returned" ELSE "no"]
\* What the host has of a call: of one that trapped, nothing.
Returned(s) == IF s.over = "trapped" THEN TrapIn(Start) ELSE s
\* Every record in turn; the state is asked after the last.
FeedAll(cells) ==
    LET fed[k \in 0 .. Len(cells) \div 2] ==
            IF k = 0 THEN Start ELSE Feed(fed[k - 1], cells[2 * k])
    IN  Returned(fed[Len(cells) \div 2])

\* The data #pump adds to what a read has not taken yet.
Grown(plain, app) == plain \o app

\* One read from below, then every whole record in one call.  They are cut off what is kept
\* before the call.
Pumped(n) ==
    LET merged == inbox.raw \o Between(inbox.read, inbox.read + n)
        whole == Whole(merged)
    IN  [merged |-> merged, whole |-> whole, fed |-> FeedAll(SubSeq(merged, 1, whole))]
CanPump(n) ==
    /\ stage = "read" /\ outbox.reply = <<>> /\ socket = "open"
    /\ n \in 1 .. peer.arrived - inbox.read
Trapped(p) == p.fed.over = "trapped"
Took(n, p) ==
    /\ state' = [phase |-> p.fed.phase, failed |-> p.fed.failed, last |-> p.fed.last]
    /\ inbox' = [inbox EXCEPT !.read = @ + n, !.raw = Kept(p.merged, p.whole),
                              !.plain = Grown(@, p.fed.app), !.lost = @ \/ Trapped(p)]
Made(box, n) == [box EXCEPT !.made = @ + n]
MadeCells(n) == Between(2 * outbox.made, 2 * (outbox.made + n))

\* #pump for over and for read: a failure or a trap is thrown by either.
Pump(n) ==
    LET p == Pumped(n)
    IN  /\ role = "stream" /\ CanPump(n) /\ (ready => inbox.plain = <<>>) /\ Took(n, p)
        /\ outbox' = [Made(outbox, p.fed.sends) EXCEPT !.reply = MadeCells(p.fed.sends)]
        /\ ready' = (ready \/ p.fed.phase = 3)
        /\ stage' = IF p.fed.failed \/ Trapped(p) THEN "thrown" ELSE "read"
        /\ UNCHANGED <<role, peer, writes, socket>>
\* request's loop: what the handshake answers, then the request once it is established.
\* Its response ends with a record that completes a head.
RequestRead(n) ==
    LET p == Pumped(n)
        asks == ~p.fed.failed /\ ~Trapped(p) /\ p.fed.phase = 3 /\ ~ready
        answered == {b \in BOOLEAN : b => Grown(inbox.plain, p.fed.app) # <<>>}
    IN  /\ role = "request" /\ CanPump(n) /\ Took(n, p)
        /\ \E box \in WriteOnce(Made(outbox, p.fed.sends), MadeCells(p.fed.sends)) :
             outbox' \in IF asks THEN WriteOnce(Made(box, 1), Record(box.made + 1)) ELSE {box}
        /\ ready' = (ready \/ asks)
        /\ \E b \in answered :
             stage' = CASE Trapped(p) -> "thrown" [] ~Trapped(p) /\ (p.fed.failed \/ b) -> "done"
                        [] OTHER -> "read"
        /\ UNCHANGED <<role, peer, writes, socket>>
\* The server's loop: the first data is answered and ends it; sending on a state that has
\* closed traps.
ServeRead(n) ==
    LET p == Pumped(n)
        answers == p.fed.app # <<>> /\ p.fed.phase = 3
    IN  /\ role = "serve" /\ CanPump(n) /\ Took(n, p)
        /\ \E box \in WriteOnce(Made(outbox, p.fed.sends), MadeCells(p.fed.sends)) :
             outbox' \in IF answers THEN WriteOnce(Made(box, 1), Record(box.made + 1)) ELSE {box}
        /\ ready' = answers
        /\ stage' = CASE answers -> "done" [] Trapped(p) \/ (p.fed.app # <<>> /\ ~answers) -> "thrown"
                      [] OTHER -> "read"
        /\ UNCHANGED <<role, peer, writes, socket>>
\* The end of the stream: an error inside over, the end for read and the one-shots.
PumpEnds ==
    /\ stage = "read" /\ outbox.reply = <<>> /\ socket = "open"
    /\ peer.ended /\ inbox.read = peer.arrived
    /\ stage' = IF role = "stream" /\ ~ready THEN "thrown" ELSE "done"
    /\ UNCHANGED <<role, peer, state, inbox, outbox, ready, writes, socket>>
\* A read that threw may be followed by another, on the state the trap left.
ReadAgain ==
    /\ role = "stream" /\ ready /\ stage = "thrown" /\ stage' = "read"
    /\ UNCHANGED <<role, peer, state, inbox, outbox, ready, writes, socket>>
\* read: what is decrypted already, before the socket is asked again.
ReadPlain ==
    /\ role = "stream" /\ ready /\ outbox.reply = <<>> /\ inbox.plain # <<>>
    /\ inbox' = [inbox EXCEPT !.out = Append(@, Head(inbox.plain)), !.plain = Tail(@)]
    /\ UNCHANGED <<role, peer, state, outbox, stage, ready, writes, socket>>

-----------------------------------------------------------------------------
(* Writing and closing *)

\* write, once over has returned; it may overlap a read but its callers await it.  On a
\* state that has failed or closed it traps before anything is written.
StreamWrite ==
    /\ role = "stream" /\ ready /\ state.phase = 3 /\ socket = "open"
    /\ outbox.reply = <<>> /\ outbox.sending = <<>> /\ writes < MaxWrites /\ writes' = writes + 1
    /\ outbox' = [Made(outbox, 1) EXCEPT !.sending = Record(outbox.made + 1)]
    /\ UNCHANGED <<role, peer, state, inbox, stage, ready, socket>>
WriteOn ==
    /\ outbox.sending # <<>> /\ socket = "open"
    /\ \E n \in 1 .. Len(outbox.sending) :
         outbox' = [outbox EXCEPT !.wire = @ \o SubSeq(outbox.sending, 1, n),
                                  !.sending = Left(@, n)]
    /\ UNCHANGED <<role, peer, state, inbox, stage, ready, writes, socket>>
\* close: the notice is on a promise nobody awaits and the socket is closed at once, so at
\* most its first write goes.
StreamClose ==
    /\ role = "stream" /\ ready /\ socket = "open"
    /\ outbox.sending = <<>> /\ outbox.reply = <<>>
    /\ \E n \in 0 .. 2 :
         outbox' = IF state.phase = 4 THEN outbox
                   ELSE [Made(outbox, 1) EXCEPT !.wire = @ \o SubSeq(Record(outbox.made + 1), 1, n)]
    /\ state' = [state EXCEPT !.phase = 4] /\ socket' = "closed"
    /\ UNCHANGED <<role, peer, inbox, stage, ready, writes>>
\* A read after close, or pending at it, ends.
ReadClosed ==
    /\ role = "stream" /\ socket = "closed" /\ stage = "read" /\ stage' = "done"
    /\ UNCHANGED <<role, peer, state, inbox, outbox, ready, writes, socket>>
\* finally: the one-shots close whatever happened once their loop has begun.
CloseFinally ==
    /\ role # "stream" /\ stage \in {"done", "thrown"} /\ (Client => outbox.made > 0)
    /\ socket = "open" /\ socket' = "closed"
    /\ UNCHANGED <<role, peer, state, inbox, outbox, stage, ready, writes>>

TlsNext ==
    \/ PeerSends \/ PeerEnds \/ OpenStream \/ NewConnection \/ Hello \/ WriteReply
    \/ \E n \in 1 .. MaxRead : Pump(n) \/ RequestRead(n) \/ ServeRead(n)
    \/ PumpEnds \/ ReadAgain \/ ReadPlain \/ StreamWrite \/ WriteOn \/ StreamClose \/ ReadClosed
    \/ CloseFinally
TlsFair ==
    /\ WF_tlsVars(CloseFinally) /\ WF_tlsVars(WriteReply) /\ WF_tlsVars(PumpEnds)
    /\ WF_tlsVars(ReadClosed)
    /\ WF_tlsVars(\E n \in 1 .. MaxRead : Pump(n) \/ RequestRead(n) \/ ServeRead(n))
TlsSpec == TlsInit /\ [][TlsNext]_tlsVars /\ TlsFair

-----------------------------------------------------------------------------
(* Properties *)

\* The connection's state is made of the parts above.
TlsTypeOK ==
    /\ role \in Roles /\ peer.script \in Scripts /\ peer.arrived \in 0 .. 2 * Len(peer.script)
    /\ state.phase \in 1 .. 4 /\ state.failed \in BOOLEAN /\ (state.failed => state.phase = 4)
    /\ state.last \in 0 .. inbox.read \div 2 /\ inbox.lost \in BOOLEAN
    /\ inbox.read \in 0 .. peer.arrived /\ Len(inbox.raw) <= inbox.read
    /\ stage \in {"connect", "hello", "read", "done", "thrown"}
    /\ socket \in {"none", "open", "closed"} /\ writes \in 0 .. MaxWrites

\* The numbers in q are those in numbers, each once and in order.
ListsInOrder(q, numbers) ==
    /\ \A i, j \in DOMAIN q : i < j => q[i] < q[j]
    /\ {q[i] : i \in DOMAIN q} = numbers
DataTo(n) == {i \in 1 .. n : peer.script[i] = "app"}

\* However the socket cuts the peer's records, and whatever is among them: the data handed
\* out and waiting is that of the records up to the last one taken, with none missing,
\* doubled or out of order; and unless the connection is over or a call of the protocol
\* trapped, every sealed record that is whole has been taken.  A trap (a record that does
\* not open, or one behind a close in the same read) loses the data of its own read, and
\* never lets later data through in its place.
PlainIsWhatArrived ==
    /\ ListsInOrder(inbox.out \o inbox.plain, DataTo(state.last))
    /\ state.phase # 4 /\ ~inbox.lost =>
         \A i \in state.last + 1 .. inbox.read \div 2 : peer.script[i] \notin Sealed

\* #writeAll: while a stream is open its records go out whole and in the order they were
\* made, a read's answers and a write's data together, whatever the socket takes at a time.
WireIsWhole ==
    role = "stream" /\ socket = "open" =>
        outbox.wire \o outbox.reply \o outbox.sending = Between(0, 2 * outbox.made)

\* "Write everything, since a short write is legal and silently loses data if ignored": a
\* one-shot that has made its request or its response has written all of it.
RequestIsWhole ==
    role # "stream" /\ ready => outbox.wire = Between(0, 2 * outbox.made)

\* The one-shots close their socket however they end, a trap in the protocol included: the
\* peer's close or a failed handshake does not leave it open.
OneShotCloses ==
    (role # "stream" /\ peer.ended /\ stage = "read") ~> socket = "closed"

\* However the socket cuts what it reads and takes, records go in and out whole, once and in
\* order (#pump, #writeAll).
RecordsStayWhole == TlsTypeOK /\ PlainIsWhatArrived /\ WireIsWhole
=============================================================================

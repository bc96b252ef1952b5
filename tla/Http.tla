------------------------------- MODULE Http -------------------------------
(***************************************************************************)
(* packages/server/host/serve.ts serving the clients of                     *)
(* packages/http/host/client.ts, and clients that pipeline, over sockets.     *)
(* Whether the bytes hold a complete message is wac's decision; the host's    *)
(* are what to buffer, when to read, when to give up and when to close.      *)
(*                                                                         *)
(* A message is two cells, its two halves.  <<i, 1>> and <<i, 2>> are the      *)
(* response to a client's i-th request; the 408 is numbered 0.               *)
(***************************************************************************)
EXTENDS Integers, Sequences, FiniteSets

CONSTANTS
    Clients,
    Requests,          \* [Clients -> Seq(BOOLEAN)]: a client's requests, by their keep-alive
    MaxConnections     \* limits.maxConnections

ASSUME HttpAssumption ==
    /\ MaxConnections \in Nat \ {0} /\ IsFiniteSet(Clients)
    /\ Requests \in [Clients -> UNION {[1 .. n -> BOOLEAN] : n \in 1 .. 3}]

VARIABLES
    cli,     \* per client: [at, sent, got, result]
    srv,     \* per connection: [at, read, taken, reply, keep]
    said,    \* per connection: cells the server has written
    openConnections

httpVars == <<cli, srv, said, openConnections>>

Message(i) == <<<<i, 1>>, <<i, 2>>>>
Timeout408 == Message(0)
Buffered(c) == srv[c].read - srv[c].taken
Shut(c) == srv[c].at \in {"refused", "closed", "gone"}      \* the server's end is closed
ClientGone(c) == cli[c].at \in {"done", "left"}                \* the client's end is closed

HttpInit ==
    /\ cli = [c \in Clients |-> [at |-> "new", sent |-> 0, got |-> <<>>, result |-> "none"]]
    /\ srv = [c \in Clients |-> [at |-> "none", read |-> 0, taken |-> 0, reply |-> <<>>,
                                 keep |-> TRUE]]
    /\ said = [c \in Clients |-> <<>>] /\ openConnections = 0

-----------------------------------------------------------------------------
(* The server *)

\* listen: beyond the limit a connection is closed at once.
Accept(c) ==
    /\ cli[c].at = "new" /\ cli' = [cli EXCEPT ![c].at = "write"]
    /\ IF openConnections >= MaxConnections
       THEN srv' = [srv EXCEPT ![c].at = "refused"] /\ UNCHANGED openConnections
       ELSE srv' = [srv EXCEPT ![c].at = "handle"] /\ openConnections' = openConnections + 1
    /\ UNCHANGED said

\* handle: nothing until a whole request is buffered, then its response, how much of the
\* buffer it was and whether the connection stays.
Handle(c) ==
    /\ srv[c].at = "handle"
    /\ srv' = IF Buffered(c) < 2 THEN [srv EXCEPT ![c].at = "read"]
              ELSE LET i == srv[c].taken \div 2 + 1
                   IN  [srv EXCEPT ![c].at = "write", ![c].reply = Message(i),
                                   ![c].keep = Requests[c][i]]
    /\ UNCHANGED <<cli, said, openConnections>>

\* writeAll goes round until nothing is left.
LeftOfNone(cells, n) == <<>>      \* mutant: a short write ends it
LeftOf(cells, n) == SubSeq(cells, n + 1, Len(cells))
WriteAll(c) ==
    /\ srv[c].at \in {"write", "write408"} /\ srv[c].reply # <<>> /\ ~ClientGone(c)
    /\ \E n \in 1 .. Len(srv[c].reply) :
         /\ said' = [said EXCEPT ![c] = @ \o SubSeq(srv[c].reply, 1, n)]
         /\ srv' = [srv EXCEPT ![c].reply = LeftOf(@, n)]
    /\ UNCHANGED <<cli, openConnections>>
\* The client has gone: the exception ends the connection.
WriteFails(c) ==
    /\ srv[c].at \in {"write", "write408"} /\ srv[c].reply # <<>> /\ ClientGone(c)
    /\ srv' = [srv EXCEPT ![c].at = "close"]
    /\ UNCHANGED <<cli, said, openConnections>>
\* After the response: drop exactly what it consumed, answer what is buffered already, and
\* read when nothing is.
Written(c) ==
    /\ srv[c].at \in {"write", "write408"} /\ srv[c].reply = <<>>
    /\ srv' = IF srv[c].at = "write" /\ srv[c].keep
              THEN [srv EXCEPT ![c].taken = @ + 2,
                               ![c].at = IF Buffered(c) > 2 THEN "handle" ELSE "read"]
              ELSE [srv EXCEPT ![c].at = "close"]
    /\ UNCHANGED <<cli, said, openConnections>>

\* readWithTimeout: bytes, the client's end, or the timer.
Read(c) ==
    /\ srv[c].at = "read" /\ cli[c].sent > srv[c].read
    /\ \E n \in 1 .. cli[c].sent - srv[c].read :
         srv' = [srv EXCEPT ![c].read = @ + n, ![c].at = "handle"]
    /\ UNCHANGED <<cli, said, openConnections>>
ReadEnds(c) ==
    /\ srv[c].at = "read" /\ ClientGone(c) /\ cli[c].sent = srv[c].read
    /\ srv' = [srv EXCEPT ![c].at = "close"]
    /\ UNCHANGED <<cli, said, openConnections>>
TimeoutIdle(c) ==       \* mutant: only an idle connection is timed out
    /\ srv[c].at = "read" /\ Buffered(c) = 0 /\ srv' = [srv EXCEPT ![c].at = "close"]
    /\ UNCHANGED <<cli, said, openConnections>>
ReadTimesOut(c) ==
    /\ srv[c].at = "read"
    /\ srv' = IF Buffered(c) > 0
              THEN [srv EXCEPT ![c].at = "write408", ![c].reply = Timeout408]
              ELSE [srv EXCEPT ![c].at = "close"]
    /\ UNCHANGED <<cli, said, openConnections>>

\* serveConnection's finally closes the socket; the count is let go a turn later.
Close(c) ==
    /\ srv[c].at = "close" /\ srv' = [srv EXCEPT ![c].at = "closed"]
    /\ UNCHANGED <<cli, said, openConnections>>
Uncount(c) ==
    /\ srv[c].at = "closed" /\ srv' = [srv EXCEPT ![c].at = "gone"]
    /\ openConnections' = openConnections - 1
    /\ UNCHANGED <<cli, said>>

-----------------------------------------------------------------------------
(* The clients *)

\* requestOver writes its request until nothing is left; a client that pipelines writes them all.
Send(c) ==
    /\ cli[c].at = "write" /\ ~Shut(c) /\ cli[c].sent < 2 * Len(Requests[c])
    /\ \E n \in 1 .. 2 * Len(Requests[c]) - cli[c].sent :
         cli' = [cli EXCEPT ![c].sent = @ + n]
    /\ UNCHANGED <<srv, said, openConnections>>
Sent(c) ==
    /\ cli[c].at = "write" /\ cli[c].sent = 2 * Len(Requests[c])
    /\ cli' = [cli EXCEPT ![c].at = "read"]
    /\ UNCHANGED <<srv, said, openConnections>>
\* A write to, or a reset from, a server that has closed is thrown; finally closes.
SendFails(c) ==
    /\ cli[c].at \in {"write", "read"} /\ Shut(c) /\ cli[c].sent > srv[c].read
    /\ cli' = [cli EXCEPT ![c].at = "done", ![c].result = "thrown"]
    /\ UNCHANGED <<srv, said, openConnections>>

\* parseResponse on what has arrived, with the one thing the host knows: whether more can come.
ParseResponse(got, eof) == IF Len(got) >= 2 THEN "ok" ELSE "incomplete"
\* A turn of requestOver's loop.  The client is done when its last response is complete.
Receive(c) ==
    LET waiting == Len(said[c]) - Len(cli[c].got)
    IN  /\ cli[c].at = "read" /\ (waiting > 0 \/ Shut(c))
        /\ \E n \in IF waiting > 0 THEN 1 .. waiting ELSE {0} :
             LET got == SubSeq(said[c], 1, Len(cli[c].got) + n)
                 eof == n = 0
                 parsed == ParseResponse(got, eof)
                 more == Len(got) < 2 * Len(Requests[c]) /\ ~eof
             IN  cli' = [cli EXCEPT ![c].got = got,
                           ![c].result = IF parsed = "ok" THEN "ok" ELSE IF eof THEN "truncated" ELSE @,
                           ![c].at = IF more THEN "read" ELSE "done"]
        /\ UNCHANGED <<srv, said, openConnections>>
\* external: a client may go away at any time.
Leave(c) ==
    /\ cli[c].at \in {"write", "read"} /\ cli' = [cli EXCEPT ![c].at = "left"]
    /\ UNCHANGED <<srv, said, openConnections>>

ServerStep(c) ==
    Handle(c) \/ WriteAll(c) \/ WriteFails(c) \/ Written(c) \/ Read(c) \/ ReadEnds(c)
      \/ Close(c) \/ Uncount(c)
HttpNext ==
    \E c \in Clients :
      \/ Accept(c) \/ ServerStep(c) \/ ReadTimesOut(c)
      \/ Send(c) \/ Sent(c) \/ SendFails(c) \/ Receive(c) \/ Leave(c)
\* The server's turns run; a timer that is set fires unless a read comes first.
HttpFair ==
    \A c \in Clients : WF_httpVars(ServerStep(c)) /\ WF_httpVars(ReadTimesOut(c))
HttpSpec == HttpInit /\ [][HttpNext]_httpVars /\ HttpFair

-----------------------------------------------------------------------------
(* Properties *)

\* The connections' state is made of the parts above.
HttpTypeOK ==
    /\ \A c \in Clients :
         /\ cli[c].at \in {"new", "write", "read", "done", "left"}
         /\ cli[c].sent \in 0 .. 2 * Len(Requests[c]) /\ srv[c].read \in 0 .. cli[c].sent
         /\ cli[c].result \in {"none", "ok", "truncated", "thrown"}
         /\ srv[c].at \in {"none", "handle", "write", "write408", "read", "close", "closed",
                           "gone", "refused"}
         /\ srv[c].taken \in 0 .. srv[c].read
    /\ openConnections \in Nat

\* The responses to the first k requests.
Responses(k) == [j \in 1 .. 2 * k |-> <<(j + 1) \div 2, 2 - (j % 2)>>]

\* serveConnection: what a connection has been told is the responses to its first requests,
\* in order, each once and whole, and after them at most one 408, which ends it.
AnsweredInOrder ==
    \A c \in Clients :
      LET all == said[c] \o srv[c].reply
      IN  \E k \in 0 .. srv[c].read \div 2 :
            all = Responses(k) \/ all = Responses(k) \o Timeout408

\* "Answer everything already buffered before reading again: ... waiting for more input after
\* the first would deadlock": while a connection reads, every request that has arrived whole
\* has been answered.
NothingWaitsBuffered ==
    \A c \in Clients : srv[c].at = "read" => said[c] = Responses(srv[c].read \div 2)

\* listen's count: never more than the limit are served at once, and the count is the
\* connections that have been let in and not let go, a refused one never among them.
CountIsExact ==
    LET inside == {c \in Clients : srv[c].at \notin {"none", "refused", "gone"}}
    IN  openConnections = Cardinality(inside) /\ openConnections <= MaxConnections

\* requestOver calls a response whole only when it is, and truncated only when the server
\* closed inside one: what a client that got its answer holds starts with its own response
\* or the server's 408.
ResultIsTrue ==
    \A c \in Clients :
      /\ cli[c].result = "ok" => SubSeq(cli[c].got, 1, 2) \in {Message(1), Timeout408}
      /\ cli[c].result = "truncated" => Shut(c) /\ Len(said[c]) < 2

\* "a client that opens a connection and says nothing would otherwise hold it forever": every
\* connection let in ends and its room comes back, whatever its client does or stops doing, as
\* long as the socket takes what is written to it (no write is timed).
ConnectionsEnd == \A c \in Clients : srv[c].at = "handle" ~> srv[c].at = "gone"

\* Server and client tell the truth: answers in order with at most one 408 last, no whole request
\* left waiting, a count that is exact, and a response called whole only when it is.
ServerTellsTheTruth ==
    HttpTypeOK /\ AnsweredInOrder /\ NothingWaitsBuffered /\ CountIsExact /\ ResultIsTrue
=============================================================================

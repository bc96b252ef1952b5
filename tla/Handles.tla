------------------------------- MODULE Handles -------------------------------
(***************************************************************************)
(* The handle space of a world: the sockets, listeners, children and        *)
(* errStreams maps and nextHandle of deno.ts, node.ts and browser.ts, with   *)
(* the handlers that fill, read and empty them.                             *)
(*                                                                         *)
(* A handler runs to its first await in one step; what follows the await is  *)
(* a step of its own, and handlers of other tickets come between.  Until     *)
(* then the call is in flights.  A resource is numbered by the call that     *)
(* made it, so two resources under one handle can be told apart.  The        *)
(* program may cancel a ticket: the handler still runs to its end.          *)
(***************************************************************************)
EXTENDS Integers, FiniteSets

CONSTANTS
    MaxHandle,   \* bound: handles given out
    MaxCalls     \* bound: calls that make a resource or wait for one

ASSUME HandlesAssumption == MaxHandle \in Nat \ {0} /\ MaxCalls \in Nat

Hosts == {"deno", "node", "browser"}
Handle == 1 .. MaxHandle
Call == 1 .. MaxCalls
Kinds == {"socket", "listener", "child", "err"}
Nothing == [kind |-> "none", id |-> 0]
Resources == [kind : Kinds, id : Call] \cup {Nothing}
Ops == {"connect", "listen", "accept", "spawn", "recv", "send", "exitCode"}

VARIABLES
    host, net,      \* which world this is, and whether opts.net was given
    nextHandle,
    table,          \* handle -> what the four maps hold under it
    flights,        \* calls past their first await: [op, call, h, of]
    open,           \* resources that exist: sockets, listeners, running children
    exited,         \* children whose exit promise has resolved
    known,          \* handles the program has been told
    used,           \* history: handles that have named something
    calls           \* such calls made so far

handleVars == <<nextHandle, table, used>>
hVars == <<host, net, handleVars, flights, open, exited, known, calls>>

\* A page has no network to be granted.
HInit ==
    /\ host \in Hosts /\ net \in BOOLEAN /\ (host = "browser" => ~net)
    /\ nextHandle = 1 /\ table = [h \in Handle |-> Nothing] /\ used = {}
    /\ flights = {} /\ open = {} /\ exited = {} /\ known = {}
    /\ calls = 0

-----------------------------------------------------------------------------
(* What every handler does *)

Calling == calls < MaxCalls /\ calls' = calls + 1
Flight(op, h, of) == [op |-> op, call |-> calls + 1, h |-> h, of |-> of, kept |-> TRUE]
Await(op, h, of) == flights' = flights \cup {Flight(op, h, of)}

Is(kind, h) == table[h].kind = kind
Live == {h \in Handle : table[h] # Nothing}
Room(n) == nextHandle + n - 1 <= MaxHandle

\* nextHandle++ and the map's set, and the answer if the ticket is still wanted.
Name(f, kind) ==
    /\ Room(1)
    /\ nextHandle' = nextHandle + 1
    /\ table' = [table EXCEPT ![nextHandle] = [kind |-> kind, id |-> f.call]]
    /\ used' = used \cup {nextHandle}
    /\ known' = IF f.kept THEN known \cup {nextHandle} ELSE known
    /\ open' = open \cup {f.call}

\* A call that answers or throws without touching the maps.
Answer == UNCHANGED hVars
Refuse(absent) == absent /\ Answer

Landed(f) == flights' = flights \ {f}
Fails(f) ==
    /\ Landed(f)
    /\ UNCHANGED <<host, net, handleVars, open, exited, known, calls>>

\* cancel: nobody will hear the answer.
Cancel(f) ==
    /\ f.kept
    /\ flights' = (flights \ {f}) \cup {[f EXCEPT !.kept = FALSE]}
    /\ UNCHANGED <<host, net, handleVars, open, exited, known, calls>>

\* A worker returns or dies by itself.
ChildExits(id) ==
    /\ \E h \in Handle : table[h] = [kind |-> "child", id |-> id]
    /\ exited' = exited \cup {id} /\ open' = open \ {id}
    /\ UNCHANGED <<host, net, handleVars, flights, known, calls>>

-----------------------------------------------------------------------------
(* startChild: the handle is taken before the worker has loaded *)

\* spawnChild has started a worker; its number is its call's.
StartChild ==
    /\ Calling /\ Room(1)
    /\ nextHandle' = nextHandle + 1
    /\ Await("spawn", nextHandle, calls + 1)
    /\ open' = open \cup {calls + 1}
    /\ UNCHANGED <<host, net, table, used, exited, known>>

RegisterBeside(f) ==      \* mutant: the error stream's handle is the next number
    /\ table' = [table EXCEPT ![f.h] = [kind |-> "child", id |-> f.of],
                              ![f.h + 1] = [kind |-> "err", id |-> f.of]]
    /\ nextHandle' = IF nextHandle = f.h + 1 THEN nextHandle + 1 ELSE nextHandle
    /\ used' = used \cup {f.h, f.h + 1}
    /\ known' = IF f.kept THEN known \cup {f.h, f.h + 1} ELSE known
    /\ Landed(f) /\ UNCHANGED <<host, net, open, exited, calls>>
Register(f) ==
    /\ Room(1)
    /\ nextHandle' = nextHandle + 1
    /\ table' = [table EXCEPT ![f.h] = [kind |-> "child", id |-> f.of],
                              ![nextHandle] = [kind |-> "err", id |-> f.of]]
    /\ used' = used \cup {f.h, nextHandle}
    /\ known' = IF f.kept THEN known \cup {f.h, nextHandle} ELSE known
    /\ Landed(f) /\ UNCHANGED <<host, net, open, exited, calls>>

\* The worker did not load: killed, and never registered.
KillUnloaded(f) ==
    /\ Landed(f) /\ open' = open \ {f.of} /\ exited' = exited \cup {f.of}
    /\ UNCHANGED <<host, net, handleVars, known, calls>>

DenoStartChild == host = "deno" /\ StartChild
NodeStartChild == host = "node" /\ StartChild
BrowserStartChild == host = "browser" /\ StartChild

\* Node's launcher may have been built without a way to start a worker, and any
\* launcher may have kept the program's own source to itself.
NodeNoWorker == host = "node" /\ Answer
SpawnSelfRefused == Answer

DenoLoaded(f) == host = "deno" /\ f.op = "spawn" /\ Register(f)
NodeLoaded(f) == host = "node" /\ f.op = "spawn" /\ Register(f)
BrowserLoaded(f) == host = "browser" /\ f.op = "spawn" /\ Register(f)
UnloadedForgotten(f) ==      \* mutant: child.kill() left out
    /\ host = "deno" /\ f.op = "spawn" /\ Fails(f)
DenoUnloaded(f) == host = "deno" /\ f.op = "spawn" /\ KillUnloaded(f)
NodeUnloaded(f) == host = "node" /\ f.op = "spawn" /\ KillUnloaded(f)
BrowserUnloaded(f) == host = "browser" /\ f.op = "spawn" /\ KillUnloaded(f)

-----------------------------------------------------------------------------
(* CONNECT, LISTEN and ACCEPT *)

Ask(op, h, of) ==
    /\ Calling /\ Await(op, h, of)
    /\ UNCHANGED <<host, net, handleVars, open, exited, known>>
Named(f, kind) == Name(f, kind) /\ Landed(f) /\ UNCHANGED <<host, net, exited, calls>>

DenoConnect == host = "deno" /\ net /\ Ask("connect", 0, 0)
NodeConnect == host = "node" /\ net /\ Ask("connect", 0, 0)
DenoConnected(f) == host = "deno" /\ f.op = "connect" /\ Named(f, "socket")
NodeConnected(f) == host = "node" /\ f.op = "connect" /\ Named(f, "socket")
BrowserNoSockets == host = "browser" /\ Answer
Deny == ~net /\ Answer

\* Deno binds before it answers; Node's listen is awaited.
DenoListen ==
    /\ host = "deno" /\ net
    /\ Calling /\ Name([call |-> calls + 1, kept |-> TRUE], "listener")
    /\ UNCHANGED <<host, net, flights, exited>>
NodeListen == host = "node" /\ net /\ Ask("listen", 0, 0)
NodeListening(f) == host = "node" /\ f.op = "listen" /\ Named(f, "listener")

DenoAccept(h) ==
    /\ host = "deno"
    /\ \/ Is("listener", h) /\ Ask("accept", h, table[h].id)
       \/ Refuse(~Is("listener", h))
NodeAccept(h) ==
    /\ host = "node"
    /\ \/ Is("listener", h) /\ Ask("accept", h, table[h].id)
       \/ Refuse(~Is("listener", h))
\* A connection comes in while the listener is open; closed, the accept throws.
DenoAccepted(f) ==
    host = "deno" /\ f.op = "accept" /\ f.of \in open /\ Named(f, "socket")
NodeAccepted(f) ==
    host = "node" /\ f.op = "accept" /\ f.of \in open /\ Named(f, "socket")

-----------------------------------------------------------------------------
(* RECV, SEND, EXIT_CODE and CLOSE_FEED *)

\* A child's two queues and a socket are read through what the handle named
\* when the call came.
Receives(h) ==
    \/ table[h].kind \in {"child", "err", "socket"} /\ Ask("recv", h, table[h].id)
    \/ Refuse(table[h].kind \notin {"child", "err", "socket"})
DenoRecv(h) == host = "deno" /\ Receives(h)
NodeRecv(h) == host = "node" /\ Receives(h)
BrowserRecv(h) == host = "browser" /\ Receives(h)

\* A child's input takes the bytes at once; a socket's write is awaited.
Sends(h) ==
    \/ Is("socket", h) /\ Ask("send", h, table[h].id)
    \/ Refuse(~Is("socket", h))
DenoSend(h) == host = "deno" /\ Sends(h)
NodeSend(h) == host = "node" /\ Sends(h)
BrowserSend(h) == host = "browser" /\ Refuse(TRUE)

Exit(h) ==
    \/ Is("child", h) /\ Ask("exitCode", h, table[h].id)
    \/ Refuse(~Is("child", h))
DenoExitCode(h) == host = "deno" /\ Exit(h)
NodeExitCode(h) == host = "node" /\ Exit(h)
BrowserExitCode(h) == host = "browser" /\ Exit(h)
DenoCloseFeed(h) == host = "deno" /\ Answer
NodeCloseFeed(h) == host = "node" /\ Answer
BrowserCloseFeed(h) == host = "browser" /\ Answer

\* The peer or the child has something to say, or the resource is gone.
Arrives(f) == f.op \in {"recv", "send"} /\ Fails(f)
Exited(f) == f.op = "exitCode" /\ f.of \in exited /\ Fails(f)
GivesUp(f) == f.op \in {"connect", "listen", "accept"} /\ Fails(f)

-----------------------------------------------------------------------------
(* CLOSE_SOCKET *)

\* A socket or a listener is closed; a child is killed, which ends its streams.
Shut(h) ==
    /\ open' = IF table[h].kind \in {"socket", "listener", "child"}
               THEN open \ {table[h].id} ELSE open
    /\ exited' = IF Is("child", h) THEN exited \cup {table[h].id} ELSE exited
    /\ UNCHANGED <<host, net, flights, known, calls>>
Empty(h) == table' = [table EXCEPT ![h] = Nothing] /\ UNCHANGED <<nextHandle, used>>

CloseUnkilled(h) ==      \* mutant: the child's input is ended and it is left running
    /\ host = "deno" /\ UNCHANGED calls
    /\ open' = IF table[h].kind \in {"socket", "listener"} THEN open \ {table[h].id} ELSE open
    /\ Empty(h) /\ UNCHANGED <<host, net, flights, known, exited>>
DenoClose(h) == host = "deno" /\ Shut(h) /\ Empty(h)
NodeClose(h) == host = "node" /\ Shut(h) /\ Empty(h)
\* Only a child's handle is given up: an error stream's stays readable.
BrowserClose(h) ==
    /\ host = "browser" /\ Shut(h)
    /\ IF Is("child", h) THEN Empty(h) ELSE UNCHANGED handleVars

-----------------------------------------------------------------------------
Starts ==
    \/ DenoStartChild \/ NodeStartChild \/ BrowserStartChild
    \/ NodeNoWorker \/ SpawnSelfRefused \/ BrowserNoSockets \/ Deny
    \/ DenoConnect \/ NodeConnect \/ DenoListen \/ NodeListen
Uses(h) ==
    \/ DenoAccept(h) \/ NodeAccept(h)
    \/ DenoRecv(h) \/ NodeRecv(h) \/ BrowserRecv(h)
    \/ DenoSend(h) \/ NodeSend(h) \/ BrowserSend(h)
    \/ DenoExitCode(h) \/ NodeExitCode(h) \/ BrowserExitCode(h)
    \/ DenoCloseFeed(h) \/ NodeCloseFeed(h) \/ BrowserCloseFeed(h)
    \/ DenoClose(h) \/ NodeClose(h) \/ BrowserClose(h)
Settles(f) ==
    \/ DenoLoaded(f) \/ NodeLoaded(f) \/ BrowserLoaded(f)
    \/ DenoUnloaded(f) \/ NodeUnloaded(f) \/ BrowserUnloaded(f)
    \/ DenoConnected(f) \/ NodeConnected(f) \/ NodeListening(f)
    \/ DenoAccepted(f) \/ NodeAccepted(f)
    \/ Arrives(f) \/ Exited(f) \/ GivesUp(f)

HNext ==
    \/ Starts
    \/ \E h \in known : Uses(h)
    \/ \E f \in flights : Settles(f) \/ Cancel(f)
    \/ \E id \in open : ChildExits(id)

\* The event loop resumes a handler whose promise has settled: an exit that has
\* happened, and a load, which has a deadline.
HFair ==
    \A c \in Call :
        /\ WF_hVars(\E f \in flights : f.call = c /\ Exited(f))
        /\ WF_hVars(\E f \in flights : f.call = c /\ f.op = "spawn" /\ Settles(f))
HSpec == HInit /\ [][HNext]_hVars /\ HFair

-----------------------------------------------------------------------------
(* What must hold *)

\* The maps, the numbers and the calls in flight are what they should be; a program knows
\* of a handle only once it names something.
HTypeOK ==
    /\ host \in Hosts /\ net \in BOOLEAN
    /\ nextHandle \in 1 .. MaxHandle + 1
    /\ table \in [Handle -> Resources]
    /\ flights \subseteq [op : Ops, call : Call, h : 0 .. MaxHandle, of : 0 .. MaxCalls, kept : BOOLEAN]
    /\ open \subseteq Call /\ exited \subseteq Call
    /\ known \subseteq used /\ used \subseteq Handle
    /\ calls \in 0 .. MaxCalls

\* The worlds give out names the way HandleSpace promises: "a handle that has been
\* closed must never come back as a different connection" (deno.ts:361), although a
\* spawn takes its first number before its await and its second after, with
\* connects and accepts numbered in between.
Space == INSTANCE HandleSpace WITH
    names <- [h \in Handle |-> table[h]], spent <- used \ Live
ImplementsHandleSpace == Space!Spec

\* Nothing is left running that no handle reaches: every open socket, listener and
\* child is in a map, or is a child whose load startChild is still waiting for
\* (a failed load is killed, a closed handle closes what it named).
NothingLeaks ==
    \A id \in open :
        \/ \E h \in Handle : table[h].id = id /\ table[h].kind # "err"
        \/ \E f \in flights : f.op = "spawn" /\ f.of = id

\* A call that waits for a child's exit is answered once the program has closed the
\* child's handle: CLOSE_SOCKET kills it, and that resolves the exit.
ClosedChildAnswers ==
    \A c \in Call :
        (\E f \in flights : f.call = c /\ f.op = "exitCode" /\ table[f.h] = Nothing)
            ~> (\A f \in flights : f.call # c)

\* Whatever order loads, closes, exits and cancels come in, the maps stay what they should be
\* and nothing is left running that no handle reaches.
NothingIsLost == HTypeOK /\ NothingLeaks
=============================================================================

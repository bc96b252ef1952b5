----------------------------- MODULE HostsProofs -----------------------------
(***************************************************************************)
(* The worlds of the three hosts, for any number of handles, files, calls   *)
(* and worlds: what a handle means (Handles), where a byte a program was     *)
(* told is written can be found (Files), and what a child of a child is      *)
(* given (Family).                                                         *)
(*                                                                         *)
(* Handles.  A spawn holds a number for as long as its worker loads, while   *)
(* other calls are numbered, so the proof needs to know that such a number   *)
(* is below nextHandle, has never been used and is no other spawn's          *)
(* (Reserved), and that everything ever named is below nextHandle (Issued).  *)
(*                                                                         *)
(* Files.  The places a byte can be in are laid out as one row of cells      *)
(* (Cells); a step moves whole cells, adds empty ones, or adds the bytes of   *)
(* one new call at the end of one of them (CellsMove, CellsWrite).          *)
(*                                                                         *)
(* Family.  What each world was given is decided from its parent alone       *)
(* (Local); that this bounds a whole line of descent is an induction over    *)
(* its length, on sets of numbers (SetInduction).                           *)
(***************************************************************************)
EXTENDS Handles, Files, Family, FiniteSetTheorems, Induction, TLAPS

-----------------------------------------------------------------------------
(* Handles *)

\* What has been named lies below nextHandle, and what has a meaning was named.
Issued ==
    /\ \A h \in used : h < nextHandle
    /\ \A h \in Handle : table[h] # Nothing => h \in used

\* A number startChild holds for a worker that is loading is spent on nothing else.
Reserved ==
    \A f \in flights : f.op = "spawn" =>
        /\ f.h \in Handle /\ f.h < nextHandle /\ f.h \notin used /\ f.of \in Call
        /\ \A g \in flights : g.op = "spawn" /\ g.h = f.h => g.call = f.call

\* A call is in flight once.
OneFlight ==
    /\ \A f \in flights : f.call <= calls
    /\ \A f, g \in flights : f.call = g.call => f = g

HInv == HTypeOK /\ Issued /\ Reserved /\ OneFlight /\ NothingLeaks

\* The records a call in flight can be.
Flights == [op : Ops, call : Call, h : 0 .. MaxHandle, of : 0 .. MaxCalls, kept : BOOLEAN]

-----------------------------------------------------------------------------
\* A world starts with nothing named and nothing in flight.
LEMMA HandlesInit == ASSUME HInit PROVE HInv
<1>1. Nothing \in Resources  BY DEF Resources
<1>2. HTypeOK  BY <1>1, HandlesAssumption DEF HInit, HTypeOK, Handle
<1>. QED  BY <1>2 DEF HInit, HInv, Issued, Reserved, OneFlight, NothingLeaks

\* What a call made and put in a map is a resource, and not nothing.
LEMMA Made ==
    ASSUME NEW kind \in Kinds, NEW id \in Call
    PROVE  /\ [kind |-> kind, id |-> id] \in Resources
           /\ [kind |-> kind, id |-> id] # Nothing
<1>1. kind # "none"  BY DEF Kinds
<1>. QED  BY <1>1 DEF Resources, Nothing

\* A handler that goes to its first await: one more call in flight, nothing else.
LEMMA AskStep ==
    ASSUME HInv, NEW o \in Ops \ {"spawn"}, NEW h \in 0 .. MaxHandle, NEW of \in 0 .. MaxCalls,
           Ask(o, h, of)
    PROVE  HInv' /\ UNCHANGED <<table, used>>
<1> DEFINE new == Flight(o, h, of)
<1>1. /\ calls' = calls + 1 /\ calls < MaxCalls /\ flights' = flights \cup {new}
      /\ UNCHANGED <<host, net, nextHandle, table, used, open, exited, known>>
  BY DEF Ask, Calling, Await, handleVars
<1>2. calls + 1 \in Call /\ calls \in Nat  BY <1>1, HandlesAssumption DEF HInv, HTypeOK, Call
<1>3. new \in Flights /\ new.call = calls + 1 /\ new.op # "spawn"  BY <1>2 DEF Flight, Flights
<1> HIDE DEF new
<1>4. HTypeOK'  BY <1>1, <1>2, <1>3, HandlesAssumption DEF HInv, HTypeOK, Flights, Call
<1>5. OneFlight'
  <2>1. \A f \in flights : f.call <= calls /\ f.call \in Nat
    BY DEF HInv, OneFlight, HTypeOK, Call
  <2>. QED  BY <1>1, <1>2, <1>3, <2>1 DEF HInv, OneFlight
<1>6. Issued' /\ Reserved' /\ NothingLeaks'
  BY <1>1, <1>3 DEF HInv, Issued, Reserved, NothingLeaks
<1>. QED  BY <1>1, <1>4, <1>5, <1>6 DEF HInv

\* A handler that ends without touching the maps, other than a spawn.
LEMMA FailsStep ==
    ASSUME HInv, NEW f \in flights, f.op # "spawn", Fails(f)
    PROVE  HInv' /\ UNCHANGED <<table, used>>
<1>1. /\ flights' = flights \ {f}
      /\ UNCHANGED <<host, net, nextHandle, table, used, open, exited, known, calls>>
  BY DEF Fails, Landed, handleVars
<1>. QED
  BY <1>1 DEF HInv, HTypeOK, Issued, Reserved, OneFlight, NothingLeaks

\* CONNECT, LISTEN and ACCEPT end: the next number names what the call made.
LEMMA NamedStep ==
    ASSUME HInv, NEW f \in flights, f.op # "spawn", NEW kind \in Kinds \ {"err"}, Named(f, kind)
    PROVE  /\ HInv'
           /\ nextHandle \in Handle /\ nextHandle \notin used
           /\ table' = [table EXCEPT ![nextHandle] = [kind |-> kind, id |-> f.call]]
           /\ used' = used \cup {nextHandle}
<1> DEFINE r == [kind |-> kind, id |-> f.call]
<1>1. /\ nextHandle <= MaxHandle /\ nextHandle' = nextHandle + 1
      /\ table' = [table EXCEPT ![nextHandle] = r] /\ used' = used \cup {nextHandle}
      /\ known' = IF f.kept THEN known \cup {nextHandle} ELSE known
      /\ open' = open \cup {f.call} /\ flights' = flights \ {f}
      /\ UNCHANGED <<host, net, exited, calls>>
  BY DEF Named, Name, Landed, Room, HInv, HTypeOK
<1>2. nextHandle \in Handle /\ nextHandle \notin used /\ f.call \in Call
  BY <1>1, HandlesAssumption DEF HInv, HTypeOK, Issued, Handle
<1>3. r \in Resources /\ r # Nothing /\ r.kind # "err" /\ r.id = f.call  BY <1>2, Made
<1> HIDE DEF r
<1>4. HTypeOK'
  BY <1>1, <1>2, <1>3, HandlesAssumption DEF HInv, HTypeOK, Handle
<1>5. Issued'
  BY <1>1, <1>2, <1>3 DEF HInv, HTypeOK, Issued, Handle
<1>6. Reserved' /\ OneFlight'
  BY <1>1, <1>2 DEF HInv, HTypeOK, Reserved, OneFlight, Handle
<1>7. NothingLeaks'
  <2>1. table[nextHandle] = Nothing  BY <1>2 DEF HInv, Issued
  <2>2. table'[nextHandle] = r /\ \A h \in Handle : h # nextHandle => table'[h] = table[h]
    BY <1>1, <1>2 DEF HInv, HTypeOK
  <2>3. ASSUME NEW id \in open' PROVE
           \/ \E h \in Handle : table'[h].id = id /\ table'[h].kind # "err"
           \/ \E g \in flights' : g.op = "spawn" /\ g.of = id
    <3>1. CASE id = f.call  BY <3>1, <1>2, <1>3, <2>2
    <3>2. CASE id # f.call
      <4>1. id \in open /\ id \in Call  BY <3>2, <1>1, <2>3 DEF HInv, HTypeOK
      <4>2. CASE \E g \in flights : g.op = "spawn" /\ g.of = id  BY <4>2, <1>1
      <4>3. ASSUME NEW h \in Handle, table[h].id = id, table[h].kind # "err"
            PROVE  h # nextHandle
        BY <4>1, <4>3, <2>1 DEF Nothing, Call
      <4>. QED  BY <4>1, <4>2, <4>3, <2>2 DEF HInv, NothingLeaks
    <3>. QED  BY <3>1, <3>2
  <2>. QED  BY <2>3 DEF NothingLeaks
<1>. QED  BY <1>1, <1>2, <1>4, <1>5, <1>6, <1>7 DEF HInv, r

\* Deno's LISTEN names its listener in the step that makes it.
LEMMA DenoListenStep ==
    ASSUME HInv, DenoListen
    PROVE  /\ HInv'
           /\ nextHandle \in Handle /\ nextHandle \notin used
           /\ table' = [table EXCEPT ![nextHandle] = [kind |-> "listener", id |-> calls + 1]]
           /\ used' = used \cup {nextHandle}
<1> DEFINE r == [kind |-> "listener", id |-> calls + 1]
<1>1. /\ nextHandle <= MaxHandle /\ nextHandle' = nextHandle + 1
      /\ table' = [table EXCEPT ![nextHandle] = r] /\ used' = used \cup {nextHandle}
      /\ known' = known \cup {nextHandle} /\ open' = open \cup {calls + 1}
      /\ calls < MaxCalls /\ calls' = calls + 1
      /\ UNCHANGED <<host, net, flights, exited>>
  BY DEF DenoListen, Name, Calling, Room, HInv, HTypeOK
<1>2. /\ nextHandle \in Handle /\ nextHandle \notin used
      /\ calls \in Nat /\ calls + 1 \in Call
  BY <1>1, HandlesAssumption DEF HInv, HTypeOK, Issued, Handle, Call
<1>3. r \in Resources /\ r # Nothing /\ r.kind # "err" /\ r.id = calls + 1
  BY <1>2, Made DEF Kinds
<1> HIDE DEF r
<1>4. HTypeOK'
  BY <1>1, <1>2, <1>3, HandlesAssumption DEF HInv, HTypeOK, Handle, Call
<1>5. Issued'
  BY <1>1, <1>2, <1>3 DEF HInv, HTypeOK, Issued, Handle
<1>6. Reserved' /\ OneFlight'
  BY <1>1, <1>2 DEF HInv, HTypeOK, Reserved, OneFlight, Handle, Call
<1>7. NothingLeaks'
  <2>1. table[nextHandle] = Nothing  BY <1>2 DEF HInv, Issued
  <2>2. table'[nextHandle] = r /\ \A h \in Handle : h # nextHandle => table'[h] = table[h]
    BY <1>1, <1>2 DEF HInv, HTypeOK
  <2>3. \A id \in open : id \in Call  BY DEF HInv, HTypeOK
  <2>4. \A h \in Handle : table[h].id \in Call => h # nextHandle
    BY <2>1 DEF Nothing, Call
  <2>. QED  BY <1>1, <1>2, <1>3, <2>2, <2>3, <2>4 DEF HInv, NothingLeaks
<1>. QED  BY <1>1, <1>2, <1>4, <1>5, <1>6, <1>7 DEF HInv, r

\* startChild takes a number and waits for its worker.
LEMMA StartChildStep ==
    ASSUME HInv, StartChild
    PROVE  HInv' /\ UNCHANGED <<table, used>>
<1> DEFINE new == Flight("spawn", nextHandle, calls + 1)
<1>1. /\ nextHandle <= MaxHandle /\ nextHandle' = nextHandle + 1
      /\ calls < MaxCalls /\ calls' = calls + 1
      /\ flights' = flights \cup {new} /\ open' = open \cup {calls + 1}
      /\ UNCHANGED <<host, net, table, used, exited, known>>
  BY DEF StartChild, Calling, Await, Room, HInv, HTypeOK
<1>2. /\ nextHandle \in Handle /\ nextHandle \in 0 .. MaxHandle /\ nextHandle \notin used
      /\ calls \in Nat /\ calls + 1 \in Call /\ calls + 1 \in 0 .. MaxCalls
  BY <1>1, HandlesAssumption DEF HInv, HTypeOK, Issued, Handle, Call
<1>3. /\ new \in Flights /\ new.call = calls + 1 /\ new.op = "spawn"
      /\ new.h = nextHandle /\ new.of = calls + 1
  BY <1>2 DEF Flight, Flights, Ops
<1> HIDE DEF new
<1>4. HTypeOK'  BY <1>1, <1>2, <1>3, HandlesAssumption DEF HInv, HTypeOK, Flights, Call
<1>5. Issued'  BY <1>1, <1>2 DEF HInv, HTypeOK, Issued, Handle
<1>6. OneFlight'
  <2>1. \A f \in flights : f.call <= calls /\ f.call \in Nat
    BY DEF HInv, OneFlight, HTypeOK, Call
  <2>. QED  BY <1>1, <1>2, <1>3, <2>1 DEF HInv, OneFlight
<1>7. Reserved'
  <2>1. \A f \in flights : f.op = "spawn" => f.h < nextHandle /\ f.h \in Handle
    BY DEF HInv, Reserved
  <2>. QED  BY <1>1, <1>2, <1>3, <2>1 DEF HInv, Reserved, Handle
<1>8. NothingLeaks'  BY <1>1, <1>3 DEF HInv, NothingLeaks
<1>. QED  BY <1>1, <1>4, <1>5, <1>6, <1>7, <1>8 DEF HInv

\* The worker has loaded: the number held and the next one come to name the child and
\* its error stream.
LEMMA RegisterStep ==
    ASSUME HInv, NEW f \in flights, f.op = "spawn", Register(f)
    PROVE  /\ HInv'
           /\ {f.h, nextHandle} \subseteq Handle \ used /\ f.h # nextHandle /\ f.of \in Call
           /\ table' = [table EXCEPT ![f.h] = [kind |-> "child", id |-> f.of],
                                     ![nextHandle] = [kind |-> "err", id |-> f.of]]
           /\ used' = used \cup {f.h, nextHandle}
<1> DEFINE rc == [kind |-> "child", id |-> f.of]
           re == [kind |-> "err", id |-> f.of]
<1>1. /\ nextHandle <= MaxHandle /\ nextHandle' = nextHandle + 1
      /\ table' = [table EXCEPT ![f.h] = rc, ![nextHandle] = re]
      /\ used' = used \cup {f.h, nextHandle}
      /\ known' = IF f.kept THEN known \cup {f.h, nextHandle} ELSE known
      /\ flights' = flights \ {f} /\ UNCHANGED <<host, net, open, exited, calls>>
  BY DEF Register, Landed, Room, HInv, HTypeOK
<1>2. /\ nextHandle \in Handle /\ nextHandle \notin used
      /\ f.h \in Handle /\ f.h \notin used /\ f.h < nextHandle /\ f.of \in Call
      /\ f.h # nextHandle
  BY <1>1, HandlesAssumption DEF HInv, HTypeOK, Issued, Reserved, Handle
<1>3. /\ rc \in Resources /\ rc # Nothing /\ rc.kind # "err" /\ rc.id = f.of
      /\ re \in Resources /\ re # Nothing
  BY <1>2, Made DEF Kinds
<1> HIDE DEF rc, re
<1>4. /\ table'[f.h] = rc /\ table'[nextHandle] = re
      /\ \A h \in Handle : h # f.h /\ h # nextHandle => table'[h] = table[h]
      /\ table' \in [Handle -> Resources]
  BY <1>1, <1>2, <1>3 DEF HInv, HTypeOK
<1>5. HTypeOK'
  <2>1. nextHandle' \in 1 .. MaxHandle + 1
    BY <1>1, <1>2, HandlesAssumption DEF Handle
  <2>2. known' \subseteq used' /\ used' \subseteq Handle  BY <1>1, <1>2 DEF HInv, HTypeOK
  <2>. QED  BY <1>1, <1>4, <2>1, <2>2 DEF HInv, HTypeOK
<1>6. Issued'
  BY <1>1, <1>2, <1>4 DEF HInv, HTypeOK, Issued, Handle
<1>7. OneFlight'  BY <1>1 DEF HInv, OneFlight
<1>8. Reserved'
  <2>1. \A g \in flights' : g.op = "spawn" => g.h # f.h /\ g.h # nextHandle
    BY <1>1, <1>2 DEF HInv, Reserved, OneFlight, Handle
  <2>. QED  BY <1>1, <1>2, <2>1 DEF HInv, Reserved, Handle
<1>9. NothingLeaks'
  <2>1. table[nextHandle] = Nothing /\ table[f.h] = Nothing  BY <1>2 DEF HInv, Issued
  <2>2. \A id \in open : id \in Call  BY DEF HInv, HTypeOK
  <2>3. \A h \in Handle : table[h].id \in Call => h # nextHandle /\ h # f.h
    BY <2>1 DEF Nothing, Call
  <2>4. \A g \in flights : g.op = "spawn" /\ g # f => g \in flights'  BY <1>1
  <2>. QED  BY <1>1, <1>2, <1>3, <1>4, <2>2, <2>3, <2>4 DEF HInv, NothingLeaks
<1>. QED  BY <1>1, <1>2, <1>5, <1>6, <1>7, <1>8, <1>9 DEF HInv, rc, re

\* The worker did not load: it is killed, and its number never names anything.
LEMMA UnloadedStep ==
    ASSUME HInv, NEW f \in flights, f.op = "spawn", KillUnloaded(f)
    PROVE  HInv' /\ UNCHANGED <<table, used>>
<1>1. /\ flights' = flights \ {f} /\ open' = open \ {f.of} /\ exited' = exited \cup {f.of}
      /\ UNCHANGED <<host, net, nextHandle, table, used, known, calls>>
  BY DEF KillUnloaded, Landed, handleVars
<1>2. f.of \in Call  BY DEF HInv, Reserved
<1>. QED
  BY <1>1, <1>2 DEF HInv, HTypeOK, Issued, Reserved, OneFlight, NothingLeaks

\* cancel: the handler goes on, and its answer is for nobody.
LEMMA CancelStep ==
    ASSUME HInv, NEW f \in flights, Cancel(f)
    PROVE  HInv' /\ UNCHANGED <<table, used>>
<1> DEFINE g == [f EXCEPT !.kept = FALSE]
<1>1. /\ flights' = (flights \ {f}) \cup {g}
      /\ UNCHANGED <<host, net, nextHandle, table, used, open, exited, known, calls>>
  BY DEF Cancel, handleVars
<1>2. /\ g \in Flights /\ g.op = f.op /\ g.call = f.call /\ g.h = f.h /\ g.of = f.of
  BY DEF HInv, HTypeOK, Flights
<1> HIDE DEF g
<1>3. HTypeOK'  BY <1>1, <1>2 DEF HInv, HTypeOK, Flights
<1>4. OneFlight'  BY <1>1, <1>2 DEF HInv, OneFlight
<1>5. Issued' /\ Reserved' /\ NothingLeaks'
  BY <1>1, <1>2 DEF HInv, Issued, Reserved, NothingLeaks
<1>. QED  BY <1>1, <1>3, <1>4, <1>5 DEF HInv

\* A worker that ends by itself stays in its map until its handle is closed.
LEMMA ExitsStep ==
    ASSUME HInv, NEW id \in open, ChildExits(id)
    PROVE  HInv' /\ UNCHANGED <<table, used>>
BY DEF ChildExits, handleVars, HInv, HTypeOK, Issued, Reserved, OneFlight, NothingLeaks

\* CLOSE_SOCKET: what the handle named is closed, and the handle means nothing again, or
\* (an error stream's in a page) goes on meaning what it meant.
LEMMA CloseStep ==
    ASSUME HInv, NEW h \in Handle, Shut(h), Empty(h) \/ (~Is("child", h) /\ UNCHANGED handleVars)
    PROVE  /\ HInv' /\ UNCHANGED used
           /\ table' = [table EXCEPT ![h] = Nothing] \/ UNCHANGED table
<1>1. /\ open' = (IF table[h].kind \in {"socket", "listener", "child"}
                  THEN open \ {table[h].id} ELSE open)
      /\ exited' = (IF table[h].kind = "child" THEN exited \cup {table[h].id} ELSE exited)
      /\ UNCHANGED <<host, net, flights, known, calls>>
  BY DEF Shut, Is
<1>2. /\ UNCHANGED <<nextHandle, used>>
      /\ table' = [table EXCEPT ![h] = Nothing] \/ UNCHANGED table
  BY DEF Empty, handleVars
<1>3. Nothing \in Resources  BY DEF Resources
<1>4. table[h].kind = "child" => table[h].id \in Call
  BY DEF HInv, HTypeOK, Resources, Nothing
<1>5. HTypeOK'  BY <1>1, <1>2, <1>3, <1>4 DEF HInv, HTypeOK
<1>6. Issued' /\ Reserved' /\ OneFlight'
  BY <1>1, <1>2 DEF HInv, HTypeOK, Issued, Reserved, OneFlight
<1>7. NothingLeaks'
  <2>1. \A k \in Handle : k # h => table'[k] = table[k]  BY <1>2 DEF HInv, HTypeOK
  <2>2. CASE table[h].kind \in {"socket", "listener", "child"}
    BY <2>1, <2>2, <1>1 DEF HInv, NothingLeaks
  <2>3. CASE table[h].kind \notin {"socket", "listener", "child"}
    <3>1. table[h].kind = "err" \/ table[h] = Nothing
      BY <2>3 DEF HInv, HTypeOK, Resources, Kinds
    <3>2. \A id \in open : id \in Call  BY DEF HInv, HTypeOK
    <3>3. Nothing.id \notin Call  BY DEF Nothing, Call
    <3>. QED  BY <2>1, <2>3, <3>1, <3>2, <3>3, <1>1 DEF HInv, NothingLeaks
  <2>. QED  BY <2>2, <2>3
<1>. QED  BY <1>2, <1>5, <1>6, <1>7 DEF HInv

-----------------------------------------------------------------------------
\* What a step does to the names: nothing, or it gives unused handles a meaning, or it
\* takes one handle's meaning away.
Untouched == UNCHANGED <<table, used>>
Issues ==
    \E new \in SUBSET (Handle \ used) :
        /\ used' = used \cup new
        /\ \A h \in Handle : IF h \in new THEN table'[h] # Nothing ELSE table'[h] = table[h]
Retires == \E h \in Handle : table' = [table EXCEPT ![h] = Nothing] /\ UNCHANGED used

\* Every handler of every host keeps the invariant, and does to the names no more than that.
LEMMA HandlesStep == ASSUME HInv, HNext PROVE HInv' /\ (Untouched \/ Issues \/ Retires)
<1>a. /\ 0 \in 0 .. MaxHandle /\ 0 \in 0 .. MaxCalls /\ known \subseteq Handle
      /\ \A h \in Handle : h \in 0 .. MaxHandle /\ table[h].id \in 0 .. MaxCalls
  <2>1. \A r \in Resources : r.id \in 0 .. MaxCalls
    BY HandlesAssumption DEF Resources, Nothing, Call
  <2>. QED  BY <2>1, HandlesAssumption DEF HInv, HTypeOK, Handle
<1>b. ASSUME UNCHANGED hVars PROVE HInv' /\ Untouched
  BY <1>b DEF hVars, handleVars, HInv, HTypeOK, Issued, Reserved, OneFlight, NothingLeaks,
              Untouched
<1>c. ASSUME NEW f \in flights, f.op # "spawn", NEW kind \in Kinds \ {"err"}, Named(f, kind)
      PROVE  HInv' /\ Issues
  <2>1. [kind |-> kind, id |-> f.call] # Nothing
    <3>1. f.call \in Call  BY DEF HInv, HTypeOK
    <3>. QED  BY <3>1, Made
  <2>2. PICK r : r # Nothing /\ table' = [table EXCEPT ![nextHandle] = r]
    BY <1>c, <2>1, NamedStep
  <2>3. HInv' /\ {nextHandle} \in SUBSET (Handle \ used) /\ used' = used \cup {nextHandle}
    BY <1>c, NamedStep
  <2>. QED  BY <2>2, <2>3 DEF Issues, HInv, HTypeOK
<1>d. ASSUME NEW o \in Ops \ {"spawn"}, NEW h \in Handle, Ask(o, h, table[h].id)
      PROVE  HInv' /\ Untouched
  BY <1>a, <1>d, AskStep DEF Untouched
<1>1. ASSUME Starts PROVE HInv' /\ (Untouched \/ Issues)
  <2>1. CASE DenoStartChild \/ NodeStartChild \/ BrowserStartChild
    BY <2>1, StartChildStep DEF DenoStartChild, NodeStartChild, BrowserStartChild, Untouched
  <2>2. CASE NodeNoWorker \/ SpawnSelfRefused \/ BrowserNoSockets \/ Deny
    BY <2>2, <1>b DEF NodeNoWorker, SpawnSelfRefused, BrowserNoSockets, Deny, Answer
  <2>3. CASE DenoConnect \/ NodeConnect \/ NodeListen
    <3>1. {"connect", "listen"} \subseteq Ops \ {"spawn"}  BY DEF Ops
    <3>2. \E o \in Ops \ {"spawn"} : Ask(o, 0, 0)
      BY <2>3, <3>1 DEF DenoConnect, NodeConnect, NodeListen
    <3>. QED  BY <1>a, <3>2, AskStep DEF Untouched
  <2>4. CASE DenoListen
    <3>1. calls + 1 \in Call
      BY <2>4, HandlesAssumption DEF DenoListen, Calling, HInv, HTypeOK, Call
    <3>2. [kind |-> "listener", id |-> calls + 1] # Nothing  BY <3>1, Made DEF Kinds
    <3>3. PICK r : r # Nothing /\ table' = [table EXCEPT ![nextHandle] = r]
      BY <2>4, <3>2, DenoListenStep
    <3>4. HInv' /\ {nextHandle} \in SUBSET (Handle \ used) /\ used' = used \cup {nextHandle}
      BY <2>4, DenoListenStep
    <3>. QED  BY <3>3, <3>4 DEF Issues, HInv, HTypeOK
  <2>. QED  BY <1>1, <2>1, <2>2, <2>3, <2>4 DEF Starts
<1>2. ASSUME NEW h \in known, Uses(h) PROVE HInv' /\ (Untouched \/ Retires)
  <2>1. h \in Handle  BY <1>2, <1>a
  <2>2. {"accept", "recv", "send", "exitCode"} \subseteq Ops \ {"spawn"}  BY DEF Ops
  <2>3. CASE DenoAccept(h) \/ NodeAccept(h)
    BY <2>1, <2>2, <2>3, <1>b, <1>d DEF DenoAccept, NodeAccept, Refuse, Answer
  <2>4. CASE DenoRecv(h) \/ NodeRecv(h) \/ BrowserRecv(h)
    BY <2>1, <2>2, <2>4, <1>b, <1>d DEF DenoRecv, NodeRecv, BrowserRecv, Receives, Refuse, Answer
  <2>5. CASE DenoSend(h) \/ NodeSend(h) \/ BrowserSend(h)
    BY <2>1, <2>2, <2>5, <1>b, <1>d DEF DenoSend, NodeSend, BrowserSend, Sends, Refuse, Answer
  <2>6. CASE DenoExitCode(h) \/ NodeExitCode(h) \/ BrowserExitCode(h)
    BY <2>1, <2>2, <2>6, <1>b, <1>d
    DEF DenoExitCode, NodeExitCode, BrowserExitCode, Exit, Refuse, Answer
  <2>7. CASE DenoCloseFeed(h) \/ NodeCloseFeed(h) \/ BrowserCloseFeed(h)
    BY <2>7, <1>b DEF DenoCloseFeed, NodeCloseFeed, BrowserCloseFeed, Answer
  <2>8. CASE DenoClose(h) \/ NodeClose(h) \/ BrowserClose(h)
    <3>1. Shut(h) /\ (Empty(h) \/ (~Is("child", h) /\ UNCHANGED handleVars))
      BY <2>8 DEF DenoClose, NodeClose, BrowserClose
    <3>. QED  BY <2>1, <3>1, CloseStep DEF Untouched, Retires
  <2>. QED  BY <1>2, <2>3, <2>4, <2>5, <2>6, <2>7, <2>8 DEF Uses
<1>3. ASSUME NEW f \in flights, Settles(f) PROVE HInv' /\ (Untouched \/ Issues)
  <2>1. CASE DenoLoaded(f) \/ NodeLoaded(f) \/ BrowserLoaded(f)
    <3>1. f.op = "spawn" /\ Register(f)  BY <2>1 DEF DenoLoaded, NodeLoaded, BrowserLoaded
    <3>2. f.of \in Call  BY <3>1, RegisterStep
    <3>3. /\ [kind |-> "child", id |-> f.of] # Nothing
          /\ [kind |-> "err", id |-> f.of] # Nothing
      BY <3>2, Made DEF Kinds
    <3>4. PICK r, e : /\ r # Nothing /\ e # Nothing
                      /\ table' = [table EXCEPT ![f.h] = r, ![nextHandle] = e]
      BY <3>1, <3>3, RegisterStep
    <3>5. /\ HInv' /\ {f.h, nextHandle} \in SUBSET (Handle \ used) /\ f.h # nextHandle
          /\ used' = used \cup {f.h, nextHandle}
      BY <3>1, RegisterStep
    <3>6. \A h \in Handle : IF h \in {f.h, nextHandle} THEN table'[h] # Nothing
                                                     ELSE table'[h] = table[h]
      BY <3>4, <3>5 DEF HInv, HTypeOK
    <3>. QED  BY <3>5, <3>6 DEF Issues
  <2>2. CASE DenoUnloaded(f) \/ NodeUnloaded(f) \/ BrowserUnloaded(f)
    BY <2>2, UnloadedStep DEF DenoUnloaded, NodeUnloaded, BrowserUnloaded, Untouched
  <2>3. CASE \/ DenoConnected(f) \/ NodeConnected(f) \/ NodeListening(f)
             \/ DenoAccepted(f) \/ NodeAccepted(f)
    <3>1. {"socket", "listener"} \subseteq Kinds \ {"err"}  BY DEF Kinds
    <3>2. f.op # "spawn" /\ \E kind \in Kinds \ {"err"} : Named(f, kind)
      BY <2>3, <3>1
      DEF DenoConnected, NodeConnected, NodeListening, DenoAccepted, NodeAccepted
    <3>. QED  BY <3>2, <1>c
  <2>4. CASE Arrives(f) \/ Exited(f) \/ GivesUp(f)
    BY <2>4, FailsStep DEF Arrives, Exited, GivesUp, Untouched
  <2>. QED  BY <1>3, <2>1, <2>2, <2>3, <2>4 DEF Settles
<1>4. ASSUME NEW f \in flights, Cancel(f) PROVE HInv' /\ Untouched
  BY <1>4, CancelStep DEF Untouched
<1>5. ASSUME NEW id \in open, ChildExits(id) PROVE HInv' /\ Untouched
  BY <1>5, ExitsStep DEF Untouched
<1>. QED  BY <1>1, <1>2, <1>3, <1>4, <1>5 DEF HNext

\* The invariant holds in every state of every world.
THEOREM HandlesInvariance == HSpec => []HInv
<1>1. HInit => HInv  BY HandlesInit
<1>2. HInv /\ [HNext]_hVars => HInv'
  <2>1. ASSUME HInv, UNCHANGED hVars PROVE HInv'
    BY <2>1 DEF hVars, handleVars, HInv, HTypeOK, Issued, Reserved, OneFlight, NothingLeaks
  <2>. QED  BY <2>1, HandlesStep
<1>. QED  BY <1>1, <1>2, PTL DEF HSpec

\* Whatever order loads, closes, exits and cancels come in, on each host and for any
\* number of calls, every socket, listener and child that is open is in a map under a
\* handle or is a child whose load startChild awaits.
THEOREM NothingIsEverLost == HSpec => []NothingIsLost
<1>1. HInv => NothingIsLost  BY DEF HInv, NothingIsLost
<1>. QED  BY <1>1, HandlesInvariance, PTL

\* The three worlds implement HandleSpace for any number of handles: a handle is given a
\* meaning once and, closed, never comes back as something else.
THEOREM HandlesImplementSpace == HSpec => ImplementsHandleSpace
<1> DEFINE N == [h \in Handle |-> table[h]]
           S == used \ Live
<1>1. HInit => Space!Init
  BY DEF HInit, Space!Init, Live
<1>2. ASSUME HInv, HInv', [HNext]_hVars PROVE [Space!Next]_<<N, S>>
  <2>0. /\ table \in [Handle -> Resources] /\ table' \in [Handle -> Resources]
        /\ N = table /\ N' = table'
    BY <1>2 DEF HInv, HTypeOK
  <2>1. Untouched \/ Issues \/ Retires
    BY <1>2, HandlesStep DEF hVars, handleVars, Untouched
  <2>2. CASE Untouched  BY <2>2 DEF Untouched, Live
  <2>3. CASE Issues
    <3>1. PICK new \in SUBSET (Handle \ used) :
            /\ used' = used \cup new
            /\ \A h \in Handle : IF h \in new THEN table'[h] # Nothing ELSE table'[h] = table[h]
      BY <2>3 DEF Issues
    <3>2. \A h \in new : table[h] = Nothing  BY <1>2 DEF HInv, Issued
    <3>3. S' = S  BY <3>1, <3>2, <2>0 DEF Live
    <3>4. \A h \in Handle : N'[h] # N[h] => N[h] = Nothing /\ h \notin S /\ N'[h] \in Resources
      BY <2>0, <3>1, <3>2
    <3>5. DOMAIN N' = Handle  BY <2>0
    <3>. QED  BY <3>3, <3>4, <3>5 DEF Space!Next, Space!Issue
  <2>4. CASE Retires
    <3>1. PICK h \in Handle : table' = [table EXCEPT ![h] = Nothing] /\ UNCHANGED used
      BY <2>4 DEF Retires
    <3>2. CASE table[h] = Nothing
      <4>1. table' = table  BY <2>0, <3>1, <3>2
      <4>. QED  BY <3>1, <4>1 DEF Live
    <3>3. CASE table[h] # Nothing
      <4>1. h \in used  BY <1>2, <3>3 DEF HInv, Issued
      <4>2. S' = S \cup {h}  BY <2>0, <3>1, <4>1 DEF Live
      <4>3. N' = [N EXCEPT ![h] = Nothing] /\ N[h] # Nothing  BY <2>0, <3>1, <3>3
      <4>. QED  BY <4>2, <4>3 DEF Space!Next, Space!Retire
    <3>. QED  BY <3>2, <3>3
  <2>. QED  BY <2>1, <2>2, <2>3, <2>4
<1>. QED
  BY <1>1, <1>2, HandlesInvariance, PTL DEF HSpec, ImplementsHandleSpace, Space!Spec

-----------------------------------------------------------------------------
(* Files: the cells a byte can be in *)

\* A byte by where it comes from: the call that wrote it, and its place in that call.
Token == Nat \X Nat

\* Cells of tokens: each in the order of the calls, no call in two of them, none
\* later than call n, and every token of a in one.
Boxed(C, n, a) ==
    /\ \A k \in DOMAIN C : C[k] \in Seq(Token)
    /\ \A k \in DOMAIN C : \A i \in DOMAIN C[k] : C[k][i][1] <= n
    /\ \A k \in DOMAIN C : \A i, j \in DOMAIN C[k] : i < j => Before(C[k][i], C[k][j])
    /\ \A k, l \in DOMAIN C : k # l =>
         \A i \in DOMAIN C[k], j \in DOMAIN C[l] : C[k][i][1] # C[l][j][1]
    /\ \A t \in a : \E k \in DOMAIN C : \E i \in DOMAIN C[k] : C[k][i] = t

\* Moving whole cells about, and adding empty ones.
LEMMA CellsMove ==
    ASSUME NEW C, NEW n \in Nat, NEW a, Boxed(C, n, a), NEW D, NEW n2 \in Nat, n <= n2, NEW m,
           \A p \in DOMAIN D : D[p] = <<>> \/ (m[p] \in DOMAIN C /\ D[p] = C[m[p]]),
           \A p, q \in DOMAIN D : p # q => m[p] # m[q],
           \A k \in DOMAIN C : C[k] = <<>> \/ \E p \in DOMAIN D : D[p] = C[k]
    PROVE  Boxed(D, n2, a)
<1>1. ASSUME NEW k \in DOMAIN D, NEW i \in DOMAIN D[k]
      PROVE  m[k] \in DOMAIN C /\ D[k] = C[m[k]]
  <2>1. D[k] # <<>>
    <3>1. SUFFICES ASSUME D[k] = <<>> PROVE FALSE  OBVIOUS
    <3>2. DOMAIN D[k] = {}  BY <3>1
    <3>. QED  BY <1>1, <3>2
  <2>. QED  BY <2>1
<1>2. ASSUME NEW k \in DOMAIN D PROVE D[k] \in Seq(Token)
  <2>1. CASE D[k] = <<>>  BY <2>1
  <2>2. CASE D[k] # <<>>
    <3>1. m[k] \in DOMAIN C /\ D[k] = C[m[k]]  BY <2>2
    <3>. QED  BY <3>1 DEF Boxed
  <2>. QED  BY <2>1, <2>2
<1>3. ASSUME NEW k \in DOMAIN D, NEW i \in DOMAIN D[k] PROVE D[k][i][1] <= n2
  <2>1. D[k][i][1] \in Nat  BY <1>2 DEF Token
  <2>2. D[k][i][1] <= n  BY <1>1 DEF Boxed
  <2>. QED  BY <2>1, <2>2
<1>4. ASSUME NEW k \in DOMAIN D, NEW i \in DOMAIN D[k], NEW j \in DOMAIN D[k], i < j
      PROVE  Before(D[k][i], D[k][j])
  BY <1>1, <1>4 DEF Boxed
<1>5. ASSUME NEW k \in DOMAIN D, NEW l \in DOMAIN D, k # l, NEW i \in DOMAIN D[k], NEW j \in DOMAIN D[l]
      PROVE  D[k][i][1] # D[l][j][1]
  <2>1. /\ m[k] \in DOMAIN C /\ D[k] = C[m[k]]
        /\ m[l] \in DOMAIN C /\ D[l] = C[m[l]]
        /\ m[k] # m[l]
    BY <1>1, <1>5
  <2>. QED  BY <2>1 DEF Boxed
<1>6. ASSUME NEW t \in a PROVE \E k \in DOMAIN D : \E i \in DOMAIN D[k] : D[k][i] = t
  <2>1. PICK k \in DOMAIN C : \E i \in DOMAIN C[k] : C[k][i] = t  BY DEF Boxed
  <2>2. C[k] # <<>>
    <3>1. SUFFICES ASSUME C[k] = <<>> PROVE FALSE  OBVIOUS
    <3>2. DOMAIN C[k] = {}  BY <3>1
    <3>. QED  BY <2>1, <3>2
  <2>. QED  BY <2>1, <2>2
<1>. QED  BY <1>2, <1>3, <1>4, <1>5, <1>6 DEF Boxed

\* A call adds tokens of its own at the end of one cell.
Grown(C, D, n, k0, t, a, b) ==
    /\ n \in Nat /\ Boxed(C, n, a) /\ k0 \in DOMAIN C /\ DOMAIN D = DOMAIN C
    /\ t \in Seq(Token) /\ \A i \in 1 .. Len(t) : t[i] = <<n + 1, i>>
    /\ D[k0] = C[k0] \o t /\ \A k \in DOMAIN C \ {k0} : D[k] = C[k]
    /\ \A u \in b : u \in a \/ \E i \in 1 .. Len(t) : u = t[i]

\* Such a call keeps the cells in order, and its acknowledged tokens are in one.
LEMMA CellsWrite ==
    ASSUME NEW C, NEW D, NEW n, NEW k0, NEW t, NEW a, NEW b, Grown(C, D, n, k0, t, a, b)
    PROVE  Boxed(D, n + 1, b)
<1>0. /\ n \in Nat /\ Boxed(C, n, a) /\ k0 \in DOMAIN C /\ DOMAIN D = DOMAIN C
      /\ t \in Seq(Token) /\ \A i \in 1 .. Len(t) : t[i] = <<n + 1, i>>
      /\ D[k0] = C[k0] \o t /\ \A k \in DOMAIN C \ {k0} : D[k] = C[k]
      /\ \A u \in b : u \in a \/ \E i \in 1 .. Len(t) : u = t[i]
  BY DEF Grown
<1> USE <1>0
<1> DEFINE s == C[k0]
           L == Len(s)
<1>1. s \in Seq(Token) /\ L \in Nat /\ DOMAIN s = 1 .. L  BY DEF Boxed
<1>2. /\ s \o t \in Seq(Token) /\ DOMAIN (s \o t) = 1 .. L + Len(t)
      /\ \A i \in 1 .. L : (s \o t)[i] = s[i]
      /\ \A i \in 1 .. Len(t) : (s \o t)[L + i] = t[i]
  BY <1>1
<1>3. \A k \in DOMAIN D : D[k] \in Seq(Token)  BY <1>2 DEF Boxed
<1>4. ASSUME NEW i \in DOMAIN D[k0]
      PROVE  \/ i \in 1 .. L /\ D[k0][i] = s[i] /\ s[i][1] <= n /\ s[i] \in Token
             \/ i \in L + 1 .. L + Len(t) /\ D[k0][i] = <<n + 1, i - L>>
  <2>1. i \in 1 .. L \/ (i \in L + 1 .. L + Len(t) /\ i - L \in 1 .. Len(t) /\ i = L + (i - L))
    BY <1>1, <1>2
  <2>2. i \in 1 .. L => s[i][1] <= n /\ s[i] \in Token  BY <1>1 DEF Boxed
  <2>. QED  BY <2>1, <2>2, <1>2
<1>5. ASSUME NEW k \in DOMAIN D, NEW i \in DOMAIN D[k] PROVE D[k][i][1] <= n + 1
  <2>1. CASE k = k0
    <3>1. D[k] = D[k0] /\ i \in DOMAIN D[k0]  BY <2>1, <1>5
    <3>2. CASE i \in 1 .. L
      <4>1. D[k0][i][1] <= n /\ D[k0][i][1] \in Nat  BY <1>1, <1>4, <3>1, <3>2 DEF Token
      <4>. QED  BY <3>1, <4>1
    <3>3. CASE i \notin 1 .. L  BY <1>4, <3>1, <3>3
    <3>. QED  BY <3>2, <3>3
  <2>2. CASE k # k0
    <3>1. D[k] = C[k] /\ C[k] \in Seq(Token) /\ C[k][i][1] <= n  BY <2>2, <1>5 DEF Boxed
    <3>2. C[k][i] \in Token  BY <1>5, <3>1
    <3>. QED  BY <3>1, <3>2 DEF Token
  <2>. QED  BY <2>1, <2>2
<1>6. ASSUME NEW k \in DOMAIN D, NEW i \in DOMAIN D[k], NEW j \in DOMAIN D[k], i < j
      PROVE  Before(D[k][i], D[k][j])
  <2>1. CASE k # k0
    <3>1. D[k] = C[k]  BY <2>1
    <3>. QED  BY <1>6, <3>1 DEF Boxed
  <2>2. CASE k = k0
    <3>0. D[k] = D[k0] /\ i \in DOMAIN D[k0] /\ j \in DOMAIN D[k0]  BY <2>2, <1>6
    <3>1. CASE j \in 1 .. L
      <4>1. i \in 1 .. L /\ D[k0][i] = s[i] /\ D[k0][j] = s[j]  BY <3>0, <3>1, <1>1, <1>2, <1>4, <1>6
      <4>. QED  BY <3>0, <3>1, <4>1, <1>1, <1>6 DEF Boxed
    <3>2. CASE j \notin 1 .. L
      <4>1. j \in L + 1 .. L + Len(t) /\ D[k0][j] = <<n + 1, j - L>>  BY <3>0, <3>2, <1>4
      <4>2. CASE i \in 1 .. L
        <5>1. D[k0][i][1] <= n /\ D[k0][i][1] \in Nat  BY <3>0, <4>2, <1>1, <1>4 DEF Token
        <5>. QED  BY <3>0, <4>1, <5>1 DEF Before
      <4>3. CASE i \notin 1 .. L
        <5>1. i \in L + 1 .. L + Len(t) /\ D[k0][i] = <<n + 1, i - L>>  BY <3>0, <4>3, <1>4
        <5>. QED  BY <3>0, <4>1, <5>1, <1>1, <1>6 DEF Before
      <4>. QED  BY <4>2, <4>3
    <3>. QED  BY <3>1, <3>2
  <2>. QED  BY <2>1, <2>2
<1>7. ASSUME NEW l \in DOMAIN C, l # k0, NEW i \in DOMAIN D[k0], NEW j \in DOMAIN D[l]
      PROVE  D[k0][i][1] # D[l][j][1]
  <2>1. D[l] = C[l] /\ C[l] \in Seq(Token) /\ C[l][j][1] <= n  BY <1>7 DEF Boxed
  <2>2. C[l][j][1] \in Nat  BY <1>7, <2>1 DEF Token
  <2>3. CASE i \in 1 .. L
    <3>1. D[k0][i] = C[k0][i] /\ i \in DOMAIN C[k0]  BY <1>1, <1>2, <2>3
    <3>2. C[k0][i][1] # C[l][j][1]  BY <1>7, <2>1, <3>1 DEF Boxed
    <3>. QED  BY <2>1, <3>1, <3>2
  <2>4. CASE i \notin 1 .. L  BY <1>4, <2>1, <2>2, <2>4
  <2>. QED  BY <2>3, <2>4
<1>8. ASSUME NEW k \in DOMAIN D, NEW l \in DOMAIN D, k # l, NEW i \in DOMAIN D[k], NEW j \in DOMAIN D[l]
      PROVE  D[k][i][1] # D[l][j][1]
  <2>1. CASE k = k0  BY <1>7, <1>8, <2>1
  <2>2. CASE l = k0  BY <1>7, <1>8, <2>2
  <2>3. CASE k # k0 /\ l # k0
    <3>1. D[k] = C[k] /\ D[l] = C[l]  BY <2>3
    <3>. QED  BY <1>8, <3>1 DEF Boxed
  <2>. QED  BY <2>1, <2>2, <2>3
<1>9. ASSUME NEW u \in b PROVE \E k \in DOMAIN D : \E i \in DOMAIN D[k] : D[k][i] = u
  <2>1. CASE u \in a
    <3>1. PICK k \in DOMAIN C : \E i \in DOMAIN C[k] : C[k][i] = u  BY <2>1 DEF Boxed
    <3>2. CASE k = k0
      <4>0. PICK i \in DOMAIN s : s[i] = u  BY <3>1, <3>2
      <4>1. i \in 1 .. L /\ i \in DOMAIN D[k0] /\ D[k0][i] = u  BY <4>0, <3>1, <3>2, <1>1, <1>2
      <4>. QED  BY <4>1
    <3>3. CASE k # k0  BY <3>1, <3>3
    <3>. QED  BY <3>2, <3>3
  <2>2. CASE u \notin a
    <3>1. PICK i \in 1 .. Len(t) : u = t[i]  BY <2>2
    <3>2. L + i \in DOMAIN D[k0] /\ D[k0][L + i] = u  BY <3>1, <1>1, <1>2
    <3>. QED  BY <3>2
  <2>. QED  BY <2>1, <2>2
<1> HIDE DEF s, L
<1>. QED  BY <1>3, <1>5, <1>6, <1>8, <1>9 DEF Boxed

-----------------------------------------------------------------------------
(* The cells of the hosts *)

File == [name : Paths, mode : Streams, open : BOOLEAN, got : Seq(Token)]
Frame == [fed : Nat, out : Seq(Token)]

PlaceAt(p) ==
    IF p = 1 THEN stdout
    ELSE IF p <= 1 + Len(captured) THEN captured[p - 1]
    ELSE IF p <= 1 + Len(captured) + Len(files) THEN files[p - 1 - Len(captured)].got
    ELSE frames[p - 1 - Len(captured) - Len(files)].out
Cells == [p \in 1 .. 1 + Len(captured) + Len(files) + Len(frames) |-> PlaceAt(p)]

BytesType ==
    /\ stdout \in Seq(Token) /\ captured \in Seq(Seq(Token))
    /\ files \in Seq(File) /\ frames \in Seq(Frame)
    /\ fileCalls \in Nat /\ inside \subseteq 1 .. fileCalls
\* The acknowledged tokens a file system that takes whole writes has.
Kept == IF ShortWrites THEN {} ELSE acked
BytesInv == BytesType /\ Boxed(Cells, fileCalls, Kept) /\ InsideStaysInside /\ NeverTheTerminal

\* Two sequences, end to end.
LEMMA EndToEnd ==
    ASSUME NEW X, NEW s \in Seq(X), NEW t \in Seq(X)
    PROVE  /\ s \o t \in Seq(X) /\ Len(s \o t) = Len(s) + Len(t)
           /\ \A i \in 1 .. Len(s) : (s \o t)[i] = s[i]
           /\ \A i \in 1 .. Len(t) : (s \o t)[Len(s) + i] = t[i]
OBVIOUS

\* The sequence of places is these cells.
LEMMA PlacesAreCells ==
    ASSUME BytesType
    PROVE  /\ DOMAIN Places = DOMAIN Cells
           /\ \A p \in DOMAIN Cells : Places[p] = Cells[p]
<1> DEFINE a == <<stdout>>
           c == [i \in DOMAIN files |-> files[i].got]
           d == [i \in DOMAIN frames |-> frames[i].out]
           X == Seq(Token)
           A == Len(captured)
           B == Len(files)
           E == Len(frames)
<1>1. a \in Seq(X) /\ Len(a) = 1 /\ a[1] = stdout  BY DEF BytesType
<1>2. c \in Seq(X) /\ Len(c) = B /\ \A i \in 1 .. B : c[i] = files[i].got
  <2>0. files \in Seq(File) /\ B \in Nat /\ DOMAIN files = 1 .. B  BY DEF BytesType
  <2>2. ASSUME NEW i \in 1 .. B PROVE files[i].got \in X
    <3>1. files[i] \in File  BY <2>0
    <3>. QED  BY <3>1 DEF File
  <2>1. c \in [1 .. B -> X]  BY <2>0, <2>2
  <2>. QED  BY <2>0, <2>1
<1>3. d \in Seq(X) /\ Len(d) = E /\ \A i \in 1 .. E : d[i] = frames[i].out
  <2>0. frames \in Seq(Frame) /\ E \in Nat /\ DOMAIN frames = 1 .. E  BY DEF BytesType
  <2>2. ASSUME NEW i \in 1 .. E PROVE frames[i].out \in X
    <3>1. frames[i] \in Frame  BY <2>0
    <3>. QED  BY <3>1 DEF Frame
  <2>1. d \in [1 .. E -> X]  BY <2>0, <2>2
  <2>. QED  BY <2>0, <2>1
<1>4. captured \in Seq(X) /\ A \in Nat /\ B \in Nat /\ E \in Nat  BY DEF BytesType
<1>5. Places = ((a \o captured) \o c) \o d  BY DEF Places
<1> HIDE DEF a, c, d, X
<1>6. /\ a \o captured \in Seq(X) /\ Len(a \o captured) = 1 + A
      /\ (a \o captured)[1] = stdout
      /\ \A i \in 1 .. A : (a \o captured)[1 + i] = captured[i]
  <2>1. /\ a \o captured \in Seq(X) /\ Len(a \o captured) = Len(a) + A
        /\ \A i \in 1 .. Len(a) : (a \o captured)[i] = a[i]
        /\ \A i \in 1 .. A : (a \o captured)[Len(a) + i] = captured[i]
    BY <1>1, <1>4, EndToEnd
  <2>. QED  BY <1>1, <2>1
<1>7. /\ (a \o captured) \o c \in Seq(X) /\ Len((a \o captured) \o c) = 1 + A + B
      /\ \A i \in 1 .. 1 + A : ((a \o captured) \o c)[i] = (a \o captured)[i]
      /\ \A i \in 1 .. B : ((a \o captured) \o c)[1 + A + i] = c[i]
  <2> DEFINE u == a \o captured
  <2>0. u \in Seq(X) /\ Len(u) = 1 + A  BY <1>6
  <2> HIDE DEF u
  <2>1. /\ u \o c \in Seq(X) /\ Len(u \o c) = Len(u) + Len(c)
        /\ \A i \in 1 .. Len(u) : (u \o c)[i] = u[i]
        /\ \A i \in 1 .. Len(c) : (u \o c)[Len(u) + i] = c[i]
    <3>1. c \in Seq(X) /\ u \in Seq(X)  BY <1>2, <2>0
    <3>. QED  BY <3>1, EndToEnd
  <2>. QED  BY <1>2, <2>0, <2>1 DEF u
<1>8. /\ Places \in Seq(X) /\ Len(Places) = 1 + A + B + E
      /\ \A i \in 1 .. 1 + A + B : Places[i] = ((a \o captured) \o c)[i]
      /\ \A i \in 1 .. E : Places[1 + A + B + i] = d[i]
  <2> DEFINE u == (a \o captured) \o c
  <2>0. u \in Seq(X) /\ Len(u) = 1 + A + B /\ Places = u \o d  BY <1>5, <1>7
  <2> HIDE DEF u
  <2>1. /\ u \o d \in Seq(X) /\ Len(u \o d) = Len(u) + Len(d)
        /\ \A i \in 1 .. Len(u) : (u \o d)[i] = u[i]
        /\ \A i \in 1 .. Len(d) : (u \o d)[Len(u) + i] = d[i]
    <3>1. d \in Seq(X) /\ u \in Seq(X)  BY <1>3, <2>0
    <3>. QED  BY <3>1, EndToEnd
  <2>. QED  BY <1>3, <2>0, <2>1 DEF u
<1> HIDE DEF A, B, E
<1>9. ASSUME NEW p \in 1 .. 1 + A + B + E PROVE Places[p] = PlaceAt(p)
  <2>1. CASE p = 1  BY <2>1, <1>4, <1>6, <1>7, <1>8 DEF PlaceAt
  <2>2. CASE p # 1 /\ p <= 1 + A
    <3>1. p - 1 \in 1 .. A /\ p = 1 + (p - 1)  BY <1>4, <2>2
    <3>2. Places[p] = (a \o captured)[p]  
      <4>1. p \in 1 .. 1 + A + B /\ p \in 1 .. 1 + A  BY <1>4, <2>2
      <4>. QED  BY <4>1, <1>7, <1>8, Zenon
    <3>3. (a \o captured)[p] = captured[p - 1]  BY <1>6, <3>1
    <3>. QED  BY <2>2, <3>2, <3>3, <1>4 DEF PlaceAt, A
  <2>3. CASE p > 1 + A /\ p <= 1 + A + B
    <3>1. p - 1 - A \in 1 .. B /\ p = 1 + A + (p - 1 - A)  BY <1>4, <2>3
    <3>3. Places[p] = ((a \o captured) \o c)[p]  
      <4>1. p \in 1 .. 1 + A + B  BY <1>4, <2>3
      <4>. QED  BY <4>1, <1>8, Zenon
    <3>4. ((a \o captured) \o c)[p] = c[p - 1 - A]  BY <1>7, <3>1
    <3>2. Places[p] = files[p - 1 - A].got  BY <3>1, <3>3, <3>4, <1>2
    <3>. QED  BY <2>3, <3>2, <1>4 DEF PlaceAt, A, B
  <2>4. CASE p > 1 + A + B
    <3>1. p - 1 - A - B \in 1 .. E /\ p = 1 + A + B + (p - 1 - A - B)  BY <1>4, <2>4
    <3>2. Places[p] = frames[p - 1 - A - B].out  BY <3>1, <2>4, <1>3, <1>4, <1>8
    <3>. QED  BY <2>4, <3>2, <1>4 DEF PlaceAt, A, B
  <2>. QED  BY <2>1, <2>2, <2>3, <2>4, <1>4
<1>. QED  BY <1>4, <1>8, <1>9 DEF Cells, A, B, E

\* What the runs ask of the places follows from the cells.
LEMMA BoxedIsWritten ==
    ASSUME BytesType, Boxed(Cells, fileCalls, Kept), ~ShortWrites
    PROVE  AcknowledgedIsWritten
<1> DEFINE C == Cells
<1>1. DOMAIN Places = DOMAIN C /\ \A p \in DOMAIN C : Places[p] = C[p]  BY PlacesAreCells
<1>2. Boxed(C, fileCalls, acked)  BY DEF Kept
<1> HIDE DEF C
<1>3. ASSUME NEW t \in acked
      PROVE  \E p \in DOMAIN C : Times(t, C[p]) = 1 /\ \A q \in DOMAIN C \ {p} : Times(t, C[q]) = 0
  <2>1. PICK p \in DOMAIN C : \E i \in DOMAIN C[p] : C[p][i] = t  BY <1>2 DEF Boxed
  <2>2. PICK i \in DOMAIN C[p] : C[p][i] = t  BY <2>1
  <2>3. C[p] \in Seq(Token)  BY <1>2 DEF Boxed
  <2>4. ASSUME NEW j \in DOMAIN C[p], C[p][j] = t PROVE j = i
    <3>1. i \in Nat /\ j \in Nat /\ t \in Token  BY <2>2, <2>3
    <3>2. ~Before(t, t)  BY <3>1 DEF Before, Token
    <3>3. ~(i < j) /\ ~(j < i)  BY <1>2, <2>2, <2>4, <3>2 DEF Boxed
    <3>. QED  BY <3>1, <3>3
  <2>5. {j \in DOMAIN C[p] : C[p][j] = t} = {i}  BY <2>2, <2>4
  <2>6. Times(t, C[p]) = 1  BY <2>5, FS_Singleton DEF Times
  <2>7. ASSUME NEW q \in DOMAIN C \ {p} PROVE Times(t, C[q]) = 0
    <3>1. \A j \in DOMAIN C[q] : C[q][j] # t  BY <1>2, <2>2, <2>7 DEF Boxed
    <3>2. {j \in DOMAIN C[q] : C[q][j] = t} = {}  BY <3>1
    <3>. QED  BY <3>2, FS_EmptySet DEF Times
  <2>. QED  BY <2>6, <2>7
<1>4. ASSUME NEW p \in DOMAIN C, NEW i \in 1 .. Len(C[p]) - 1 PROVE Before(C[p][i], C[p][i + 1])
  <2>1. C[p] \in Seq(Token)  BY <1>2 DEF Boxed
  <2>2. i \in DOMAIN C[p] /\ i + 1 \in DOMAIN C[p] /\ i < i + 1  BY <2>1
  <2>. QED  BY <1>2, <2>2 DEF Boxed
<1>5. \A t \in acked : \E p \in DOMAIN Places :
         Times(t, Places[p]) = 1 /\ \A q \in DOMAIN Places \ {p} : Times(t, Places[q]) = 0
  BY <1>1, <1>3
<1>6. \A p \in DOMAIN Places : \A i \in 1 .. Len(Places[p]) - 1 : Before(Places[p][i], Places[p][i + 1])
  BY <1>1, <1>4
<1>. QED  BY <1>5, <1>6 DEF AcknowledgedIsWritten

-----------------------------------------------------------------------------
(* Bytes *)

\* Nothing is written: files and frames may be added, empty, and keep what they have.
Steady ==
    /\ UNCHANGED <<stdout, captured, acked>> /\ strayed' \subseteq {"recv"}
    /\ \/ UNCHANGED <<fileCalls, inside>>
       \/ fileCalls' = fileCalls + 1 /\ inside' \in {inside, inside \cup {fileCalls + 1}}
    /\ files' \in Seq(File) /\ Len(files') \in {Len(files), Len(files) + 1}
    /\ \A i \in 1 .. Len(files) : files'[i].got = files[i].got
    /\ Len(files') = Len(files) + 1 => files'[Len(files) + 1].got = <<>>
    /\ frames' \in Seq(Frame) /\ Len(frames') \in {Len(frames), Len(frames) + 1}
    /\ \A i \in 1 .. Len(frames) : frames'[i].out = frames[i].out
    /\ Len(frames') = Len(frames) + 1 => frames'[Len(frames) + 1].out = <<>>

\* Where nothing is written, the bytes stay where they are.
LEMMA SteadyKeepsBytes == ASSUME BytesInv, Steady PROVE BytesInv'
<1>1. PICK A \in Nat, B \in Nat, B2 \in Nat, E \in Nat, E2 \in Nat :
        /\ A = Len(captured) /\ B = Len(files) /\ E = Len(frames)
        /\ B2 = Len(files') /\ E2 = Len(frames')
  BY DEF BytesInv, BytesType, Steady
<1>2. BytesType'
  <2>1. stdout' \in Seq(Token) /\ captured' \in Seq(Seq(Token))  BY DEF BytesInv, BytesType, Steady
  <2>2. files' \in Seq(File) /\ frames' \in Seq(Frame)  BY DEF Steady
  <2>3. fileCalls' \in Nat /\ inside' \subseteq 1 .. fileCalls'
    <3>1. fileCalls \in Nat /\ inside \subseteq 1 .. fileCalls  BY DEF BytesInv, BytesType
    <3>2. CASE UNCHANGED <<fileCalls, inside>>  BY <3>1, <3>2
    <3>3. CASE fileCalls' = fileCalls + 1 /\ inside' \subseteq inside \cup {fileCalls + 1}  BY <3>1, <3>3
    <3>. QED  BY <3>2, <3>3 DEF Steady
  <2>. QED  BY <2>1, <2>2, <2>3 DEF BytesType
<1> DEFINE C == Cells
           D == Cells'
           m == [p \in 1 .. 1 + A + B2 + E2 |->
                   IF p <= 1 + A + B THEN p
                   ELSE IF p <= 1 + A + B2 THEN 0
                   ELSE IF p - B2 + B <= 1 + A + B + E THEN p - B2 + B ELSE -1]
<1>3. B2 \in {B, B + 1} /\ E2 \in {E, E + 1}  BY <1>1 DEF Steady
<1>4. DOMAIN C = 1 .. 1 + A + B + E /\ DOMAIN D = 1 .. 1 + A + B2 + E2
  BY <1>1 DEF Cells, Steady
<1>5. /\ \A p \in 1 .. 1 + A + B + E : C[p] = PlaceAt(p)
      /\ \A p \in 1 .. 1 + A + B2 + E2 : D[p] = PlaceAt(p)'
  BY <1>1 DEF Cells, Steady
<1>6. ASSUME NEW p \in 1 .. 1 + A + B2 + E2
      PROVE  D[p] = <<>> \/ (m[p] \in DOMAIN C /\ D[p] = C[m[p]])
  <2>1. CASE p <= 1 + A + B
    <3>1. m[p] = p /\ p \in DOMAIN C  BY <1>4, <2>1
    <3>2. PlaceAt(p)' = PlaceAt(p)
      <4>1. CASE p <= 1 + A  BY <1>1, <4>1 DEF PlaceAt, Steady
      <4>2. CASE p > 1 + A
        <5>1. p - 1 - A \in 1 .. B /\ p <= 1 + A + B2  BY <1>3, <2>1, <4>2
        <5>. QED  BY <1>1, <2>1, <4>2, <5>1 DEF PlaceAt, Steady
      <4>. QED  BY <4>1, <4>2
    <3>. QED  BY <1>4, <1>5, <3>1, <3>2
  <2>2. CASE p > 1 + A + B /\ p <= 1 + A + B2
    <3>1. B2 = B + 1 /\ p - 1 - A = B + 1  BY <1>3, <2>2
    <3>2. PlaceAt(p)' = <<>>  BY <1>1, <2>2, <3>1 DEF PlaceAt, Steady
    <3>. QED  BY <1>5, <3>2
  <2>3. CASE p > 1 + A + B2 /\ p - B2 + B <= 1 + A + B + E
    <3>1. m[p] = p - B2 + B /\ p - B2 + B \in DOMAIN C  BY <1>3, <1>4, <2>3
    <3>2. PlaceAt(p)' = frames'[p - 1 - A - B2].out  BY <1>1, <1>3, <2>3 DEF PlaceAt, Steady
    <3>3. p - 1 - A - B2 \in 1 .. E  BY <1>3, <2>3
    <3>4. C[p - B2 + B] = frames[p - 1 - A - B2].out
      <4>0. PICK q \in Nat : q = p - B2 + B /\ q > 1 + A + B  BY <1>3, <2>3
      <4>1. PlaceAt(q) = frames[q - 1 - A - B].out  BY <1>1, <4>0 DEF PlaceAt
      <4>2. q - 1 - A - B = p - 1 - A - B2  BY <4>0
      <4>. QED  BY <1>4, <1>5, <3>1, <4>0, <4>1, <4>2
    <3>5. frames'[p - 1 - A - B2].out = frames[p - 1 - A - B2].out  BY <1>1, <3>3 DEF Steady
    <3>. QED  BY <1>5, <3>1, <3>2, <3>4, <3>5
  <2>4. CASE p > 1 + A + B2 /\ p - B2 + B > 1 + A + B + E
    <3>1. p - 1 - A - B2 = E + 1 /\ E2 = E + 1  BY <1>3, <2>4
    <3>2. PlaceAt(p)' = frames'[p - 1 - A - B2].out  BY <1>1, <1>3, <2>4 DEF PlaceAt, Steady
    <3>3. frames'[E + 1].out = <<>>  BY <1>1, <3>1 DEF Steady
    <3>. QED  BY <1>5, <3>1, <3>2, <3>3
  <2>. QED  BY <1>3, <2>1, <2>2, <2>3, <2>4
<1>7. \A p, q \in DOMAIN D : p # q => m[p] # m[q]  BY <1>3, <1>4
<1>8. ASSUME NEW k \in DOMAIN C PROVE \E p \in DOMAIN D : D[p] = C[k]
  <2>1. CASE k <= 1 + A + B
    <3>1. k \in DOMAIN D /\ PlaceAt(k)' = PlaceAt(k)
      <4>1. k \in DOMAIN D  BY <1>3, <1>4, <2>1
      <4>2. CASE k <= 1 + A  BY <1>1, <4>1, <4>2 DEF PlaceAt, Steady
      <4>3. CASE k > 1 + A
        <5>1. k - 1 - A \in 1 .. B /\ k <= 1 + A + B2  BY <1>3, <1>4, <2>1, <4>3
        <5>. QED  BY <1>1, <1>4, <2>1, <4>1, <4>3, <5>1 DEF PlaceAt, Steady
      <4>. QED  BY <1>4, <4>2, <4>3
    <3>. QED  BY <1>4, <1>5, <3>1
  <2>2. CASE k > 1 + A + B
    <3>0. PICK p \in Nat : p = k - B + B2 /\ p > 1 + A + B2  BY <1>3, <1>4, <2>2
    <3>1. p \in DOMAIN D /\ k - 1 - A - B \in 1 .. E  BY <3>0, <1>3, <1>4, <2>2
    <3>2. PlaceAt(k) = frames[k - 1 - A - B].out  BY <1>1, <1>4, <2>2 DEF PlaceAt
    <3>3. PlaceAt(p)' = frames'[p - 1 - A - B2].out  BY <1>1, <3>0 DEF PlaceAt, Steady
    <3>4. p - 1 - A - B2 = k - 1 - A - B
      <4>1. k \in Nat  BY <1>4
      <4>. QED  BY <3>0, <4>1
    <3>5. frames'[k - 1 - A - B].out = frames[k - 1 - A - B].out  BY <1>1, <3>1 DEF Steady
    <3>. QED  BY <1>4, <1>5, <3>1, <3>2, <3>3, <3>4, <3>5
  <2>. QED  BY <1>4, <2>1, <2>2
<1>9. Boxed(Cells, fileCalls, Kept)'
  <2>1. fileCalls \in Nat /\ fileCalls' \in Nat /\ fileCalls <= fileCalls' /\ Kept' = Kept
    BY DEF BytesInv, BytesType, Steady, Kept
  <2>2. Boxed(C, fileCalls, Kept)  BY DEF BytesInv
  <2> HIDE DEF C, D, m
  <2>3. \A p \in DOMAIN D : D[p] = <<>> \/ (m[p] \in DOMAIN C /\ D[p] = C[m[p]])  BY <1>4, <1>6, Zenon
  <2>4. \A k \in DOMAIN C : C[k] = <<>> \/ \E p \in DOMAIN D : D[p] = C[k]  BY <1>8, Zenon
  <2>5. Boxed(D, fileCalls', Kept)  BY <1>7, <2>1, <2>2, <2>3, <2>4, CellsMove
  <2>. QED  BY <2>1, <2>5 DEF D
<1>10. InsideStaysInside'
  <2>0. Boxed(C, fileCalls, Kept) /\ InsideStaysInside  BY DEF BytesInv
  <2>1. ASSUME NEW i \in 1 .. E2 PROVE Len(frames'[i].out) <= CAP
    <3>1. CASE i \in 1 .. E
      <4>1. i \in DOMAIN frames /\ frames'[i].out = frames[i].out
        BY <1>1, <3>1 DEF Steady, BytesInv, BytesType
      <4>. QED  BY <2>0, <4>1 DEF InsideStaysInside
    <3>2. CASE i \notin 1 .. E
      <4>1. i = E + 1 /\ frames'[i].out = <<>>  BY <1>1, <1>3, <3>2 DEF Steady
      <4>2. Len(<<>>) = 0 /\ CAP \in Nat  BY FilesAssumption
      <4>. QED  BY <4>1, <4>2
    <3>. QED  BY <3>1, <3>2
  <2>2. ASSUME NEW k \in DOMAIN C, NEW i \in DOMAIN C[k], C[k][i][1] \notin inside
        PROVE  C[k][i][1] \notin inside'
    <3>1. C[k][i][1] <= fileCalls  BY <2>0, <2>2 DEF Boxed
    <3>2. fileCalls \in Nat  BY DEF BytesInv, BytesType
    <3>3. C[k][i][1] # fileCalls + 1
      <4>1. C[k] \in Seq(Token)  BY <2>0 DEF Boxed
      <4>2. C[k][i][1] \in Nat  BY <2>2, <4>1 DEF Token
      <4>. QED  BY <3>1, <3>2, <4>2
    <3>. QED  BY <2>2, <3>3 DEF Steady
  <2>3. ASSUME NEW i \in DOMAIN stdout PROVE stdout[i][1] \notin inside'
    <3>1. C[1] = stdout /\ 1 \in DOMAIN C  BY <1>4, <1>5 DEF PlaceAt
    <3>. QED  BY <2>0, <2>2, <3>1 DEF InsideStaysInside
  <2>4. ASSUME NEW k \in 1 .. B2, NEW i \in DOMAIN files'[k].got PROVE files'[k].got[i][1] \notin inside'
    <3>1. CASE k \in 1 .. B
      <4>1. C[1 + A + k] = files[k].got /\ 1 + A + k \in DOMAIN C
        <5>0. PICK q \in Nat : q = 1 + A + k /\ q > 1 + A /\ q <= 1 + A + B  BY <3>1
        <5>1. PlaceAt(q) = files[q - 1 - A].got  BY <1>1, <5>0 DEF PlaceAt
        <5>2. q - 1 - A = k /\ q \in 1 .. 1 + A + B + E  BY <5>0, <3>1
        <5>. QED  BY <1>4, <1>5, <5>0, <5>1, <5>2
      <4>2. files'[k].got = files[k].got  BY <1>1, <3>1 DEF Steady
      <4>3. k \in DOMAIN files  BY <1>1, <3>1 DEF BytesInv, BytesType
      <4>4. files[k].got[i][1] \notin inside  BY <2>0, <2>4, <4>2, <4>3 DEF InsideStaysInside
      <4>. QED  BY <2>2, <2>4, <4>1, <4>2, <4>4
    <3>2. CASE k \notin 1 .. B
      <4>1. files'[k].got = <<>>  BY <1>1, <1>3, <3>2 DEF Steady
      <4>. QED  BY <2>4, <4>1
    <3>. QED  BY <3>1, <3>2
  <2>5. DOMAIN frames' = 1 .. E2 /\ DOMAIN files' = 1 .. B2 /\ stdout' = stdout  BY <1>1 DEF Steady
  <2>. QED  BY <2>1, <2>3, <2>4, <2>5 DEF InsideStaysInside
<1>. QED  BY <1>2, <1>9, <1>10 DEF BytesInv, NeverTheTerminal, Steady

\* A pop moves the top's output, whole, to what pops answered with.
LEMMA PopKeepsBytes == ASSUME BytesInv, Pop PROVE BytesInv'
<1>0. CASE ~Active
  <2>1. Steady  BY <1>0 DEF Pop, Steady, BytesInv, BytesType, streamVars, NeverTheTerminal
  <2>. QED  BY <2>1, SteadyKeepsBytes
<1>1. CASE Active
  <2>1. PICK A \in Nat, B \in Nat, E \in Nat :
          A = Len(captured) /\ B = Len(files) /\ E = Len(frames) /\ E # 0
    BY <1>1 DEF BytesInv, BytesType, Active
  <2>2. /\ captured \in Seq(Seq(Token)) /\ frames \in Seq(Frame) /\ Top = frames[E] /\ Top \in Frame
        /\ Top.out \in Seq(Token)
    <3>1. captured \in Seq(Seq(Token)) /\ frames \in Seq(Frame)  BY DEF BytesInv, BytesType
    <3>2. Top = frames[E] /\ E \in 1 .. Len(frames)  BY <2>1 DEF Top
    <3>3. Top \in Frame  BY <3>1, <3>2
    <3>4. Top.out \in Seq(Token)  BY <3>3 DEF Frame
    <3>. QED  BY <3>1, <3>2, <3>3, <3>4
  <2>3. /\ captured' \in Seq(Seq(Token)) /\ Len(captured') = A + 1 /\ captured'[A + 1] = frames[E].out
        /\ \A i \in 1 .. A : captured'[i] = captured[i]
    BY <1>1, <2>1, <2>2 DEF Pop
  <2>4. /\ frames' \in Seq(Frame) /\ Len(frames') = E - 1 /\ \A i \in 1 .. E - 1 : frames'[i] = frames[i]
    BY <1>1, <2>1, <2>2 DEF Pop
  <2>5. UNCHANGED <<stdout, files, acked, inside, fileCalls, strayed>>  BY DEF Pop, streamVars
  <2>6. BytesType'  BY <2>3, <2>4, <2>5 DEF BytesInv, BytesType
  <2> DEFINE C == Cells
             D == Cells'
             N == 1 + A + B + E
             m == [p \in 1 .. N |-> IF p <= 1 + A THEN p ELSE IF p = 2 + A THEN N ELSE p - 1]
  <2>7. DOMAIN C = 1 .. N /\ DOMAIN D = 1 .. N  BY <2>1, <2>3, <2>4, <2>5 DEF Cells
  <2>8. \A p \in 1 .. N : C[p] = PlaceAt(p) /\ D[p] = PlaceAt(p)'
    BY <2>1, <2>3, <2>4, <2>5 DEF Cells
  <2>9. ASSUME NEW p \in 1 .. N PROVE m[p] \in DOMAIN C /\ D[p] = C[m[p]]
    <3>1. CASE p <= 1 + A
      <4>1. PlaceAt(p)' = PlaceAt(p)
        <5>1. CASE p = 1  BY <2>5, <5>1 DEF PlaceAt
        <5>2. CASE p # 1
          <6>1. p - 1 \in 1 .. A  BY <3>1, <5>2
          <6>2. PlaceAt(p) = captured[p - 1] /\ PlaceAt(p)' = captured'[p - 1]
            BY <2>1, <2>3, <3>1, <5>2 DEF PlaceAt
          <6>. QED  BY <2>3, <6>1, <6>2
        <5>. QED  BY <5>1, <5>2
      <4>. QED  BY <2>7, <2>8, <3>1, <4>1
    <3>2. CASE p = 2 + A
      <4>1. PlaceAt(p)' = frames[E].out  BY <2>1, <2>3, <2>5, <3>2 DEF PlaceAt
      <4>2. PICK q \in Nat : q = N  OBVIOUS
      <4>3. PlaceAt(q) = frames[q - 1 - A - B].out /\ q - 1 - A - B = E  BY <2>1, <4>2 DEF PlaceAt
      <4>. QED  BY <2>7, <2>8, <3>2, <4>1, <4>2, <4>3
    <3>3. CASE p > 2 + A /\ p <= 2 + A + B
      <4>1. PlaceAt(p)' = files[p - 1 - (A + 1)].got  BY <2>1, <2>3, <2>5, <3>3 DEF PlaceAt
      <4>2. PICK q \in Nat : q = p - 1 /\ q > 1 + A /\ q <= 1 + A + B  BY <3>3
      <4>3. PlaceAt(q) = files[q - 1 - A].got /\ q - 1 - A = p - 1 - (A + 1)  BY <2>1, <4>2 DEF PlaceAt
      <4>. QED  BY <2>7, <2>8, <3>3, <4>1, <4>2, <4>3
    <3>4. CASE p > 2 + A + B
      <4>1. PlaceAt(p)' = frames'[p - 1 - (A + 1) - B].out  BY <2>1, <2>3, <2>5, <3>4 DEF PlaceAt
      <4>2. PICK q \in Nat : q = p - 1 /\ q > 1 + A + B  BY <3>4
      <4>3. PlaceAt(q) = frames[q - 1 - A - B].out /\ q - 1 - A - B = p - 1 - (A + 1) - B
        BY <2>1, <4>2 DEF PlaceAt
      <4>4. p - 1 - (A + 1) - B \in 1 .. E - 1  BY <3>4
      <4>. QED  BY <2>4, <2>7, <2>8, <3>4, <4>1, <4>2, <4>3, <4>4
    <3>. QED  BY <3>1, <3>2, <3>3, <3>4
  <2>10. \A p, q \in 1 .. N : p # q => m[p] # m[q]  OBVIOUS
  <2>11. ASSUME NEW k \in 1 .. N PROVE \E p \in 1 .. N : m[p] = k
    <3>1. CASE k <= 1 + A  BY <3>1
    <3>2. CASE k = N
      <4>1. 2 + A \in 1 .. N /\ m[2 + A] = N  BY <2>1
      <4>. QED  BY <3>2, <4>1
    <3>3. CASE k > 1 + A /\ k < N
      <4>1. k + 1 \in 1 .. N /\ m[k + 1] = k  BY <3>3
      <4>. QED  BY <4>1
    <3>. QED  BY <3>1, <3>2, <3>3
  <2>12. Boxed(Cells, fileCalls, Kept)'
    <3>1. fileCalls \in Nat /\ fileCalls' = fileCalls /\ Kept' = Kept  BY <2>5 DEF BytesInv, BytesType, Kept
    <3>2. Boxed(C, fileCalls, Kept)  BY DEF BytesInv
    <3> HIDE DEF C, D, m, N
    <3>3. \A p \in DOMAIN D : D[p] = <<>> \/ (m[p] \in DOMAIN C /\ D[p] = C[m[p]])  BY <2>7, <2>9, Zenon
    <3>4. \A k \in DOMAIN C : \E p \in DOMAIN D : D[p] = C[k]  
      <4>1. SUFFICES ASSUME NEW k \in 1 .. N PROVE \E p \in 1 .. N : D[p] = C[k]  BY <2>7, Zenon
      <4>2. PICK p \in 1 .. N : m[p] = k  BY <2>11
      <4>3. D[p] = C[m[p]]  BY <2>9
      <4>. QED  BY <4>2, <4>3
    <3>5. \A p, q \in DOMAIN D : p # q => m[p] # m[q]  BY <2>7, <2>10, Zenon
    <3>6. fileCalls <= fileCalls  BY <3>1
    <3>7. Boxed(D, fileCalls, Kept)  BY <3>1, <3>2, <3>3, <3>4, <3>5, <3>6, CellsMove
    <3>. QED  BY <3>1, <3>7 DEF D
  <2>13. InsideStaysInside'
    <3>0. InsideStaysInside  BY DEF BytesInv
    <3>1. ASSUME NEW i \in DOMAIN frames' PROVE Len(frames'[i].out) <= CAP
      <4>1. i \in 1 .. E - 1 /\ i \in DOMAIN frames  BY <2>1, <2>2, <2>4
      <4>. QED  BY <2>4, <3>0, <4>1 DEF InsideStaysInside
    <3>. QED  BY <2>5, <3>0, <3>1 DEF InsideStaysInside
  <2>. QED  BY <2>5, <2>6, <2>12, <2>13 DEF BytesInv, NeverTheTerminal
<1>. QED  BY <1>0, <1>1

\* What a write adds.
Written(t) ==
    /\ fileCalls' = fileCalls + 1 /\ strayed' = strayed
    /\ t \in Seq(Token) /\ \A i \in 1 .. Len(t) : t[i] = <<fileCalls + 1, i>>
    /\ \A u \in Kept' : u \in Kept \/ \E i \in 1 .. Len(t) : u = t[i]

\* One cell grows by what is written and the rest stay.
LEMMA CellGrows ==
    ASSUME BytesInv, NEW t, Written(t), NEW k0 \in DOMAIN Cells,
           DOMAIN Cells' = DOMAIN Cells, Cells'[k0] = Cells[k0] \o t,
           \A k \in DOMAIN Cells \ {k0} : Cells'[k] = Cells[k]
    PROVE  Boxed(Cells, fileCalls, Kept)'
<1> DEFINE C == Cells
           D == Cells'
           n == fileCalls
<1>1. n \in Nat /\ fileCalls' = n + 1 /\ Boxed(C, n, Kept)  BY DEF BytesInv, BytesType, Written
<1>2. t \in Seq(Token) /\ \A i \in 1 .. Len(t) : t[i] = <<n + 1, i>>  BY DEF Written
<1>3. \A u \in Kept' : u \in Kept \/ \E i \in 1 .. Len(t) : u = t[i]  BY DEF Written
<1>4. /\ k0 \in DOMAIN C /\ DOMAIN D = DOMAIN C /\ D[k0] = C[k0] \o t
      /\ \A k \in DOMAIN C \ {k0} : D[k] = C[k]
  OBVIOUS
<1> HIDE DEF C, D, n
<1>5. Grown(C, D, n, k0, t, Kept, Kept')  BY <1>1, <1>2, <1>3, <1>4 DEF Grown
<1>6. Boxed(D, n + 1, Kept')  BY <1>5, CellsWrite
<1>. QED  BY <1>1, <1>6 DEF D, n

\* Tokens written outside reach standard output or the file that is the output.
LEMMA WrittenToStdout ==
    ASSUME BytesInv, NEW t, Written(t), stdout' = stdout \o t,
           UNCHANGED <<captured, files, frames, inside>>
    PROVE  BytesInv'
<1>0. stdout \in Seq(Token) /\ t \in Seq(Token) /\ fileCalls \in Nat /\ inside \subseteq 1 .. fileCalls
  BY DEF BytesInv, BytesType, Written
<1>1. /\ stdout' \in Seq(Token) /\ Len(stdout') = Len(stdout) + Len(t)
      /\ \A i \in 1 .. Len(stdout) : stdout'[i] = stdout[i]
      /\ \A i \in 1 .. Len(t) : stdout'[Len(stdout) + i] = t[i]
  BY <1>0, EndToEnd
<1>2. BytesType'  BY <1>0, <1>1 DEF BytesInv, BytesType, Written
<1>3. PICK N \in Nat : N = 1 + Len(captured) + Len(files) + Len(frames)  BY DEF BytesInv, BytesType
<1>4. /\ DOMAIN Cells = 1 .. N /\ DOMAIN Cells' = 1 .. N
      /\ \A p \in 1 .. N : Cells[p] = PlaceAt(p) /\ Cells'[p] = PlaceAt(p)'
  BY <1>3 DEF Cells
<1>5. N >= 1  BY <1>3 DEF BytesInv, BytesType
<1>6. 1 \in DOMAIN Cells /\ Cells'[1] = Cells[1] \o t
  <2>1. PlaceAt(1) = stdout /\ PlaceAt(1)' = stdout'  BY DEF PlaceAt
  <2>2. 1 \in 1 .. N  BY <1>5
  <2>. QED  BY <1>4, <2>1, <2>2, Zenon
<1>7. \A k \in DOMAIN Cells \ {1} : Cells'[k] = Cells[k]  BY <1>4 DEF PlaceAt
<1>8. Boxed(Cells, fileCalls, Kept)'  BY <1>4, <1>6, <1>7, CellGrows
<1>9. ASSUME NEW i \in DOMAIN stdout' PROVE stdout'[i][1] \notin inside
  <2>1. CASE i \in 1 .. Len(stdout)  BY <1>0, <1>1, <2>1 DEF BytesInv, InsideStaysInside
  <2>2. CASE i \notin 1 .. Len(stdout)
    <3>1. PICK j \in 1 .. Len(t) : i = Len(stdout) + j
      <4>1. i - Len(stdout) \in 1 .. Len(t)  BY <1>0, <1>1, <2>2
      <4>. QED  BY <1>0, <4>1
    <3>2. stdout'[i] = <<fileCalls + 1, j>>  BY <1>1, <3>1 DEF Written
    <3>. QED  BY <1>0, <3>2
  <2>. QED  BY <2>1, <2>2
<1>10. InsideStaysInside'  BY <1>9 DEF BytesInv, InsideStaysInside
<1>. QED  BY <1>2, <1>8, <1>10 DEF BytesInv, NeverTheTerminal, Written

\* The file at f gets t.
FileGrows(f, t) == files' = [files EXCEPT ![f].got = @ \o t]
\* Tokens written to an open file stay in that file.
LEMMA WrittenToFile ==
    ASSUME BytesInv, NEW t, Written(t), NEW f \in 1 .. Len(files), FileGrows(f, t),
           UNCHANGED <<captured, stdout, frames, inside>>
    PROVE  BytesInv'
<1>0. /\ files \in Seq(File) /\ t \in Seq(Token) /\ fileCalls \in Nat /\ inside \subseteq 1 .. fileCalls
      /\ files[f] \in File
  BY DEF BytesInv, BytesType, Written
<1> DEFINE s == files[f].got
<1>1. s \in Seq(Token)  BY <1>0 DEF File
<1>2. /\ s \o t \in Seq(Token) /\ Len(s \o t) = Len(s) + Len(t)
      /\ \A i \in 1 .. Len(s) : (s \o t)[i] = s[i]
      /\ \A i \in 1 .. Len(t) : (s \o t)[Len(s) + i] = t[i]
  BY <1>0, <1>1, EndToEnd
<1>3. /\ files' \in Seq(File) /\ Len(files') = Len(files) /\ DOMAIN files' = DOMAIN files
      /\ files'[f].got = s \o t /\ \A i \in 1 .. Len(files) : i # f => files'[i] = files[i]
  <2> DEFINE r == [files[f] EXCEPT !.got = s \o t]
  <2>1. files' = [files EXCEPT ![f] = r]  BY DEF FileGrows
  <2>2. r \in File  BY <1>0, <1>2 DEF File
  <2>3. r.got = s \o t  BY <1>0 DEF File
  <2> HIDE DEF s, r
  <2>4. /\ files' \in Seq(File) /\ Len(files') = Len(files) /\ DOMAIN files' = DOMAIN files
        /\ files'[f] = r /\ \A i \in 1 .. Len(files) : i # f => files'[i] = files[i]
    BY <1>0, <2>1, <2>2
  <2>. QED  BY <2>3, <2>4
<1>4. BytesType'  BY <1>0, <1>3 DEF BytesInv, BytesType, Written
<1>5. PICK A \in Nat, B \in Nat, E \in Nat : A = Len(captured) /\ B = Len(files) /\ E = Len(frames)
  BY DEF BytesInv, BytesType
<1>6. /\ DOMAIN Cells = 1 .. 1 + A + B + E /\ DOMAIN Cells' = 1 .. 1 + A + B + E
      /\ \A p \in 1 .. 1 + A + B + E : Cells[p] = PlaceAt(p) /\ Cells'[p] = PlaceAt(p)'
  BY <1>3, <1>5 DEF Cells
<1>7. PICK k0 \in Nat : k0 = 1 + A + f /\ k0 > 1 + A /\ k0 <= 1 + A + B /\ k0 - 1 - A = f  BY <1>5
<1>8. PlaceAt(k0) = s /\ PlaceAt(k0)' = s \o t
  <2>1. PlaceAt(k0) = files[f].got /\ PlaceAt(k0)' = files'[f].got
    <3>1. Len(files') = B /\ Len(captured') = A  BY <1>3, <1>5
    <3>. QED  BY <3>1, <1>5, <1>7 DEF PlaceAt
  <2>. QED  BY <1>3, <2>1
<1> HIDE DEF s
<1>9. k0 \in DOMAIN Cells /\ Cells'[k0] = Cells[k0] \o t
  <2>1. k0 \in 1 .. 1 + A + B + E  BY <1>7
  <2>. QED  BY <1>6, <1>8, <2>1, Zenon
<1>10. ASSUME NEW k \in DOMAIN Cells \ {k0} PROVE Cells'[k] = Cells[k]
  <2>1. CASE k <= 1 + A \/ k > 1 + A + B
    <3>1. PlaceAt(k)' = PlaceAt(k)  BY <1>3, <1>5, <1>6, <2>1 DEF PlaceAt
    <3>. QED  BY <1>6, <3>1
  <2>2. CASE k > 1 + A /\ k <= 1 + A + B
    <3>1. PlaceAt(k)' = files'[k - 1 - A].got /\ PlaceAt(k) = files[k - 1 - A].got
      BY <1>3, <1>5, <1>6, <2>2 DEF PlaceAt
    <3>2. k - 1 - A \in 1 .. B /\ k - 1 - A # f  BY <1>6, <1>7, <2>2
    <3>. QED  BY <1>3, <1>5, <1>6, <3>1, <3>2
  <2>. QED  BY <1>6, <2>1, <2>2
<1>11. Boxed(Cells, fileCalls, Kept)'  BY <1>6, <1>9, <1>10, CellGrows
<1>12. ASSUME NEW k \in DOMAIN files', NEW i \in DOMAIN files'[k].got PROVE files'[k].got[i][1] \notin inside
  <2>1. CASE k # f  BY <1>0, <1>3, <1>12, <2>1 DEF BytesInv, InsideStaysInside
  <2>2. CASE k = f
    <3>0. files'[k].got = s \o t  BY <1>3, <2>2
    <3>1. i \in 1 .. Len(s) + Len(t) /\ files'[k].got = s \o t
      <4>1. DOMAIN (s \o t) = 1 .. Len(s) + Len(t)  BY <1>2
      <4>. QED  BY <3>0, <4>1, <1>12
    <3>2. CASE i \in 1 .. Len(s)
      <4>1. files'[k].got[i] = s[i] /\ i \in DOMAIN files[f].got  BY <1>1, <1>2, <3>1, <3>2 DEF s
      <4>. QED  BY <1>0, <4>1 DEF BytesInv, InsideStaysInside, s
    <3>3. CASE i \notin 1 .. Len(s)
      <4>1. PICK j \in 1 .. Len(t) : i = Len(s) + j
        <5>1. i - Len(s) \in 1 .. Len(t)  BY <1>0, <1>1, <3>1, <3>3
        <5>. QED  BY <1>1, <3>1, <5>1
      <4>2. files'[k].got[i] = <<fileCalls + 1, j>>  BY <1>2, <3>1, <4>1 DEF Written
      <4>. QED  BY <1>0, <4>2
    <3>. QED  BY <3>2, <3>3
  <2>. QED  BY <2>1, <2>2
<1>13. InsideStaysInside'  BY <1>12 DEF BytesInv, InsideStaysInside
<1>. QED  BY <1>4, <1>11, <1>13 DEF BytesInv, NeverTheTerminal, Written

\* Tokens written inside stay in the top's buffer.
TopGrows(t) == frames' = SetTop([Top EXCEPT !.out = @ \o t])
\* They keep the invariant of the bytes.
LEMMA WrittenToFrame ==
    ASSUME BytesInv, NEW t, Written(t), Active, TopGrows(t),
           Len(Top.out) + Len(t) <= CAP,
           inside' = inside \cup {fileCalls + 1}, UNCHANGED <<captured, stdout, files>>
    PROVE  BytesInv'
<1>0. PICK A \in Nat, B \in Nat, E \in Nat :
        A = Len(captured) /\ B = Len(files) /\ E = Len(frames) /\ E # 0
  BY DEF BytesInv, BytesType, Active
<1>1. /\ frames \in Seq(Frame) /\ t \in Seq(Token) /\ fileCalls \in Nat /\ inside \subseteq 1 .. fileCalls
      /\ E \in 1 .. E /\ Top = frames[E] /\ frames[E] \in Frame
  BY <1>0 DEF BytesInv, BytesType, Written, Top
<1> DEFINE s == frames[E].out
<1>2. s \in Seq(Token)  BY <1>1 DEF Frame
<1>3. /\ s \o t \in Seq(Token) /\ Len(s \o t) = Len(s) + Len(t)  BY <1>1, <1>2, EndToEnd
<1>4. /\ frames' \in Seq(Frame) /\ Len(frames') = E /\ DOMAIN frames' = DOMAIN frames
      /\ frames'[E].out = s \o t /\ \A i \in 1 .. E : i # E => frames'[i] = frames[i]
  <2> DEFINE r == [frames[E] EXCEPT !.out = s \o t]
  <2>1. frames' = [frames EXCEPT ![E] = r]  BY <1>0, <1>1 DEF SetTop, TopGrows
  <2>2. r \in Frame  BY <1>1, <1>3 DEF Frame
  <2>3. r.out = s \o t  BY <1>1 DEF Frame
  <2> HIDE DEF s, r
  <2>4. /\ frames' \in Seq(Frame) /\ Len(frames') = E /\ DOMAIN frames' = DOMAIN frames
        /\ frames'[E] = r /\ \A i \in 1 .. E : i # E => frames'[i] = frames[i]
    BY <1>0, <1>1, <2>1, <2>2
  <2>. QED  BY <2>3, <2>4
<1>5. BytesType'
  <2>1. inside' \subseteq 1 .. fileCalls' /\ fileCalls' \in Nat  BY <1>1 DEF Written
  <2>. QED  BY <1>4, <2>1 DEF BytesInv, BytesType
<1>6. /\ DOMAIN Cells = 1 .. 1 + A + B + E /\ DOMAIN Cells' = 1 .. 1 + A + B + E
      /\ \A p \in 1 .. 1 + A + B + E : Cells[p] = PlaceAt(p) /\ Cells'[p] = PlaceAt(p)'
  BY <1>0, <1>4 DEF Cells
<1>7. PICK k0 \in Nat : k0 = 1 + A + B + E /\ k0 > 1 + A + B /\ k0 - 1 - A - B = E  BY <1>0
<1>8. PlaceAt(k0) = s /\ PlaceAt(k0)' = s \o t
  <2>1. PlaceAt(k0) = frames[E].out /\ PlaceAt(k0)' = frames'[E].out
    BY <1>0, <1>7 DEF PlaceAt
  <2>. QED  BY <1>4, <2>1
<1> HIDE DEF s
<1>9. k0 \in DOMAIN Cells /\ Cells'[k0] = Cells[k0] \o t
  <2>1. k0 \in 1 .. 1 + A + B + E  BY <1>7
  <2>. QED  BY <1>6, <1>8, <2>1, Zenon
<1>10. ASSUME NEW k \in DOMAIN Cells \ {k0} PROVE Cells'[k] = Cells[k]
  <2>1. CASE k <= 1 + A + B
    <3>1. PlaceAt(k)' = PlaceAt(k)  BY <1>0, <1>6, <2>1 DEF PlaceAt
    <3>. QED  BY <1>6, <3>1
  <2>2. CASE k > 1 + A + B
    <3>1. PlaceAt(k)' = frames'[k - 1 - A - B].out /\ PlaceAt(k) = frames[k - 1 - A - B].out
      BY <1>0, <1>6, <2>2 DEF PlaceAt
    <3>2. k - 1 - A - B \in 1 .. E /\ k - 1 - A - B # E  BY <1>6, <1>7, <2>2
    <3>. QED  BY <1>4, <1>6, <3>1, <3>2
  <2>. QED  BY <1>6, <2>1, <2>2
<1>11. Boxed(Cells, fileCalls, Kept)'  BY <1>6, <1>9, <1>10, CellGrows
<1>12. ASSUME NEW k \in DOMAIN Cells, NEW i \in DOMAIN Cells[k], Cells[k][i][1] \notin inside
       PROVE  Cells[k][i][1] \notin inside'
  <2>0. Boxed(Cells, fileCalls, Kept)  BY DEF BytesInv
  <2>1. Cells[k] \in Seq(Token) /\ Cells[k][i][1] <= fileCalls  BY <2>0, <1>12 DEF Boxed
  <2>2. Cells[k][i][1] \in Nat  BY <1>12, <2>1 DEF Token
  <2>. QED  BY <1>1, <1>12, <2>1, <2>2
<1>13. ASSUME NEW i \in DOMAIN frames' PROVE Len(frames'[i].out) <= CAP
  <2>1. CASE i = E
    <3>1. Len(s) + Len(t) <= CAP  BY <1>1 DEF s
    <3>. QED  BY <1>3, <1>4, <2>1, <3>1
  <2>2. CASE i # E
    <3>1. i \in 1 .. E /\ i \in DOMAIN frames  BY <1>0, <1>1, <1>4
    <3>2. frames'[i] = frames[i]  BY <1>4, <2>2, <3>1
    <3>. QED  BY <3>1, <3>2 DEF BytesInv, InsideStaysInside
  <2>. QED  BY <2>1, <2>2
<1>14. ASSUME NEW i \in DOMAIN stdout PROVE stdout[i][1] \notin inside'
  <2>1. 1 \in DOMAIN Cells /\ Cells[1] = stdout  BY <1>6 DEF PlaceAt
  <2>. QED  BY <1>12, <2>1 DEF BytesInv, InsideStaysInside
<1>15. ASSUME NEW k \in DOMAIN files, NEW i \in DOMAIN files[k].got PROVE files[k].got[i][1] \notin inside'
  <2>1. k \in 1 .. B  BY <1>0 DEF BytesInv, BytesType
  <2>2. PICK q \in Nat : q = 1 + A + k /\ q > 1 + A /\ q <= 1 + A + B /\ q - 1 - A = k  BY <2>1
  <2>5. q \in DOMAIN Cells /\ PlaceAt(q) = files[k].got  BY <1>0, <1>6, <2>2 DEF PlaceAt
  <2>3. q \in DOMAIN Cells /\ Cells[q] = files[k].got  BY <1>6, <2>5
  <2>4. files[k].got[i][1] \notin inside  BY <1>15 DEF BytesInv, InsideStaysInside
  <2>. QED  BY <1>12, <1>15, <2>3, <2>4
<1>16. InsideStaysInside'  BY <1>13, <1>14, <1>15 DEF InsideStaysInside
<1>. QED  BY <1>5, <1>11, <1>16 DEF BytesInv, NeverTheTerminal, Written

-----------------------------------------------------------------------------
(* The disk and the calls in flight *)

Stages == {"closing", "open", "work", "make", "delete"}
OpenCall == [call : 1 .. FileCalls, op : Streams \cup Changes, name : Paths \cup {""}, to : Paths \cup {""},
             stage : Stages]
\* A call in flight that will touch the disk was granted.
Granted(o) ==
    /\ o.op \in Changes => o.name \in Paths /\ o.to \in Paths /\ "write" \in grants
    /\ o.op \in Streams /\ o.stage = "open" => o.name \in Paths /\ Needs(o.op) \in grants
    /\ o.stage = "closing" => o.op \in Streams
DiskInv ==
    /\ world \in Worlds /\ grants \subseteq {"read", "write"}
    /\ disk \in [Paths -> Dir .. FileCalls] /\ made \in [Paths -> Nat]
    /\ outputFailure \in Reasons /\ fileCalls \in 0 .. FileCalls
    /\ opening \subseteq OpenCall /\ \A o \in opening : Granted(o)
    /\ \A n \in Paths : disk[n] # Dir => made[n] = 0
    /\ MkdirOnce /\ RefusalIsSaid

\* Nothing of the disk moves, and no call with less than it needs is added.
Still ==
    /\ UNCHANGED <<world, grants, disk, made>>
    /\ outputFailure' \in Reasons /\ fileCalls' \in 0 .. FileCalls
    /\ unsaid' = unsaid \/ world = "browser"
    /\ \A o \in opening' : o \in opening \/ (o \in OpenCall /\ Granted(o))
\* Such a step keeps the invariant of the disk.
LEMMA StillKeepsDisk == ASSUME DiskInv, Still PROVE DiskInv'
BY DEF DiskInv, Still, Granted, MkdirOnce, RefusalIsSaid

\* The disk becomes d as made counts, on a call that had the grant.
LEMMA OntoKeepsDisk ==
    ASSUME DiskInv, NEW d \in [Paths -> Dir .. FileCalls], NEW fresh, Onto(d, fresh), ChangeUnchanged,
           world # "browser" => \A n \in Paths : n = fresh => disk[n] = Absent,
           \A o \in opening' : o \in opening \/ (o \in OpenCall /\ Granted(o))
    PROVE  DiskInv'
<1>1. disk' = d /\ made' \in [Paths -> Nat]
  BY DEF DiskInv, Onto
<1>2. \A n \in Paths : d[n] # Dir => made'[n] = 0  BY DEF Onto
<1>3. MkdirOnce'
  <2>1. SUFFICES ASSUME world # "browser", NEW n \in Paths PROVE made'[n] <= 1
    BY DEF MkdirOnce, ChangeUnchanged
  <2>2. made[n] \in Nat /\ made[n] <= 1 /\ (disk[n] # Dir => made[n] = 0)  BY <2>1 DEF DiskInv, MkdirOnce
  <2>3. n = fresh => made[n] = 0  BY <2>1, <2>2 DEF Absent, Dir
  <2>. QED  BY <2>2, <2>3 DEF Onto
<1>4. opening' \subseteq OpenCall /\ \A o \in opening' : Granted(o)'
  BY DEF DiskInv, Granted, ChangeUnchanged
<1>. QED  BY <1>1, <1>2, <1>3, <1>4 DEF DiskInv, ChangeUnchanged, RefusalIsSaid

\* What a granted change does to the disk.
LEMMA EffectKeepsDisk ==
    ASSUME DiskInv, NEW o \in opening, o.op \in Changes, ChangeUnchanged, opening' = opening \ {o},
           WriteFile(o) \/ Mkdir(o) \/ Remove(o) \/ Rename(o)
    PROVE  DiskInv'
<1>0. /\ o.name \in Paths /\ o.to \in Paths /\ o.call \in 1 .. FileCalls
      /\ disk \in [Paths -> Dir .. FileCalls] /\ FileCalls \in Nat
  BY FilesAssumption DEF DiskInv, Granted, OpenCall
<1>1. \A n \in Paths : n # ""  BY FilesAssumption
<1>2. o.call \in Dir .. FileCalls /\ Dir \in Dir .. FileCalls /\ Absent \in Dir .. FileCalls
  BY <1>0 DEF Dir, Absent
<1>3. CASE WriteFile(o)
  <2>1. [disk EXCEPT ![o.name] = o.call] \in [Paths -> Dir .. FileCalls]  BY <1>0, <1>2
  <2>. QED  BY <1>1, <1>3, <2>1, OntoKeepsDisk DEF WriteFile
<1>4. CASE Mkdir(o)
  <2>1. [disk EXCEPT ![o.name] = Dir] \in [Paths -> Dir .. FileCalls]  BY <1>0, <1>2
  <2>. QED  BY <1>4, <2>1, OntoKeepsDisk DEF Mkdir
<1>5. CASE Remove(o)
  <2>1. [disk EXCEPT ![o.name] = Absent] \in [Paths -> Dir .. FileCalls]  BY <1>0, <1>2
  <2>. QED  BY <1>1, <1>5, <2>1, OntoKeepsDisk DEF Remove
<1>6. CASE Rename(o)
  <2>1. [disk EXCEPT ![o.name] = Absent, ![o.to] = disk[o.name]] \in [Paths -> Dir .. FileCalls]
    BY <1>0, <1>2
  <2>. QED  BY <1>1, <1>6, <2>1, OntoKeepsDisk DEF Rename
<1>. QED  BY <1>3, <1>4, <1>5, <1>6

-----------------------------------------------------------------------------
(* The streams *)

\* Unless two opens of one stream were in flight: every open file is a stream's, and a
\* stream being opened is let go of, or closed.
NoneDangle ==
    /\ \A i \in DOMAIN files : files[i].open => i \in {source, sink}
    /\ \A o \in opening : o.op \in Streams =>
         Held(o.op) = 0 \/ (o.stage = "closing" /\ ~files[Held(o.op)].open)
    /\ \A o, q \in opening : o.op = q.op /\ o.op \in Streams => o = q
StreamInv ==
    /\ source \in 0 .. Len(files) /\ sink \in 0 .. Len(files) /\ overlapped \in BOOLEAN
    /\ overlapped \/ NoneDangle

\* The streams stay, and no open of one is added.
StreamsStay ==
    /\ UNCHANGED <<source, sink, overlapped>>
    /\ Len(files') = Len(files) /\ DOMAIN files' = DOMAIN files
    /\ \A i \in DOMAIN files : files'[i].open = files[i].open
    /\ \A o \in opening' : o \in opening \/ o.op \notin Streams
\* Such a step keeps the invariant of the streams.
LEMMA StayKeepsStreams == ASSUME BytesType, StreamInv, StreamsStay PROVE StreamInv'
<1>1. source' \in 0 .. Len(files') /\ sink' \in 0 .. Len(files')  BY DEF StreamInv, StreamsStay
<1>2. ASSUME NoneDangle PROVE NoneDangle'
  <2>1. \A i \in DOMAIN files' : files'[i].open => i \in {source', sink'}
    BY <1>2 DEF NoneDangle, StreamsStay
  <2>2. ASSUME NEW o \in opening', o.op \in Streams
        PROVE  Held(o.op)' = 0 \/ (o.stage = "closing" /\ ~files'[Held(o.op)'].open)
    <3>1. o \in opening /\ Held(o.op)' = Held(o.op)  BY <2>2 DEF StreamsStay, Held
    <3>2. Held(o.op) # 0 => Held(o.op) \in DOMAIN files  BY DEF StreamInv, Held, BytesType
    <3>. QED  BY <1>2, <2>2, <3>1, <3>2 DEF NoneDangle, StreamsStay
  <2>3. \A o, q \in opening' : o.op = q.op /\ o.op \in Streams => o = q
    BY <1>2 DEF NoneDangle, StreamsStay
  <2>. QED  BY <2>1, <2>2, <2>3 DEF NoneDangle
<1>3. overlapped' = overlapped  BY DEF StreamsStay
<1>. QED  BY <1>1, <1>2, <1>3 DEF StreamInv

\* Closing a file leaves it where it was, with what it has.
LEMMA CloseFileIs ==
    ASSUME BytesType, NEW k
    PROVE  /\ CloseFile(k) \in Seq(File) /\ Len(CloseFile(k)) = Len(files) /\ DOMAIN CloseFile(k) = DOMAIN files
           /\ \A i \in DOMAIN files : /\ CloseFile(k)[i].got = files[i].got
                                      /\ CloseFile(k)[i].open = (files[i].open /\ i # k)
<1>1. files \in Seq(File) /\ DOMAIN files = 1 .. Len(files) /\ Len(files) \in Nat  BY DEF BytesType
<1>2. ASSUME NEW i \in DOMAIN files
      PROVE  /\ CloseFile(k)[i] \in File /\ CloseFile(k)[i].got = files[i].got
             /\ CloseFile(k)[i].open = (files[i].open /\ i # k)
  <2>1. files[i] \in File  BY <1>1
  <2>2. CloseFile(k)[i] = IF i = k THEN [files[i] EXCEPT !.open = FALSE] ELSE files[i]  BY DEF CloseFile
  <2>3. [files[i] EXCEPT !.open = FALSE] \in File  BY <2>1 DEF File
  <2>4. [files[i] EXCEPT !.open = FALSE].open = FALSE /\ [files[i] EXCEPT !.open = FALSE].got = files[i].got
    BY <2>1 DEF File
  <2>5. files[i].open \in BOOLEAN  BY <2>1 DEF File
  <2>6. CASE i = k  BY <2>2, <2>3, <2>4, <2>6
  <2>7. CASE i # k  BY <2>1, <2>2, <2>5, <2>7
  <2>. QED  BY <2>6, <2>7
<1>3. DOMAIN CloseFile(k) = 1 .. Len(files)  BY <1>1 DEF CloseFile
<1>4. CloseFile(k) \in [1 .. Len(files) -> File]  BY <1>1, <1>2 DEF CloseFile
<1>5. CloseFile(k) \in Seq(File) /\ Len(CloseFile(k)) = Len(files)  BY <1>1, <1>4
<1>. QED  BY <1>1, <1>2, <1>3, <1>5

\* An open that begins.
Begun(s, stage) ==
    /\ \E b : b.op = s /\ b.stage = stage /\ opening' = opening \cup {b}
    /\ overlapped' \in BOOLEAN
    /\ ~overlapped' => ~overlapped /\ \A o \in opening : o.op # s
\* What is in flight once it has begun.
LEMMA OpeningIs ==
    ASSUME NEW s, NEW name, NEW stage, Opening(s, name, stage)
    PROVE  Begun(s, stage)
<1> DEFINE b == [call |-> fileCalls + 1, op |-> s, name |-> name, to |-> "", stage |-> stage]
<1>1. opening' = opening \cup {b}  BY DEF Opening
<1>2. b.op = s /\ b.stage = stage  OBVIOUS
<1>3. overlapped' = (overlapped \/ \E o \in opening : o.op = s)  BY DEF Opening
<1>4. overlapped' \in BOOLEAN  BY <1>3, Zenon
<1>5. ~overlapped' => ~overlapped /\ \A o \in opening : o.op # s  BY <1>3, Zenon
<1> HIDE DEF b
<1>. QED  BY <1>1, <1>2, <1>4, <1>5 DEF Begun

\* A stream is closed and let go of, and an open of it may begin.
LetsGo(s) ==
    /\ files' = CloseFile(Held(s)) /\ Hold(s, 0)
    /\ \/ UNCHANGED <<opening, overlapped>>
       \/ Begun(s, "open")
\* Such a step leaves no file open that no stream holds.
LEMMA LetsGoKeepsStreams ==
    ASSUME BytesType, StreamInv, NEW s \in Streams, LetsGo(s) PROVE StreamInv'
<1>0. PICK h : h = Held(s)  OBVIOUS
<1>1. /\ files' \in Seq(File) /\ Len(files') = Len(files) /\ DOMAIN files' = DOMAIN files
      /\ \A i \in DOMAIN files : files'[i].open = (files[i].open /\ i # h)
  BY <1>0, CloseFileIs DEF LetsGo
<1>2. source' \in 0 .. Len(files') /\ sink' \in 0 .. Len(files')
  BY <1>1 DEF StreamInv, LetsGo, Hold, BytesType
<1>3. Held(s)' = 0 /\ \A z \in Streams : z # s => Held(z)' = Held(z)
  BY DEF LetsGo, Hold, Held, Streams
<1>4. ASSUME ~overlapped, NoneDangle PROVE \A i \in DOMAIN files' : files'[i].open => i \in {source', sink'}
  <2>1. SUFFICES ASSUME NEW i \in DOMAIN files', files'[i].open PROVE i \in {source', sink'}  OBVIOUS
  <2>2. i \in DOMAIN files /\ files[i].open /\ i # h  BY <1>1, <2>1
  <2>. QED  BY <1>0, <1>4, <2>2 DEF NoneDangle, LetsGo, Hold, Held, Streams
<1>5. ASSUME NoneDangle, NEW o \in opening, o.op \in Streams
      PROVE  Held(o.op)' = 0 \/ (o.stage = "closing" /\ ~files'[Held(o.op)'].open)
  <2>1. CASE o.op = s  BY <1>3, <2>1
  <2>2. CASE o.op # s
    <3>1. Held(o.op)' = Held(o.op)  BY <1>3, <1>5, <2>2
    <3>2. Held(o.op) # 0 => Held(o.op) \in DOMAIN files  BY DEF StreamInv, Held, BytesType
    <3>. QED  BY <1>1, <1>5, <3>1, <3>2 DEF NoneDangle
  <2>. QED  BY <2>1, <2>2
<1>6. CASE UNCHANGED <<opening, overlapped>>
  <2>1. overlapped' \/ NoneDangle'  BY <1>4, <1>5, <1>6 DEF StreamInv, NoneDangle
  <2>2. overlapped' \in BOOLEAN  BY <1>6 DEF StreamInv
  <2>. QED  BY <1>2, <2>1, <2>2 DEF StreamInv
<1>7. CASE Begun(s, "open")
  <2>0. overlapped' \in BOOLEAN /\ (~overlapped' => ~overlapped /\ \A o \in opening : o.op # s)
    BY <1>7, Zenon DEF Begun
  <2>1. PICK b : b.op = s /\ b.stage = "open" /\ opening' = opening \cup {b}
    BY <1>7, Zenon DEF Begun
  <2>2. ASSUME ~overlapped' PROVE NoneDangle'
    <3>1. ~overlapped /\ NoneDangle /\ \A o \in opening : o.op # s  BY <2>0, <2>2 DEF StreamInv
    <3>2. \A o \in opening' : o = b \/ o \in opening  BY <2>1
    <3>3. Held(b.op)' = 0  BY <1>3, <2>1
    <3>4. \A o \in opening' : o.op \in Streams =>
             Held(o.op)' = 0 \/ (o.stage = "closing" /\ ~files'[Held(o.op)'].open)
      BY <1>5, <3>1, <3>2, <3>3
    <3>5. \A o, q \in opening' : o.op = q.op /\ o.op \in Streams => o = q
      BY <2>1, <3>1, <3>2 DEF NoneDangle
    <3>. QED  BY <1>4, <3>1, <3>4, <3>5 DEF NoneDangle
  <2>. QED  BY <1>2, <2>0, <2>2 DEF StreamInv
<1>. QED  BY <1>6, <1>7 DEF LetsGo

\* A stream is closed and held until the close is done, and an open of it begins.
LEMMA ClosingKeepsStreams ==
    ASSUME BytesType, StreamInv, NEW s \in Streams, files' = CloseFile(Held(s)),
           UNCHANGED <<source, sink>>, Begun(s, "closing")
    PROVE  StreamInv'
<1>0. PICK h : h = Held(s)  OBVIOUS
<1>1. /\ files' \in Seq(File) /\ Len(files') = Len(files) /\ DOMAIN files' = DOMAIN files
      /\ \A i \in DOMAIN files : files'[i].open = (files[i].open /\ i # h)
  BY <1>0, CloseFileIs
<1>2. source' \in 0 .. Len(files') /\ sink' \in 0 .. Len(files')  BY <1>1 DEF StreamInv
<1>3. PICK b : b.op = s /\ b.stage = "closing" /\ opening' = opening \cup {b}  BY Zenon DEF Begun
<1>7. overlapped' \in BOOLEAN /\ (~overlapped' => ~overlapped /\ \A o \in opening : o.op # s)
  BY Zenon DEF Begun
<1>4. \A z : Held(z)' = Held(z)  BY DEF Held
<1>5. ASSUME NEW z PROVE Held(z) # 0 => Held(z) \in DOMAIN files  BY DEF StreamInv, Held, BytesType
<1>6. ASSUME ~overlapped' PROVE NoneDangle'
  <2>1. ~overlapped /\ NoneDangle /\ \A o \in opening : o.op # s  BY <1>6, <1>7 DEF StreamInv
  <2>2. \A o \in opening' : o = b \/ o \in opening  BY <1>3
  <2>3. ASSUME NEW o \in opening', o.op \in Streams
        PROVE  Held(o.op)' = 0 \/ (o.stage = "closing" /\ ~files'[Held(o.op)'].open)
    <3>1. CASE o = b  BY <1>0, <1>1, <1>3, <1>4, <1>5, <3>1
    <3>2. CASE o \in opening  BY <1>1, <1>4, <1>5, <2>1, <2>3, <3>2 DEF NoneDangle
    <3>. QED  BY <2>2, <3>1, <3>2
  <2>4. \A o, q \in opening' : o.op = q.op /\ o.op \in Streams => o = q
    BY <1>3, <2>1, <2>2 DEF NoneDangle
  <2>5. \A i \in DOMAIN files' : files'[i].open => i \in {source', sink'}
    BY <1>1, <2>1 DEF NoneDangle
  <2>. QED  BY <2>3, <2>4, <2>5 DEF NoneDangle
<1>. QED  BY <1>2, <1>6, <1>7 DEF StreamInv

\* The close is done: the stream is let go of, and the open goes on or ends.
LEMMA ClosedKeepsStreams ==
    ASSUME BytesType, StreamInv, NEW o \in opening, o.op \in Streams, o.stage = "closing", Hold(o.op, 0),
           UNCHANGED <<files, overlapped>>,
           opening' = opening \ {o} \/ Advance(o, "open")
    PROVE  StreamInv'
<1>1. source' \in 0 .. Len(files') /\ sink' \in 0 .. Len(files')  BY DEF StreamInv, Hold, BytesType
<1>2. Held(o.op)' = 0 /\ \A z \in Streams : z # o.op => Held(z)' = Held(z)
  BY DEF Hold, Held, Streams
<1>3. ASSUME NoneDangle PROVE NoneDangle'
  <2>1. ASSUME NEW i \in DOMAIN files, files[i].open PROVE i \in {source', sink'}
    <3>1. i # Held(o.op) \/ i = 0  BY <1>3, <2>1 DEF NoneDangle
    <3>2. i \in {source, sink} /\ i # 0  BY <1>3, <2>1 DEF NoneDangle, BytesType
    <3>. QED  BY <3>1, <3>2 DEF Hold, Held, Streams
  <2>2. \A q \in opening' : \/ q \in opening /\ q # o
                            \/ q = [o EXCEPT !.stage = "open"]
    BY DEF Advance
  <2>3. [o EXCEPT !.stage = "open"].op = o.op  OBVIOUS
  <2>4. \A q \in opening : q # o => q.op # o.op  BY <1>3 DEF NoneDangle
  <2>5. ASSUME NEW q \in opening', q.op \in Streams
        PROVE  Held(q.op)' = 0 \/ (q.stage = "closing" /\ ~files'[Held(q.op)'].open)
    BY <1>2, <1>3, <2>2, <2>3, <2>4, <2>5 DEF NoneDangle
  <2>6. \A q, r \in opening' : q.op = r.op /\ q.op \in Streams => q = r
    BY <1>3, <2>2, <2>3, <2>4 DEF NoneDangle
  <2>. QED  BY <2>1, <2>5, <2>6 DEF NoneDangle
<1>. QED  BY <1>1, <1>3 DEF StreamInv

\* The file becomes the stream.
LEMMA OpenedKeepsStreams ==
    ASSUME BytesType, StreamInv, NEW o \in opening, o.op \in Streams, Opened(o)
    PROVE  StreamInv'
<1>0. PICK n \in Nat : n = Len(files) /\ DOMAIN files = 1 .. n  BY DEF BytesType
<1>1. /\ Len(files') = n + 1 /\ DOMAIN files' = 1 .. n + 1 /\ \A i \in 1 .. n : files'[i] = files[i]
  BY <1>0 DEF Opened, BytesType
<1>2. Hold(o.op, n + 1) /\ opening' = opening \ {o} /\ o.stage = "open" /\ UNCHANGED overlapped
  BY <1>0 DEF Opened, histVars
<1>3. source' \in 0 .. Len(files') /\ sink' \in 0 .. Len(files')
  BY <1>0, <1>1, <1>2 DEF StreamInv, Hold
<1>4. Held(o.op)' = n + 1 /\ \A z \in Streams : z # o.op => Held(z)' = Held(z)
  BY <1>2 DEF Hold, Held, Streams
<1>5. ASSUME NoneDangle PROVE NoneDangle'
  <2>1. Held(o.op) = 0  BY <1>2, <1>5 DEF NoneDangle
  <2>2. ASSUME NEW i \in DOMAIN files', files'[i].open PROVE i \in {source', sink'}
    <3>1. CASE i = n + 1  BY <1>2, <3>1 DEF Hold
    <3>2. CASE i \in 1 .. n
      <4>1. i \in {source, sink} /\ i # 0  BY <1>0, <1>1, <1>5, <2>2, <3>2 DEF NoneDangle
      <4>. QED  BY <1>2, <2>1, <4>1 DEF Hold, Held, Streams
    <3>. QED  BY <1>0, <1>1, <3>1, <3>2
  <2>3. \A q \in opening' : q \in opening /\ (q.op \in Streams => q.op # o.op)
    BY <1>2, <1>5 DEF NoneDangle
  <2>4. ASSUME NEW q \in opening', q.op \in Streams
        PROVE  Held(q.op)' = 0 \/ (q.stage = "closing" /\ ~files'[Held(q.op)'].open)
    <3>1. q \in opening /\ Held(q.op)' = Held(q.op)  BY <1>4, <2>3, <2>4
    <3>2. Held(q.op) # 0 => Held(q.op) \in 1 .. n  BY <1>0 DEF StreamInv, Held
    <3>. QED  BY <1>1, <1>5, <2>4, <3>1, <3>2 DEF NoneDangle
  <2>5. \A q, r \in opening' : q.op = r.op /\ q.op \in Streams => q = r
    BY <1>5, <2>3 DEF NoneDangle
  <2>. QED  BY <2>2, <2>4, <2>5 DEF NoneDangle
<1>. QED  BY <1>2, <1>3, <1>5 DEF StreamInv

-----------------------------------------------------------------------------
\* The inductive invariant of a world's files, in its three independent parts.
FInv == BytesInv /\ DiskInv /\ StreamInv

\* A world begins with no file, no frame and no call.
LEMMA FilesBegin == ASSUME FInit PROVE FInv
<1>1. /\ stdout = <<>> /\ captured = <<>> /\ files = <<>> /\ frames = <<>> /\ fileCalls = 0 /\ inside = {}
      /\ acked = {} /\ strayed = {} /\ source = 0 /\ sink = 0 /\ opening = {} /\ overlapped = FALSE
  BY DEF FInit
<1>2. BytesType  BY <1>1 DEF BytesType
<1>3. Boxed(Cells, fileCalls, Kept)
  <2>1. DOMAIN Cells = {1} /\ Cells[1] = <<>>  BY <1>1 DEF Cells, PlaceAt
  <2>2. Kept = {}  BY <1>1 DEF Kept
  <2>3. <<>> \in Seq(Token) /\ DOMAIN <<>> = {}  OBVIOUS
  <2>. QED  BY <2>1, <2>2, <2>3 DEF Boxed
<1>4. InsideStaysInside /\ NeverTheTerminal  BY <1>1 DEF InsideStaysInside, NeverTheTerminal
<1>5. DiskInv
  <2>0. FileCalls \in Nat  BY FilesAssumption
  <2>1. Absent \in Dir .. FileCalls /\ FileCalls \in Nat  BY <2>0 DEF Absent, Dir
  <2>2. disk \in [Paths -> Dir .. FileCalls] /\ made = [n \in Paths |-> 0]  BY <2>1 DEF FInit
  <2>3. world \in Worlds /\ grants \subseteq {"read", "write"} /\ outputFailure \in Reasons /\ ~unsaid
    BY DEF FInit, Reasons
  <2>. QED  BY <1>1, <2>1, <2>2, <2>3 DEF DiskInv, MkdirOnce, RefusalIsSaid
<1>6. StreamInv
  <2>1. Len(files) = 0 /\ DOMAIN files = {}  BY <1>1
  <2>2. NoneDangle  BY <1>1, <2>1 DEF NoneDangle
  <2>3. overlapped \in BOOLEAN /\ source \in 0 .. Len(files) /\ sink \in 0 .. Len(files)
    <3>1. 0 \in 0 .. 0  OBVIOUS
    <3>. QED  BY <1>1, <2>1, <3>1, Zenon
  <2>. QED  BY <2>2, <2>3 DEF StreamInv
<1>. QED  BY <1>2, <1>3, <1>4, <1>5, <1>6 DEF FInv, BytesInv

\* The number of the next call.
LEMMA NextCall == ASSUME NEW m \in Nat, NEW c \in 0 .. m, c + 1 \in 0 .. m PROVE c + 1 \in 1 .. m
OBVIOUS
\* A length that stays.
LEMMA SameLength == ASSUME NEW m \in Nat, NEW n, n = m PROVE n # m + 1 /\ n \in {m, m + 1}
OBVIOUS
\* What a name may hold before any call.
LEMMA DiskValues == Dir \in Dir .. FileCalls /\ Absent \in Dir .. FileCalls
<1>1. FileCalls \in Nat  BY FilesAssumption
<1>. QED  BY <1>1 DEF Dir, Absent
\* A call is counted up to the bound.
LEMMA CallsCount == ASSUME DiskInv, ThisCall PROVE fileCalls' \in 0 .. FileCalls
<1>1. FileCalls \in Nat  BY FilesAssumption
<1>2. fileCalls \in 0 .. FileCalls /\ fileCalls < FileCalls /\ fileCalls' = fileCalls + 1
  BY DEF DiskInv, ThisCall
<1>. QED  BY <1>1, <1>2

\* What a write of n tokens, of which k reach, adds.
LEMMA TokensAre ==
    ASSUME BytesType, NEW n \in Nat, NEW k \in 0 .. n
    PROVE  /\ SubSeq(Tokens(n), 1, k) \in Seq(Token) /\ Len(SubSeq(Tokens(n), 1, k)) = k
           /\ \A i \in 1 .. k : SubSeq(Tokens(n), 1, k)[i] = <<fileCalls + 1, i>>
           /\ Tokens(n) \in Seq(Token) /\ Len(Tokens(n)) = n
           /\ \A i \in 1 .. n : Tokens(n)[i] = <<fileCalls + 1, i>>
           /\ SubSeq(Tokens(n), 1, n) = Tokens(n)
<1> DEFINE T == Tokens(n)
<1>0. fileCalls \in Nat  BY DEF BytesType
<1>1. T \in [1 .. n -> Token] /\ \A i \in 1 .. n : T[i] = <<fileCalls + 1, i>>  BY <1>0 DEF Tokens, Token
<1> HIDE DEF T
<1>2. T \in Seq(Token) /\ Len(T) = n  BY <1>1
<1>3. /\ SubSeq(T, 1, k) \in Seq(Token) /\ Len(SubSeq(T, 1, k)) = k
      /\ \A i \in 1 .. k : SubSeq(T, 1, k)[i] = T[i]
  BY <1>2
<1>4. SubSeq(T, 1, n) = T  BY <1>2
<1>. QED  BY <1>1, <1>2, <1>3, <1>4 DEF T

\* A program's step other than a write: the disk and the streams stay.
LEMMA ProgramKeepsRest ==
    ASSUME FInv, UNCHANGED <<world, grants, disk, made, opening, unsaid, source, sink, overlapped>>,
           outputFailure' \in Reasons, fileCalls' \in 0 .. FileCalls,
           Len(files') = Len(files), DOMAIN files' = DOMAIN files,
           \A i \in DOMAIN files : files'[i].open = files[i].open
    PROVE  DiskInv' /\ StreamInv'
<1>1. Still  BY DEF FInv, DiskInv, Still
<1>2. StreamsStay  BY DEF StreamsStay
<1>. QED  BY <1>1, <1>2, StillKeepsDisk, StayKeepsStreams DEF FInv, BytesInv

\* A program's write, of which part or all reaches where it goes.
LEMMA ReachKeeps ==
    ASSUME FInv, ThisCall, WriteUnchanged, ~Active, NEW n \in Nat, NEW k \in 0 .. n, Reach(n, k),
           UNCHANGED frames, outputFailure' \in Reasons,
           \/ acked' = acked
           \/ acked' = acked \cup {Tokens(n)[i] : i \in 1 .. n} /\ (ShortWrites \/ k = n)
    PROVE  FInv'
<1>0. BytesType /\ BytesInv /\ StreamInv  BY DEF FInv, BytesInv
<1>1. PICK t : t = SubSeq(Tokens(n), 1, k)  OBVIOUS
<1>2. /\ t \in Seq(Token) /\ Len(t) = k /\ \A i \in 1 .. k : t[i] = <<fileCalls + 1, i>>
      /\ \A i \in 1 .. n : Tokens(n)[i] = <<fileCalls + 1, i>>
  BY <1>0, <1>1, TokensAre
<1>3. fileCalls' = fileCalls + 1 /\ inside' = inside /\ strayed' = strayed
  BY DEF ThisCall, WriteUnchanged
<1>4. ASSUME NEW u \in Kept' PROVE u \in Kept \/ \E i \in 1 .. Len(t) : u = t[i]
  <2>1. ~ShortWrites /\ u \in acked'  BY <1>4 DEF Kept
  <2>2. u \in acked \/ \E i \in 1 .. n : u = Tokens(n)[i]  BY <2>1
  <2>3. acked' # acked => k = n  BY <2>1
  <2>. QED  BY <1>2, <2>1, <2>2, <2>3 DEF Kept
<1>5. Written(t)  BY <1>2, <1>3, <1>4 DEF Written
<1>6. CASE sink = 0
  <2>1. stdout' = stdout \o t /\ UNCHANGED <<captured, files, frames, inside>>
    BY <1>1, <1>3, <1>6 DEF Reach, WriteUnchanged
  <2>2. BytesInv'  BY <1>0, <1>5, <2>1, WrittenToStdout
  <2>3. fileCalls' \in 0 .. FileCalls  BY CallsCount DEF FInv
  <2>4. DiskInv' /\ StreamInv'  BY <2>1, <2>3, ProgramKeepsRest DEF WriteUnchanged
  <2>. QED  BY <2>2, <2>4 DEF FInv
<1>7. CASE sink # 0
  <2>1. FileGrows(sink, t) /\ UNCHANGED <<captured, stdout, frames, inside>>
    BY <1>1, <1>3, <1>7 DEF Reach, WriteUnchanged, FileGrows
  <2>2. PICK f \in 1 .. Len(files) : f = sink  BY <1>0, <1>7 DEF StreamInv, BytesType
  <2>3. FileGrows(f, t)  BY <2>1, <2>2 DEF FileGrows
  <2>4. BytesInv'  BY <1>0, <1>5, <2>1, <2>3, WrittenToFile
  <2>5. fileCalls' \in 0 .. FileCalls  BY CallsCount DEF FInv
  <2>6. /\ Len(files') = Len(files) /\ DOMAIN files' = DOMAIN files
        /\ \A i \in DOMAIN files : files'[i].open = files[i].open
    <3>1. files \in Seq(File) /\ \A i \in DOMAIN files : files[i] \in File  BY <1>0 DEF BytesType
    <3>2. files' = [files EXCEPT ![f].got = @ \o t]  BY <2>3 DEF FileGrows
    <3>3. DOMAIN files' = DOMAIN files /\ DOMAIN files = 1 .. Len(files) /\ Len(files) \in Nat  BY <3>1, <3>2
    <3>4. files' \in Seq(File)  BY <2>4 DEF BytesInv, BytesType
    <3>5. Len(files') = Len(files)  BY <3>3, <3>4
    <3>6. ASSUME NEW i \in DOMAIN files PROVE files'[i].open = files[i].open
      <4>1. CASE i # f  BY <3>1, <3>2, <4>1
      <4>2. CASE i = f
        <5>1. files'[i] = [files[i] EXCEPT !.got = @ \o t]  BY <3>1, <3>2, <4>2
        <5>2. files[i] \in File  BY <3>1
        <5>. QED  BY <5>1, <5>2 DEF File
      <4>. QED  BY <4>1, <4>2
    <3>. QED  BY <3>3, <3>5, <3>6
  <2>7. DiskInv' /\ StreamInv'  BY <2>5, <2>6, ProgramKeepsRest DEF WriteUnchanged
  <2>. QED  BY <2>4, <2>7 DEF FInv
<1>. QED  BY <1>6, <1>7

\* PUSH_OUT, POP_OUT, the writes and the reads of a program keep the invariant.
LEMMA ProgramsStep == ASSUME FInv, Programs PROVE FInv'
<1>0. BytesType /\ BytesInv /\ DiskInv /\ StreamInv  BY DEF FInv, BytesInv
<1>1. /\ files \in Seq(File) /\ frames \in Seq(Frame) /\ fileCalls \in Nat /\ strayed \subseteq {"recv"}
      /\ outputFailure \in Reasons /\ fileCalls \in 0 .. FileCalls
  BY <1>0 DEF BytesType, BytesInv, DiskInv, NeverTheTerminal
<1>2. ASSUME NEW fed \in 0 .. 1, Push(fed) PROVE FInv'
  <2>1. [fed |-> fed, out |-> <<>>] \in Frame  BY DEF Frame
  <2>2. /\ frames' \in Seq(Frame) /\ Len(frames') = Len(frames) + 1
        /\ \A i \in 1 .. Len(frames) : frames'[i] = frames[i]
        /\ frames'[Len(frames) + 1] = [fed |-> fed, out |-> <<>>]
    BY <1>1, <1>2, <2>1 DEF Push
  <2>3. Steady  BY <1>1, <1>2, <2>2 DEF Push, Steady, ThisCall, streamVars
  <2>4. fileCalls' \in 0 .. FileCalls  BY <1>0, <1>2, CallsCount DEF Push
  <2>5. DiskInv' /\ StreamInv'  BY <1>1, <1>2, <2>4, ProgramKeepsRest DEF Push, streamVars
  <2>. QED  BY <1>0, <2>3, <2>5, SteadyKeepsBytes DEF FInv
<1>3. CASE Pop
  <2>1. DiskInv' /\ StreamInv'  BY <1>1, <1>3, ProgramKeepsRest DEF Pop, streamVars
  <2>. QED  BY <1>0, <1>3, <2>1, PopKeepsBytes DEF FInv
<1>4. ASSUME Active
      PROVE  /\ Top \in Frame /\ Len(frames) \in 1 .. Len(frames) /\ Len(frames) \in Nat
             /\ Top = frames[Len(frames)]
  BY <1>1, <1>4 DEF Active, Top
<1>5. ASSUME Active, ThisCall, NEW n \in Nat, Fits(n), frames' = SetTop([Top EXCEPT !.out = @ \o Tokens(n)]),
             acked' = acked \/ acked' = acked \cup {Tokens(n)[i] : i \in 1 .. n},
             UNCHANGED <<captured, stdout, files, strayed>>
      PROVE  BytesInv'
  <2>1. PICK t : t = Tokens(n)  OBVIOUS
  <2>a. n \in 0 .. n  BY <1>5
  <2>2. t \in Seq(Token) /\ Len(t) = n /\ \A i \in 1 .. n : t[i] = <<fileCalls + 1, i>>
    <3>1. t \in Seq(Token) /\ Len(t) = n  BY <1>0, <1>5, <2>1, <2>a, TokensAre
    <3>2. \A i \in 1 .. n : t[i] = <<fileCalls + 1, i>>  BY <2>1, Zenon DEF Tokens
    <3>. QED  BY <3>1, <3>2
  <2>3. \A u \in Kept' : u \in Kept \/ \E i \in 1 .. Len(t) : u = t[i]  BY <1>5, <2>1, <2>2 DEF Kept
  <2>4. Written(t)  BY <1>5, <2>2, <2>3 DEF Written, ThisCall
  <2>5. TopGrows(t) /\ Len(Top.out) + Len(t) <= CAP  BY <1>5, <2>1, <2>2 DEF TopGrows, Fits
  <2>6. inside' = inside \cup {fileCalls + 1}  BY <1>5 DEF ThisCall
  <2>. QED  BY <1>0, <1>5, <2>4, <2>5, <2>6, WrittenToFrame
<1>6. ASSUME ThisCall, UNCHANGED <<captured, stdout, files, frames, acked, strayed>> PROVE BytesInv'
  <2>1. Steady  BY <1>1, <1>6 DEF Steady, ThisCall
  <2>. QED  BY <1>0, <2>1, SteadyKeepsBytes
<1>7. CASE Log
  <2>1. fileCalls' \in 0 .. FileCalls  BY <1>0, <1>7, CallsCount DEF Log
  <2>2. DiskInv' /\ StreamInv'  BY <1>1, <1>7, <2>1, ProgramKeepsRest DEF Log, streamVars
  <2>3. CASE Active /\ Fits(1)  BY <1>5, <1>7, <2>2, <2>3 DEF Log, FInv, streamVars
  <2>4. CASE Active /\ ~Fits(1)  BY <1>6, <1>7, <2>2, <2>4 DEF Log, FInv, streamVars
  <2>5. CASE ~Active
    <3>1. PICK t : t = Tokens(1)  OBVIOUS
    <3>2. t \in Seq(Token) /\ Len(t) = 1 /\ \A i \in 1 .. 1 : t[i] = <<fileCalls + 1, i>>
      <4>1. 1 \in Nat /\ 1 \in 0 .. 1  OBVIOUS
      <4>. QED  BY <1>0, <3>1, <4>1, TokensAre
    <3>3. Written(t)  BY <1>7, <3>2 DEF Written, Log, ThisCall, Kept
    <3>4. stdout' = stdout \o t /\ UNCHANGED <<captured, files, frames, inside>>
      BY <1>7, <2>5, <3>1 DEF Log, ThisCall, streamVars
    <3>. QED  BY <1>0, <2>2, <3>3, <3>4, WrittenToStdout DEF FInv
  <2>. QED  BY <2>3, <2>4, <2>5
<1>8. ASSUME NEW n \in Sizes, ThisCall, WriteUnchanged, WriteInside(n) PROVE FInv'
  <2>0. n \in Nat  BY DEF Sizes
  <2>1. fileCalls' \in 0 .. FileCalls  BY <1>0, <1>8, CallsCount
  <2>2. DiskInv' /\ StreamInv'  BY <1>1, <1>8, <2>1, ProgramKeepsRest DEF WriteUnchanged, WriteInside
  <2>3. CASE Fits(n)  BY <1>5, <1>8, <2>0, <2>2, <2>3 DEF WriteInside, WriteUnchanged, FInv
  <2>4. CASE ~Fits(n)  BY <1>6, <1>8, <2>2, <2>4 DEF WriteInside, WriteUnchanged, FInv
  <2>. QED  BY <2>3, <2>4
<1>9. ASSUME NEW n \in Sizes, ThisCall, WriteUnchanged, WriteOut(n) PROVE FInv'
  <2>0. n \in Nat /\ n \in 0 .. n  BY DEF Sizes
  <2>. QED  BY <1>1, <1>9, <2>0, ReachKeeps DEF WriteOut
<1>10. ASSUME NEW n \in Sizes, NEW k \in 0 .. n, NEW why \in Reasons, ThisCall, WriteUnchanged, WriteFails(n, k, why)
       PROVE FInv'
  <2>0. n \in Nat  BY DEF Sizes
  <2>. QED  BY <1>1, <1>10, <2>0, ReachKeeps DEF WriteFails
<1>11. ASSUME NEW n \in Sizes, NodeWriteShort(n) PROVE FInv'
  <2>0. n \in Nat /\ n - 1 \in 0 .. n  BY DEF Sizes
  <2>. QED  BY <1>1, <1>11, <2>0, ReachKeeps DEF NodeWriteShort
<1>12. ASSUME NEW n \in Sizes, DenoWrite(n) \/ NodeWrite(n) \/ BrowserWrite(n) PROVE FInv'
  <2>1. ThisCall /\ WriteUnchanged  BY <1>12 DEF DenoWrite, NodeWrite, BrowserWrite
  <2>2. /\ \A k \in 0 .. n - 1 : k \in 0 .. n
        /\ 0 \in 0 .. n /\ "disk full" \in Reasons
    BY DEF Sizes, Reasons
  <2>3. \/ WriteInside(n) \/ WriteOut(n)
        \/ \E k \in 0 .. n, why \in Reasons : WriteFails(n, k, why)
    BY <1>12, <2>2 DEF DenoWrite, NodeWrite, BrowserWrite
  <2>. QED  BY <1>8, <1>9, <1>10, <2>1, <2>3
<1>13. ASSUME UNCHANGED <<world, grants, disk, streamVars, opening, stdout, captured, made, acked, inside, fileCalls,
                          overlapped, unsaid>>,
              outputFailure' \in Reasons, strayed' \subseteq {"recv"},
              frames' \in Seq(Frame), Len(frames') = Len(frames),
              \A i \in 1 .. Len(frames) : frames'[i].out = frames[i].out
       PROVE  FInv'
  <2>1. Steady  BY <1>1, <1>13 DEF Steady, streamVars
  <2>2. DiskInv' /\ StreamInv'  BY <1>1, <1>13, ProgramKeepsRest DEF streamVars
  <2>. QED  BY <1>0, <2>1, <2>2, SteadyKeepsBytes DEF FInv
<1>14. CASE DenoWriteErr \/ NodeWriteErr \/ BrowserWriteErr
  <2>1. Complain /\ outputFailure' \in Reasons  BY <1>1, <1>14 DEF DenoWriteErr, NodeWriteErr, BrowserWriteErr
  <2>. QED  BY <1>1, <1>13, <2>1 DEF Complain, histVars
<1>15. ASSUME NEW fed \in Nat, Active, frames' = SetTop([Top EXCEPT !.fed = fed])
       PROVE  /\ frames' \in Seq(Frame) /\ Len(frames') = Len(frames)
              /\ \A i \in 1 .. Len(frames) : frames'[i].out = frames[i].out
  <2> DEFINE r == [Top EXCEPT !.fed = fed]
  <2>1. r \in Frame /\ r.out = Top.out  BY <1>4, <1>15 DEF Frame
  <2>2. frames' = [frames EXCEPT ![Len(frames)] = r]  BY <1>15 DEF SetTop
  <2> HIDE DEF r
  <2>3. PICK e \in Nat : e = Len(frames) /\ e \in 1 .. e /\ Top = frames[e]  BY <1>4, <1>15
  <2>4. /\ frames' \in Seq(Frame) /\ Len(frames') = e /\ frames'[e] = r
        /\ \A i \in 1 .. e : i # e => frames'[i] = frames[i]
    BY <1>1, <2>1, <2>2, <2>3
  <2>. QED  BY <2>1, <2>3, <2>4
<1>16. CASE DenoReadChunk \/ NodeReadChunk \/ BrowserReadChunk
  <2>1. Reads(Supply)  BY <1>16 DEF DenoReadChunk, NodeReadChunk, BrowserReadChunk
  <2>2. strayed' \subseteq {"recv"}  BY <1>1, <2>1 DEF Reads, Supply, Strays
  <2>3. /\ frames' \in Seq(Frame) /\ Len(frames') = Len(frames)
        /\ \A i \in 1 .. Len(frames) : frames'[i].out = frames[i].out
    <3>1. CASE UNCHANGED frames  BY <1>1, <3>1
    <3>2. CASE Active /\ Top.fed > 0 /\ frames' = SetTop([Top EXCEPT !.fed = @ - 1])
      <4>1. Top.fed - 1 \in Nat  BY <1>4, <3>2 DEF Frame
      <4>2. frames' = SetTop([Top EXCEPT !.fed = Top.fed - 1])  BY <1>4, <3>2 DEF Frame
      <4>. QED  BY <1>15, <3>2, <4>1, <4>2
    <3>. QED  BY <2>1, <3>1, <3>2 DEF Reads, Supply
  <2>. QED  BY <1>1, <1>13, <2>1, <2>2, <2>3 DEF Reads, ReadUnchanged
<1>17. CASE DenoReadStdin \/ NodeReadStdin \/ BrowserReadStdin
  <2>1. ReadAll  BY <1>17 DEF DenoReadStdin, NodeReadStdin, BrowserReadStdin
  <2>2. /\ frames' \in Seq(Frame) /\ Len(frames') = Len(frames)
        /\ \A i \in 1 .. Len(frames) : frames'[i].out = frames[i].out
    BY <1>1, <1>15, <2>1 DEF ReadAll, SupplyAll
  <2>3. strayed' \subseteq {"recv"}  BY <1>1, <2>1 DEF ReadAll, SupplyAll, Strays
  <2>. QED  BY <1>1, <1>13, <2>1, <2>2, <2>3 DEF ReadAll, ReadUnchanged
<1>18. CASE UNCHANGED fVars
  BY <1>1, <1>13, <1>18 DEF fVars, histVars, streamVars
<1>19. DenoWarn \/ NodeWarn \/ BrowserWarn \/ DenoReadFile \/ NodeReadFile \/ BrowserReadFile
       \/ DenoStat \/ NodeStat \/ BrowserStat \/ DenoClock \/ NodeClock \/ BrowserClock => UNCHANGED fVars
  BY DEF DenoWarn, NodeWarn, BrowserWarn, DenoReadFile, NodeReadFile, BrowserReadFile,
         DenoStat, NodeStat, BrowserStat, DenoClock, NodeClock, BrowserClock, Warn, Look
<1>20. DenoLog \/ NodeLog \/ BrowserLog => Log  BY DEF DenoLog, NodeLog, BrowserLog
<1>21. ASSUME NEW fed \in 0 .. 1, DenoPush(fed) \/ NodePush(fed) \/ BrowserPush(fed) PROVE Push(fed)
  BY <1>21 DEF DenoPush, NodePush, BrowserPush
<1>22. CASE RecvStdin
  <2>1. Steady  BY <1>1, <1>22 DEF RecvStdin, Steady, ThisCall, streamVars
  <2>2. fileCalls' \in 0 .. FileCalls  BY <1>0, <1>22, CallsCount DEF RecvStdin
  <2>3. DiskInv' /\ StreamInv'  BY <1>1, <1>22, <2>2, ProgramKeepsRest DEF RecvStdin, streamVars
  <2>. QED  BY <1>0, <2>1, <2>3, SteadyKeepsBytes DEF FInv
<1>23. ASSUME NEW c \in recvs, RecvAnswers(c) PROVE FInv'
  <2>1. strayed' \subseteq {"recv"}  BY <1>1, <1>23 DEF RecvAnswers
  <2>. QED  BY <1>1, <1>13, <1>23, <2>1 DEF RecvAnswers
<1>24. CASE DenoRecvInput \/ NodeRecvInput \/ BrowserRecvInput
  BY <1>18, <1>22, <1>23, <1>24 DEF DenoRecvInput, NodeRecvInput, BrowserRecvInput
<1>. QED
  BY <1>2, <1>3, <1>7, <1>11, <1>12, <1>14, <1>16, <1>17, <1>18, <1>19, <1>20, <1>21, <1>24 DEF Programs

\* No open, ask or resumption writes: files keep what they have, and one may be added, empty.
LEMMA QuietKeepsBytes ==
    ASSUME BytesInv, UNCHANGED <<frames, stdout, captured, acked, strayed>>,
           ThisCall \/ UNCHANGED <<fileCalls, inside>>,
           files' \in Seq(File), Len(files') \in {Len(files), Len(files) + 1},
           \A i \in 1 .. Len(files) : files'[i].got = files[i].got,
           Len(files') = Len(files) + 1 => files'[Len(files) + 1].got = <<>>
    PROVE  BytesInv'
<1>1. frames \in Seq(Frame) /\ Len(frames) \in Nat /\ strayed \subseteq {"recv"}
  BY DEF BytesInv, BytesType, NeverTheTerminal
<1>2. \/ UNCHANGED <<fileCalls, inside>>
      \/ fileCalls' = fileCalls + 1 /\ inside' \in {inside, inside \cup {fileCalls + 1}}
  BY DEF ThisCall
<1>3. Steady  BY <1>1, <1>2 DEF Steady
<1>. QED  BY <1>3, SteadyKeepsBytes

\* The call that an open adds is one of those its stage allows.
LEMMA OpeningIsStill ==
    ASSUME DiskInv, ThisCall, OpenUnchanged, NEW s \in Streams, NEW name \in Paths \cup {""},
           NEW stage \in {"closing", "open"}, Opening(s, name, stage), UNCHANGED unsaid,
           stage = "open" => name \in Paths /\ Needs(s) \in grants
    PROVE  DiskInv'
<1> DEFINE b == [call |-> fileCalls + 1, op |-> s, name |-> name, to |-> "", stage |-> stage]
<1>1. fileCalls' \in 0 .. FileCalls /\ fileCalls + 1 \in 1 .. FileCalls
  <2>1. fileCalls' \in 0 .. FileCalls  BY CallsCount
  <2>2. fileCalls' = fileCalls + 1 /\ fileCalls \in 0 .. FileCalls  BY DEF ThisCall, DiskInv
  <2>3. FileCalls \in Nat  BY FilesAssumption
  <2>4. fileCalls + 1 \in 0 .. FileCalls  BY <2>1, <2>2, Zenon
  <2>. QED  BY <2>1, <2>2, <2>3, <2>4, NextCall, Zenon
<1>2. b \in OpenCall  BY <1>1 DEF OpenCall, Stages
<1>3. b.op = s /\ b.stage = stage /\ b.name = name  OBVIOUS
<1>4. s \notin Changes  BY DEF Streams, Changes
<1>5. opening' = opening \cup {b}  BY DEF Opening
<1> HIDE DEF b
<1>6. Granted(b)  BY <1>3, <1>4 DEF Granted
<1>7. Still  BY <1>1, <1>2, <1>5, <1>6 DEF Still, OpenUnchanged, DiskInv
<1>. QED  BY <1>7, StillKeepsDisk

\* An open that adds no call.
LEMMA NoOpeningIsStill ==
    ASSUME DiskInv, ThisCall, OpenUnchanged, UNCHANGED opening,
           unsaid' = unsaid \/ Refused(FALSE) \/ (world = "browser" /\ Refused(TRUE))
    PROVE  DiskInv'
<1>1. fileCalls' \in 0 .. FileCalls  BY CallsCount
<1>2. CASE unsaid' = unsaid \/ world = "browser"
  <2>1. Still  BY <1>1, <1>2 DEF Still, OpenUnchanged, DiskInv
  <2>. QED  BY <2>1, StillKeepsDisk
<1>3. CASE Refused(FALSE) /\ world # "browser"
  <2>1. world' = world /\ ~unsaid  BY <1>3 DEF DiskInv, RefusalIsSaid, OpenUnchanged
  <2>2. ~unsaid'  BY <1>3, <2>1, Zenon DEF Refused, ChangeOf
  <2>3. RefusalIsSaid'  BY <2>2 DEF RefusalIsSaid
  <2>. QED  BY <1>1, <2>3 DEF DiskInv, OpenUnchanged, Granted, MkdirOnce
<1>. QED  BY <1>2, <1>3

\* The opens and closes of the streams keep it.
LEMMA OpensStep == ASSUME FInv, Opens PROVE FInv'
<1>0. BytesType /\ BytesInv /\ DiskInv /\ StreamInv  BY DEF FInv, BytesInv
<1>8. /\ files \in Seq(File) /\ Len(files) \in Nat /\ DOMAIN files = 1 .. Len(files)
      /\ 0 \notin DOMAIN files /\ [j \in DOMAIN files |-> files[j]] = files
  BY <1>0 DEF BytesType
<1>1. ASSUME NEW s \in Streams, NEW name \in Paths \cup {""}, ThisCall, OpenUnchanged,
             files' = CloseFile(Held(s)) \/ UNCHANGED files
      PROVE  BytesInv'
  <2>1. CASE files' = CloseFile(Held(s))
    <3>1. PICK h : h = Held(s)  OBVIOUS
    <3>2. /\ files' \in Seq(File) /\ Len(files') = Len(files)
          /\ \A i \in DOMAIN files : files'[i].got = files[i].got
      BY <1>0, <2>1, <3>1, CloseFileIs, Zenon
    <3>3. \A i \in 1 .. Len(files) : files'[i].got = files[i].got  BY <1>8, <3>2, Zenon
    <3>4. Len(files') # Len(files) + 1 /\ Len(files') \in {Len(files), Len(files) + 1}
      BY <1>8, <3>2, SameLength, Zenon
    <3>. QED  BY <1>0, <1>1, <3>2, <3>3, <3>4, QuietKeepsBytes DEF OpenUnchanged
  <2>2. CASE UNCHANGED files
    <3>1. /\ files' \in Seq(File) /\ Len(files') = Len(files)
          /\ \A i \in 1 .. Len(files) : files'[i].got = files[i].got
      BY <1>8, <2>2, Zenon
    <3>2. Len(files') # Len(files) + 1 /\ Len(files') \in {Len(files), Len(files) + 1}
      BY <1>8, <3>1, SameLength, Zenon
    <3>. QED  BY <1>0, <1>1, <3>1, <3>2, QuietKeepsBytes DEF OpenUnchanged
  <2>. QED  BY <1>1, <2>1, <2>2
<1>2. ASSUME NEW s \in Streams, NEW name \in Paths \cup {""}, ThisCall, OpenUnchanged,
             files' = CloseFile(Held(s)), Hold(s, 0),
             \/ name \in Paths /\ Needs(s) \in grants /\ Opening(s, name, "open") /\ UNCHANGED unsaid
             \/ name \in Paths /\ Needs(s) \notin grants /\ Refused(FALSE) /\ UNCHANGED <<opening, overlapped>>
             \/ name \notin Paths /\ UNCHANGED <<opening, overlapped, unsaid>>
      PROVE  FInv'
  <2>1. BytesInv'  BY <1>1, <1>2
  <2>2. DiskInv'  BY <1>0, <1>2, OpeningIsStill, NoOpeningIsStill
  <2>3. LetsGo(s)  BY <1>2, OpeningIs DEF LetsGo
  <2>. QED  BY <1>0, <2>1, <2>2, <2>3, LetsGoKeepsStreams DEF FInv
<1>3. PICK name \in Paths \cup {""} :
        \/ \E s \in Streams : DenoOpen(s, name) \/ NodeOpen(s, name)
        \/ BrowserOpenInput(name) \/ BrowserOpenOutput(name)
  BY DEF Opens
<1>4. ASSUME NEW s \in Streams, DenoOpen(s, name) PROVE FInv'
  BY <1>2, <1>4 DEF DenoOpen
<1>5. ASSUME NEW s \in Streams, NodeOpen(s, name) PROVE FInv'
  <2>1. BytesInv'  BY <1>1, <1>5 DEF NodeOpen
  <2>2. DiskInv'  BY <1>0, <1>5, OpeningIsStill DEF NodeOpen
  <2>3. StreamInv'  BY <1>0, <1>5, OpeningIs, ClosingKeepsStreams DEF NodeOpen
  <2>. QED  BY <2>1, <2>2, <2>3 DEF FInv
<1>6. CASE BrowserOpenInput(name)
  <2>1. "in" \in Streams /\ Held("in") = source /\ Needs("in") = "read"  BY DEF Streams, Held, Needs
  <2>. QED  BY <1>2, <1>6, <2>1 DEF BrowserOpenInput
<1>7. CASE BrowserOpenOutput(name)
  <2>0. "out" \in Streams /\ Held("out") = sink /\ Needs("out") = "write"  BY DEF Streams, Held, Needs
  <2>1. CASE sink # 0 /\ files' = CloseFile(sink) /\ Opening("out", name, "closing") /\ UNCHANGED unsaid
    <3>1. BytesInv'  BY <1>1, <1>7, <2>0, <2>1 DEF BrowserOpenOutput
    <3>2. DiskInv'  BY <1>0, <1>7, <2>0, <2>1, OpeningIsStill DEF BrowserOpenOutput
    <3>3. Begun("out", "closing")  BY <2>1, OpeningIs
    <3>4. StreamInv'  BY <1>0, <1>7, <2>0, <2>1, <3>3, ClosingKeepsStreams DEF BrowserOpenOutput
    <3>. QED  BY <3>1, <3>2, <3>4 DEF FInv
  <2>2. CASE sink = 0 /\ UNCHANGED files
    <3>1. BytesInv'  BY <1>1, <1>7, <2>0, <2>2 DEF BrowserOpenOutput
    <3>2. CASE name \in Paths /\ "write" \in grants /\ Opening("out", name, "open") /\ UNCHANGED unsaid
      <4>1. DiskInv'  BY <1>0, <1>7, <2>0, <3>2, OpeningIsStill DEF BrowserOpenOutput
      <4>2. files' = CloseFile(Held("out"))
        <5>2. [j \in DOMAIN files |-> IF j = 0 THEN [files[j] EXCEPT !.open = FALSE] ELSE files[j]]
              = [j \in DOMAIN files |-> files[j]]
          BY <1>8
        <5>3. CloseFile(0) = files  BY <1>8, <5>2, Zenon DEF CloseFile
        <5>. QED  BY <2>0, <2>2, <5>3
      <4>3. Hold("out", 0)  BY <1>7, <2>2 DEF BrowserOpenOutput, Hold
      <4>4. LetsGo("out")  BY <3>2, <4>2, <4>3, OpeningIs DEF LetsGo
      <4>. QED  BY <1>0, <2>0, <3>1, <4>1, <4>4, LetsGoKeepsStreams DEF FInv
    <3>3. CASE UNCHANGED <<opening, overlapped>> /\ (unsaid' = unsaid \/ Refused(TRUE))
      <4>1. DiskInv'  BY <1>0, <1>7, <3>3, NoOpeningIsStill DEF BrowserOpenOutput
      <4>2. StreamsStay  BY <1>7, <2>2, <3>3 DEF BrowserOpenOutput, StreamsStay
      <4>. QED  BY <1>0, <3>1, <4>1, <4>2, StayKeepsStreams DEF FInv
    <3>. QED  BY <1>7, <2>2, <3>2, <3>3 DEF BrowserOpenOutput
  <2>. QED  BY <1>7, <2>1, <2>2 DEF BrowserOpenOutput
<1>. QED  BY <1>3, <1>4, <1>5, <1>6, <1>7

\* The calls that change the disk keep it as they are asked.
LEMMA AsksStep == ASSUME FInv, Asks PROVE FInv'
<1>0. BytesType /\ BytesInv /\ DiskInv /\ StreamInv  BY DEF FInv, BytesInv
<1>1. PICK op \in Changes, name \in Paths, to \in Paths :
        DenoChange(op, name, to) \/ NodeChange(op, name, to) \/ BrowserChange(op, name, to)
  BY DEF Asks
<1>2. AskChange(op, name, to, "write" \in grants)
  BY <1>1 DEF DenoChange, NodeChange, BrowserChange
<1>3. BytesInv'
  <2>1. files \in Seq(File) /\ Len(files) \in Nat  BY <1>0 DEF BytesType
  <2>. QED  BY <1>0, <1>2, <2>1, QuietKeepsBytes DEF AskChange, OpenUnchanged, streamVars
<1>4. op \notin Streams  BY DEF Streams, Changes
<1>5. CASE "write" \in grants /\ Begin(op, name, to) /\ UNCHANGED unsaid
  <2> DEFINE b == [call |-> fileCalls + 1, op |-> op, name |-> name, to |-> to, stage |-> "work"]
  <2>1. fileCalls' \in 0 .. FileCalls /\ fileCalls + 1 \in 1 .. FileCalls
    <3>1. ThisCall  BY <1>2 DEF AskChange
    <3>2. fileCalls' \in 0 .. FileCalls  BY <1>0, <3>1, CallsCount
    <3>3. fileCalls' = fileCalls + 1 /\ fileCalls \in 0 .. FileCalls  BY <1>0, <3>1 DEF ThisCall, DiskInv
    <3>. QED  BY <3>2, <3>3
  <2>2. b \in OpenCall  BY <2>1 DEF OpenCall, Stages
  <2>3. b.op = op /\ b.name = name /\ b.to = to /\ b.stage = "work"  OBVIOUS
  <2>4. opening' = opening \cup {b}  BY <1>5 DEF Begin
  <2> HIDE DEF b
  <2>5. Granted(b)  BY <1>4, <1>5, <2>3 DEF Granted
  <2>6. Still  BY <1>0, <1>2, <1>5, <2>1, <2>2, <2>4, <2>5 DEF Still, AskChange, OpenUnchanged, DiskInv
  <2>7. StreamsStay  BY <1>2, <1>4, <2>3, <2>4 DEF StreamsStay, AskChange, streamVars
  <2>. QED  BY <1>0, <1>3, <2>6, <2>7, StillKeepsDisk, StayKeepsStreams DEF FInv
<1>6. CASE Refused(FALSE) /\ UNCHANGED opening
  <2>1. DiskInv'  BY <1>0, <1>2, <1>6, NoOpeningIsStill DEF AskChange
  <2>2. StreamsStay  BY <1>2, <1>6 DEF StreamsStay, AskChange, streamVars
  <2>. QED  BY <1>0, <1>3, <2>1, <2>2, StayKeepsStreams DEF FInv
<1>. QED  BY <1>2, <1>5, <1>6 DEF AskChange

\* A call that resumes after its await keeps it.
LEMMA ResumesStep == ASSUME FInv, NEW o \in opening, Resumes(o) PROVE FInv'
<1>0. BytesType /\ BytesInv /\ DiskInv /\ StreamInv  BY DEF FInv, BytesInv
<1>1. files \in Seq(File) /\ Len(files) \in Nat  BY <1>0 DEF BytesType
<1>2. o \in OpenCall /\ Granted(o)  BY <1>0 DEF DiskInv
<1>3. Streams \cap Changes = {}  BY DEF Streams, Changes
<1>4. ASSUME NEW stage \in Stages
      PROVE  /\ [o EXCEPT !.stage = stage] \in OpenCall
             /\ [o EXCEPT !.stage = stage].op = o.op /\ [o EXCEPT !.stage = stage].stage = stage
             /\ [o EXCEPT !.stage = stage].name = o.name /\ [o EXCEPT !.stage = stage].to = o.to
  BY <1>2 DEF OpenCall
<1>5. ASSUME UNCHANGED <<files, frames, stdout, captured, acked, strayed, fileCalls, inside>> PROVE BytesInv'
  <2>1. /\ files' \in Seq(File) /\ Len(files') = Len(files)
        /\ \A i \in 1 .. Len(files) : files'[i].got = files[i].got
    BY <1>1, <1>5, Zenon
  <2>2. Len(files') # Len(files) + 1 /\ Len(files') \in {Len(files), Len(files) + 1}  BY <1>1, <2>1
  <2>. QED  BY <1>0, <1>5, <2>1, <2>2, QuietKeepsBytes
<1>6. CASE NodeClosed(o) \/ BrowserClosed(o)
  <2>1. /\ o.stage = "closing" /\ OpenUnchanged /\ Hold(o.op, 0)
        /\ UNCHANGED <<files, overlapped, inside, fileCalls>>
    BY <1>6 DEF NodeClosed, BrowserClosed
  <2>2. BytesInv'  BY <1>5, <2>1 DEF OpenUnchanged
  <2>3. \/ o.name \in Paths /\ Needs(o.op) \in grants /\ Advance(o, "open") /\ UNCHANGED unsaid
        \/ opening' = opening \ {o} /\ (unsaid' = unsaid \/ Refused(FALSE) \/ (world = "browser" /\ Refused(TRUE)))
    BY <1>6 DEF NodeClosed, BrowserClosed, Needs
  <2>4. DiskInv'
    <3>1. outputFailure' \in Reasons /\ fileCalls' \in 0 .. FileCalls
      BY <1>0, <2>1 DEF DiskInv, OpenUnchanged
    <3>2. CASE Advance(o, "open") /\ UNCHANGED unsaid /\ o.name \in Paths /\ Needs(o.op) \in grants
      <4> DEFINE b == [o EXCEPT !.stage = "open"]
      <4>1. b \in OpenCall /\ b.op = o.op /\ b.stage = "open" /\ b.name = o.name /\ b.to = o.to
        BY <1>4 DEF Stages
      <4>2. opening' = (opening \ {o}) \cup {b}  BY <3>2 DEF Advance
      <4> HIDE DEF b
      <4>3. Granted(b)  BY <1>2, <3>2, <4>1 DEF Granted
      <4>4. Still  BY <2>1, <3>1, <3>2, <4>1, <4>2, <4>3 DEF Still, OpenUnchanged
      <4>. QED  BY <1>0, <4>4, StillKeepsDisk
    <3>3. CASE opening' = opening \ {o} /\ (unsaid' = unsaid \/ world = "browser")
      <4>1. Still  BY <2>1, <3>1, <3>3 DEF Still, OpenUnchanged
      <4>. QED  BY <1>0, <4>1, StillKeepsDisk
    <3>4. CASE opening' = opening \ {o} /\ Refused(FALSE) /\ world # "browser"
      <4>1. ~unsaid  BY <1>0, <3>4 DEF DiskInv, RefusalIsSaid
      <4>2. ~unsaid'  BY <3>4, <4>1, Zenon DEF Refused, ChangeOf
      <4>3. RefusalIsSaid'  BY <4>2 DEF RefusalIsSaid
      <4>. QED  BY <1>0, <2>1, <3>1, <3>4, <4>3 DEF DiskInv, OpenUnchanged, Granted, MkdirOnce
    <3>. QED  BY <2>3, <3>2, <3>3, <3>4
  <2>5. o.op \in Streams => StreamInv'  BY <1>0, <2>1, <2>3, ClosedKeepsStreams
  <2>6. o.op \in Streams  BY <1>2, <2>1 DEF Granted
  <2>. QED  BY <2>2, <2>4, <2>5, <2>6 DEF FInv
<1>7. CASE o.op \in Streams /\ Opened(o)
  <2>0. PICK n \in Nat : n = Len(files)  BY <1>1
  <2>1. [name |-> o.name, mode |-> o.op, open |-> TRUE, got |-> <<>>] \in File
    BY <1>2, <1>7 DEF File, Granted, Opened
  <2>2. /\ files' \in Seq(File) /\ Len(files') = n + 1 /\ \A i \in 1 .. n : files'[i] = files[i]
        /\ files'[n + 1] = [name |-> o.name, mode |-> o.op, open |-> TRUE, got |-> <<>>]
    BY <1>1, <1>7, <2>0, <2>1 DEF Opened
  <2>3. BytesInv'
    <3>1. Len(files') \in {Len(files), Len(files) + 1} /\ files'[Len(files) + 1].got = <<>>
      BY <2>0, <2>2
    <3>2. \A i \in 1 .. Len(files) : files'[i].got = files[i].got  BY <2>0, <2>2
    <3>. QED  BY <1>0, <1>7, <2>2, <3>1, <3>2, QuietKeepsBytes DEF Opened, histVars
  <2>4. DiskInv'
    <3>1. o.name \in Paths /\ Needs(o.op) \in grants /\ o.call \in 1 .. FileCalls
      BY <1>2, <1>7 DEF Granted, Opened, OpenCall
    <3>2. \A q \in opening' : q \in opening  BY <1>7 DEF Opened
    <3>3. UNCHANGED <<world, grants, made, unsaid, outputFailure, fileCalls>>  BY <1>7 DEF Opened, histVars
    <3>4. /\ disk' \in [Paths -> Dir .. FileCalls]
          /\ \A n2 \in Paths : disk'[n2] # Dir => made[n2] = 0
      <4>1. CASE disk' = disk  BY <1>0, <4>1 DEF DiskInv
      <4>2. CASE disk' = [disk EXCEPT ![o.name] = o.call] /\ disk[o.name] # Dir
        <5>1. o.call \in Dir .. FileCalls  BY <3>1 DEF Dir
        <5>. QED  BY <1>0, <3>1, <4>2, <5>1 DEF DiskInv
      <4>. QED  BY <1>7, <4>1, <4>2 DEF Opened
    <3>. QED  BY <1>0, <3>2, <3>3, <3>4 DEF DiskInv, Granted, MkdirOnce, RefusalIsSaid
  <2>. QED  BY <1>0, <1>7, <2>3, <2>4, OpenedKeepsStreams DEF FInv
<1>8. CASE Unopened(o)
  <2>1. BytesInv'  BY <1>5, <1>8 DEF Unopened, streamVars, histVars
  <2>2. Still  BY <1>0, <1>8 DEF Unopened, Still, DiskInv, histVars
  <2>3. StreamsStay  BY <1>8 DEF Unopened, StreamsStay, streamVars, histVars
  <2>. QED  BY <1>0, <2>1, <2>2, <2>3, StillKeepsDisk, StayKeepsStreams DEF FInv
<1>9. ASSUME ChangeUnchanged, o.op \in Changes, DiskInv',
             \A q \in opening' : q \in opening \/ q.op = o.op
      PROVE  FInv'
  <2>1. BytesInv'  BY <1>5, <1>9 DEF ChangeUnchanged, streamVars
  <2>2. StreamsStay  BY <1>3, <1>9 DEF StreamsStay, ChangeUnchanged, streamVars
  <2>. QED  BY <1>0, <1>9, <2>1, <2>2, StayKeepsStreams DEF FInv
<1>10. ASSUME ChangeUnchanged, UNCHANGED <<disk, made>>,
              \A q \in opening' : q \in opening \/ (q \in OpenCall /\ Granted(q))
       PROVE  DiskInv'
  <2>1. Still  BY <1>0, <1>10 DEF Still, ChangeUnchanged, DiskInv
  <2>. QED  BY <1>0, <2>1, StillKeepsDisk
<1>11. ASSUME ChangeUnchanged, o.op \in Changes, opening' = opening \ {o},
              \/ WriteFile(o) \/ Mkdir(o) \/ Remove(o) \/ Rename(o)
              \/ UNCHANGED <<disk, made>>
       PROVE  FInv'
  <2>1. DiskInv'  BY <1>0, <1>10, <1>11, EffectKeepsDisk
  <2>. QED  BY <1>9, <1>11, <2>1
<1>12. CASE DenoChanged(o) \/ NodeChanged(o) \/ BrowserChanged(o)
  BY <1>11, <1>12 DEF DenoChanged, NodeChanged, BrowserChanged, Lands
<1>13. ASSUME o.op \in Changes, NEW stage \in {"make", "delete"}
       PROVE  /\ [o EXCEPT !.stage = stage] \in OpenCall /\ [o EXCEPT !.stage = stage].op = o.op
              /\ Granted([o EXCEPT !.stage = stage])
  <2> DEFINE b == [o EXCEPT !.stage = stage]
  <2>1. b \in OpenCall /\ b.op = o.op /\ b.name = o.name /\ b.to = o.to /\ b.stage = stage  BY <1>4 DEF Stages
  <2> HIDE DEF b
  <2>2. Granted(b)  BY <1>2, <1>3, <1>13, <2>1 DEF Granted
  <2>. QED  BY <2>1, <2>2 DEF b
<1>14. /\ o.op \in Changes => o.name \in Paths /\ o.to \in Paths
       /\ disk \in [Paths -> Dir .. FileCalls] /\ Dir \in Dir .. FileCalls /\ Absent \in Dir .. FileCalls
       /\ "" \notin Paths
  <2>1. FileCalls \in Nat /\ "" \notin Paths  BY FilesAssumption
  <2>2. Dir \in Dir .. FileCalls /\ Absent \in Dir .. FileCalls  BY DiskValues
  <2>. QED  BY <1>0, <1>2, <2>1, <2>2 DEF Granted, DiskInv
<1>15. CASE BrowserMkdirLook(o)
  <2>1. o.op \in Changes /\ ChangeUnchanged /\ UNCHANGED <<disk, made>>
    BY <1>15 DEF BrowserMkdirLook, Changes
  <2>2. CASE Advance(o, "make")
    <3>1. \A q \in opening' : q \in opening \/ (q \in OpenCall /\ Granted(q) /\ q.op = o.op)
      BY <1>13, <2>1, <2>2 DEF Advance
    <3>2. DiskInv'  BY <1>10, <2>1, <3>1
    <3>. QED  BY <1>9, <2>1, <3>1, <3>2
  <2>3. CASE opening' = opening \ {o}  BY <1>11, <2>1, <2>3
  <2>. QED  BY <1>15, <2>2, <2>3 DEF BrowserMkdirLook
<1>16. CASE BrowserMkdirMake(o)
  <2>1. o.op \in Changes /\ ChangeUnchanged /\ opening' = opening \ {o} /\ world = "browser"
    BY <1>16 DEF BrowserMkdirMake, Changes
  <2>2. CASE UNCHANGED <<disk, made>>  BY <1>11, <2>1, <2>2
  <2>3. CASE Onto([disk EXCEPT ![o.name] = Dir], o.name)
    <3>1. [disk EXCEPT ![o.name] = Dir] \in [Paths -> Dir .. FileCalls]  BY <1>14
    <3>2. DiskInv'  BY <1>0, <2>1, <2>3, <3>1, OntoKeepsDisk
    <3>. QED  BY <1>9, <2>1, <3>2
  <2>. QED  BY <1>16, <2>2, <2>3 DEF BrowserMkdirMake
<1>17. CASE BrowserRenameCopy(o)
  <2>1. o.op \in Changes /\ ChangeUnchanged /\ world = "browser"  BY <1>17 DEF BrowserRenameCopy, Changes
  <2>2. CASE opening' = opening \ {o} /\ UNCHANGED <<disk, made>>  BY <1>11, <2>1, <2>2
  <2>3. CASE Advance(o, "delete") /\ Onto([disk EXCEPT ![o.to] = disk[o.name]], "")
    <3>1. [disk EXCEPT ![o.to] = disk[o.name]] \in [Paths -> Dir .. FileCalls]  BY <1>14, <2>1
    <3>2. \A q \in opening' : q \in opening \/ (q \in OpenCall /\ Granted(q) /\ q.op = o.op)
      BY <1>13, <2>1, <2>3 DEF Advance
    <3>3. DiskInv'  BY <1>0, <2>1, <2>3, <3>1, <3>2, OntoKeepsDisk
    <3>. QED  BY <1>9, <2>1, <3>2, <3>3
  <2>. QED  BY <1>17, <2>2, <2>3 DEF BrowserRenameCopy
<1>18. CASE BrowserRenameDelete(o)
  <2>1. o.op \in Changes /\ ChangeUnchanged /\ opening' = opening \ {o} /\ world = "browser"
        /\ Onto([disk EXCEPT ![o.name] = Absent], "")
    BY <1>18 DEF BrowserRenameDelete, Changes
  <2>2. [disk EXCEPT ![o.name] = Absent] \in [Paths -> Dir .. FileCalls]  BY <1>14
  <2>3. DiskInv'  BY <1>0, <2>1, <2>2, OntoKeepsDisk
  <2>. QED  BY <1>9, <2>1, <2>3
<1>19. CASE DenoOpened(o) \/ NodeOpened(o) \/ BrowserOpened(o)
  BY <1>7, <1>8, <1>19 DEF DenoOpened, NodeOpened, BrowserOpened
<1>. QED  BY <1>6, <1>12, <1>15, <1>16, <1>17, <1>18, <1>19 DEF Resumes

\* Every step of a world keeps it.
LEMMA FilesStep == ASSUME FInv, [FNext]_fVars PROVE FInv'
<1>1. CASE UNCHANGED fVars
  <2>1. Programs \/ UNCHANGED fVars  BY <1>1
  <2>2. world \in Worlds  BY DEF FInv, DiskInv
  <2>3. Programs  BY <1>1, <2>2 DEF Programs, DenoWarn, NodeWarn, BrowserWarn, Warn, Worlds
  <2>. QED  BY <2>3, ProgramsStep
<1>2. CASE FNext  BY <1>2, ProgramsStep, OpensStep, AsksStep, ResumesStep DEF FNext
<1>. QED  BY <1>1, <1>2

\* A world that was not granted writing leaves the disk alone.
LEMMA DiskNeedsGrant == ASSUME FInv, [FNext]_fVars PROVE "write" \notin grants => UNCHANGED disk
<1>1. SUFFICES ASSUME "write" \notin grants, FNext PROVE disk' = disk  BY DEF fVars
<1>2. CASE Programs
  BY <1>2 DEF Programs, DenoPush, NodePush, BrowserPush, Push, Pop, DenoLog, NodeLog, BrowserLog, Log,
     DenoWarn, NodeWarn, BrowserWarn, Warn, DenoWrite, NodeWrite, NodeWriteShort, BrowserWrite, WriteUnchanged,
     DenoWriteErr, NodeWriteErr, BrowserWriteErr, Complain, DenoReadChunk, NodeReadChunk, BrowserReadChunk, Reads,
     DenoReadStdin, NodeReadStdin, BrowserReadStdin, ReadAll, ReadUnchanged,
     DenoRecvInput, NodeRecvInput, BrowserRecvInput, RecvStdin, RecvAnswers, DenoReadFile, NodeReadFile, BrowserReadFile,
     DenoStat, NodeStat, BrowserStat, DenoClock, NodeClock, BrowserClock, Look, fVars
<1>3. CASE Opens
  BY <1>3 DEF Opens, DenoOpen, NodeOpen, BrowserOpenInput, BrowserOpenOutput, OpenUnchanged
<1>4. CASE Asks
  BY <1>4 DEF Asks, DenoChange, NodeChange, BrowserChange, AskChange, OpenUnchanged
<1>5. ASSUME NEW o \in opening, Resumes(o) PROVE disk' = disk
  <2>1. Granted(o) /\ o \in OpenCall  BY DEF FInv, DiskInv
  <2>2. o.op \notin Changes  BY <1>1, <2>1 DEF Granted
  <2>3. o.op = "out" => o.stage # "open"  BY <1>1, <2>1 DEF Granted, Needs, Streams
  <2>. QED
    BY <1>5, <2>2, <2>3 DEF Resumes, NodeClosed, BrowserClosed, OpenUnchanged, DenoOpened, NodeOpened, BrowserOpened,
       Opened, Unopened, DenoChanged, NodeChanged, BrowserChanged, Lands, BrowserMkdirLook, BrowserMkdirMake,
       BrowserRenameCopy, BrowserRenameDelete, Changes
<1>. QED  BY <1>1, <1>2, <1>3, <1>4, <1>5 DEF FNext

\* The parts together hold in every state of every execution.
THEOREM FilesInvariance == FSpec => []FInv
<1>1. FInit => FInv  BY FilesBegin
<1>2. FInv /\ [FNext]_fVars => FInv'  BY FilesStep
<1>. QED  BY <1>1, <1>2, PTL DEF FSpec

\* Where the file system takes a write whole, every byte a call was told is written is in exactly
\* one place (the terminal, a capture, a file or an outer frame's buffer), in the order of the
\* calls, what was written inside a capture is never on the terminal, and the only operation that
\* gives a pushed program the host's standard input is RECV(0): for any number of files,
\* captures and calls (READ_CHUNK, READ_STDIN, RECV(0), the WRITE handlers, PUSH_OUT and POP_OUT, and the file streams of
\* the hosts).
THEOREM BytesStayInOnePlace == ASSUME ~ShortWrites PROVE FSpec => []BytesAreInOnePlace
<1>1. ASSUME FInv PROVE BytesAreInOnePlace
  <2>1. AcknowledgedIsWritten  BY <1>1, BoxedIsWritten DEF FInv, BytesInv
  <2>2. FTypeOK
    <3>1. \A n \in Paths : disk[n] \in Dir .. FileCalls /\ made[n] \in Nat  BY <1>1 DEF FInv, DiskInv
    <3>2. \A f \in opening : f.stage \in {"closing", "open", "work", "make", "delete"}
      BY <1>1 DEF FInv, DiskInv, OpenCall, Stages
    <3>. QED  BY <1>1, <3>1, <3>2 DEF FInv, DiskInv, StreamInv, FTypeOK
  <2>. QED  BY <1>1, <2>1, <2>2 DEF FInv, BytesInv, BytesAreInOnePlace
<1>. QED  BY <1>1, FilesInvariance, PTL

\* With or without short writes: no file is left open that no stream holds unless two opens of
\* one stream were in flight, mkdir makes a directory once, a refused call is told so, and without
\* the write grant no step of any call touches the disk.
THEOREM FilesAreSafe == FSpec => FilesAreAccounted
<1>1. FInv => NoFileLeftOpen /\ MkdirOnce /\ RefusalIsSaid
  BY DEF FInv, DiskInv, StreamInv, NoneDangle, NoFileLeftOpen
<1>2. FInv /\ [FNext]_fVars => [("write" \notin grants) => UNCHANGED disk]_fVars  BY DiskNeedsGrant
<1>. QED  BY <1>1, <1>2, FilesInvariance, PTL DEF FSpec, FilesAreAccounted, UngrantedTouchesNothing

-----------------------------------------------------------------------------
(* Family *)

\* A world as startChild records it.
World == [parent : Nat, grants : SUBSET Grants, inherit : BOOLEAN, option : Int]

\* What startChild decides, world by world.
Local(i) ==
    LET w == family[i] IN
    /\ w.parent < i
    /\ w.parent # 0 => w.grants \subseteq family[w.parent].grants
    /\ w.option \in {Omitted} \cup 1 .. i
    /\ w.option > 0 => w.option = i \/ (w.inherit /\ w.parent # 0 /\ family[w.parent].option = w.option)
    /\ w.inherit => w.parent # 0 /\ (kin # "browser" => family[w.parent].option = w.option)

\* The inductive invariant: what each world was given was decided from its parent alone.
KInv == kin \in Kin /\ family \in Seq(World) /\ \A i \in 1 .. Len(family) : Local(i)

\* The first world was given what it has.
LEMMA FamilyBegins == ASSUME KInit PROVE KInv
<1>1. PICK g \in SUBSET Grants, option \in {Omitted, 1} :
        family = <<[parent |-> 0, grants |-> g, inherit |-> FALSE, option |-> option]>>
  BY DEF KInit
<1>2. Omitted \in Int /\ 0 \in Nat  BY DEF Omitted
<1>3. [parent |-> 0, grants |-> g, inherit |-> FALSE, option |-> option] \in World
  BY <1>2 DEF World
<1>4. family \in Seq(World) /\ Len(family) = 1
      /\ family[1] = [parent |-> 0, grants |-> g, inherit |-> FALSE, option |-> option]
  BY <1>1, <1>3
<1>5. Local(1)  BY <1>4 DEF Local, Omitted
<1>6. kin \in Kin  BY DEF KInit
<1>. QED  BY <1>4, <1>5, <1>6 DEF KInv

\* A child of p with what the three hosts may give it.
LEMMA ChildStep ==
    ASSUME KInv, UNCHANGED kin, NEW p \in DOMAIN family, NEW give \in SUBSET Grants, NEW inherit \in BOOLEAN,
           NEW option \in {Omitted, Own, family[p].option},
           give \subseteq family[p].grants,
           inherit => option # Own, ~inherit => option = Own,
           kin # "browser" /\ inherit => option = family[p].option,
           Child(p, give, inherit, option)
    PROVE  KInv'
<1>0. PICK L \in Nat : L = Len(family)  BY DEF KInv
<1> DEFINE w == [parent |-> p, grants |-> give, inherit |-> inherit, option |-> option]
<1>1. family \in Seq(World) /\ L \in Nat /\ p \in 1 .. L  BY <1>0 DEF KInv
<1>2. family[p] \in World  BY <1>1
<1>3. option \in Int /\ family[p].option \in Int /\ Own = L + 1
  BY <1>0, <1>1, <1>2 DEF World, Own, Omitted
<1>4. w \in World  BY <1>1, <1>3 DEF World
<1>5. /\ family' \in Seq(World) /\ Len(family') = L + 1 /\ family'[L + 1] = w
      /\ \A i \in 1 .. L : family'[i] = family[i]
  BY <1>0, <1>1, <1>4 DEF Child
<1>6. ASSUME NEW i \in 1 .. L PROVE Local(i)'
  <2>1. Local(i)  BY <1>0 DEF KInv
  <2>2. family[i] \in World  BY <1>0, <1>1
  <2>3. family[i].parent # 0 => family[i].parent \in 1 .. L  BY <2>1, <2>2, <1>1 DEF Local, World
  <2>4. family'[i] = family[i] /\ (family[i].parent # 0 => family'[family[i].parent] = family[family[i].parent])
    BY <1>5, <2>3
  <2>. QED  BY <2>1, <2>4 DEF Local
<1>7. Local(L + 1)'
  <2>1. family'[L + 1].parent = p /\ family'[p] = family[p] /\ p # 0 /\ p < L + 1  BY <1>1, <1>5
  <2>2. Local(p)  BY <1>0, <1>1 DEF KInv
  <2>3. family[p].option \in {Omitted} \cup 1 .. p  BY <2>2 DEF Local
  <2>4. option \in {Omitted} \cup 1 .. L + 1  BY <1>1, <1>3, <2>3
  <2>5. option > 0 => option = L + 1 \/ (inherit /\ family[p].option = option)
    BY <1>3 DEF Omitted
  <2>6. inherit /\ kin' # "browser" => family[p].option = option  OBVIOUS
  <2>7. /\ family'[L + 1].grants = give /\ family'[L + 1].option = option
        /\ family'[L + 1].inherit = inherit
    BY <1>5
  <2> HIDE DEF w
  <2>. QED  BY <2>1, <2>4, <2>5, <2>6, <2>7 DEF Local
<1>8. \A i \in 1 .. L + 1 : i \in 1 .. L \/ i = L + 1  BY <1>1
<1>9. \A i \in 1 .. L + 1 : Local(i)'  BY <1>6, <1>7, <1>8, Zenon
<1>10. kin' \in Kin  BY DEF KInv
<1>. QED  BY <1>5, <1>9, <1>10 DEF KInv

\* Every spawn decides the new world from its parent and leaves the others alone.
LEMMA FamilyStep == ASSUME KInv, [KNext]_kVars PROVE KInv'
<1>1. CASE UNCHANGED kVars  BY <1>1 DEF kVars, KInv, Local
<1>2. CASE KNext
  <2>1. PICK p \in DOMAIN family, wanted \in SUBSET Grants, inherit \in BOOLEAN :
          DenoSpawnChild(p, wanted, inherit) \/ NodeSpawnChild(p, wanted, inherit)
          \/ BrowserSpawnChild(p, wanted, inherit)
    BY <1>2 DEF KNext
  <2>2. UNCHANGED kin  BY <1>2 DEF KNext
  <2>3. family \in Seq(World) /\ p \in 1 .. Len(family) /\ family[p] \in World /\ Local(p)
    BY DEF KInv
  <2>4. family[p].option # Own /\ Omitted # Own  BY <2>3 DEF Local, Own, Omitted
  <2>5. CASE DenoSpawnChild(p, wanted, inherit)
    BY <2>5, <2>2, <2>4, ChildStep DEF DenoSpawnChild, DenoGive, DenoInput
  <2>6. CASE NodeSpawnChild(p, wanted, inherit)
    BY <2>6, <2>2, <2>4, ChildStep DEF NodeSpawnChild, NodeGive, NodeInput
  <2>7. CASE BrowserSpawnChild(p, wanted, inherit)
    <3>1. BrowserGive(p, wanted) \in SUBSET Grants /\ BrowserGive(p, wanted) \subseteq family[p].grants
      BY DEF BrowserGive, Grants
    <3>. QED  BY <2>7, <2>2, <2>4, <3>1, ChildStep DEF BrowserSpawnChild, BrowserInput
  <2>. QED  BY <2>1, <2>5, <2>6, <2>7
<1>. QED  BY <1>1, <1>2

-----------------------------------------------------------------------------
\* The recursion behind Ancestor has an answer: worlds come after their parents.
LEMMA LineExists ==
    ASSUME KInv
    PROVE  \E up : up = [k \in 0 .. Len(family) |-> IF k = 0 THEN {} ELSE {k} \cup up[family[k].parent]]
<1> DEFINE L == Len(family)
           Good(n, up) == up = [k \in 0 .. n |-> IF k = 0 THEN {} ELSE {k} \cup up[family[k].parent]]
           S == {n \in Nat : n <= L => \E up : Good(n, up)}
<1>0. /\ family \in Seq(World) /\ L \in Nat
      /\ \A k \in 1 .. L : family[k].parent \in 0 .. k - 1
  <2>1. family \in Seq(World) /\ L \in Nat  BY DEF KInv
  <2>2. \A k \in 1 .. L : family[k] \in World /\ family[k].parent < k  BY <2>1 DEF KInv, Local
  <2>. QED  BY <2>1, <2>2 DEF World
<1>1. 0 \in S
  <2>1. Good(0, [k \in 0 .. 0 |-> {}])  OBVIOUS
  <2>. QED  BY <2>1
<1>2. ASSUME NEW n \in Nat, n \in S PROVE n + 1 \in S
  <2>1. SUFFICES ASSUME n + 1 <= L PROVE \E up : Good(n + 1, up)  OBVIOUS
  <2>2. PICK f : Good(n, f)  BY <1>2, <1>0, <2>1
  <2> DEFINE g == [k \in 0 .. n + 1 |-> IF k = n + 1 THEN {n + 1} \cup f[family[n + 1].parent] ELSE f[k]]
  <2>5. \A k \in 0 .. n : f[k] = IF k = 0 THEN {} ELSE {k} \cup f[family[k].parent]
    <3>1. \A h : \A k \in 0 .. n :
            [j \in 0 .. n |-> IF j = 0 THEN {} ELSE {j} \cup h[family[j].parent]][k]
            = IF k = 0 THEN {} ELSE {k} \cup h[family[k].parent]
      OBVIOUS
    <3>. QED  BY <2>2, <3>1, Zenon
  <2>3. ASSUME NEW k \in 0 .. n + 1
        PROVE  g[k] = IF k = 0 THEN {} ELSE {k} \cup g[family[k].parent]
    <3>1. CASE k = n + 1
      <4>1. family[k].parent \in 0 .. n  BY <1>0, <2>1, <3>1
      <4>2. g[family[k].parent] = f[family[k].parent]  BY <4>1
      <4>3. g[k] = {k} \cup f[family[k].parent]  BY <3>1
      <4>4. k # 0  BY <3>1
      <4> HIDE DEF g
      <4>. QED  BY <4>2, <4>3, <4>4, Zenon
    <3>2. CASE k # n + 1 /\ k # 0
      <4>1. k \in 1 .. n /\ k \in 1 .. L  BY <1>0, <2>1, <3>2
      <4>2. family[k].parent \in 0 .. n  BY <1>0, <4>1
      <4>3. g[family[k].parent] = f[family[k].parent] /\ g[k] = f[k]  BY <4>1, <4>2
      <4>4. f[k] = {k} \cup f[family[k].parent]
        <5>1. k \in 0 .. n /\ k # 0  BY <4>1
        <5>. QED  BY <2>5, <5>1, Zenon
      <4> HIDE DEF g
      <4>. QED  BY <3>2, <4>3, <4>4, Zenon
    <3>3. CASE k = 0
      <4>1. g[0] = f[0] /\ 0 \in 0 .. n  OBVIOUS
      <4> HIDE DEF g
      <4>. QED  BY <2>5, <3>3, <4>1, Zenon
    <3>. QED  BY <3>1, <3>2, <3>3
  <2>4. Good(n + 1, g)
    <3>1. [k \in 0 .. n + 1 |-> g[k]] = [k \in 0 .. n + 1 |-> IF k = 0 THEN {} ELSE {k} \cup g[family[k].parent]]
      <4> HIDE DEF g
      <4>. QED  BY <2>3
    <3>. QED  BY <3>1
  <2>. QED  BY <2>4
<1>3. L \in S
  <2> HIDE DEF S
  <2>. QED  BY <1>0, <1>1, <1>2, SetInduction
<1>. QED  BY <1>0, <1>3

\* A world's ancestors are its parent and that one's, and came before it.
LEMMA AncestorIs ==
    ASSUME KInv, NEW i \in 1 .. Len(family)
    PROVE  LET p == family[i].parent IN
           /\ p \in 0 .. i - 1
           /\ p = 0 => \A a : ~Ancestor(a, i)
           /\ p # 0 => \A a : Ancestor(a, i) <=> a = p \/ Ancestor(a, p)
<1> DEFINE L == Len(family)
           up == CHOOSE f : f = [k \in 0 .. L |-> IF k = 0 THEN {} ELSE {k} \cup f[family[k].parent]]
<1>1. up = [k \in 0 .. L |-> IF k = 0 THEN {} ELSE {k} \cup up[family[k].parent]]
  <2>1. PICK g : g = [k \in 0 .. L |-> IF k = 0 THEN {} ELSE {k} \cup g[family[k].parent]]
    BY LineExists
  <2>. QED  BY <2>1, Zenon
<1>2. \A a, j : Ancestor(a, j) <=> a \in up[family[j].parent]  BY DEF Ancestor
<1>3. family \in Seq(World) /\ L \in Nat /\ family[i] \in World /\ family[i].parent < i
  BY DEF KInv, Local
<1>4. family[i].parent \in 0 .. i - 1 /\ family[i].parent \in 0 .. L  BY <1>3 DEF World
<1> HIDE DEF up
<1>5. up[0] = {}  BY <1>1, <1>3
<1>6. \A k \in 1 .. L : up[k] = {k} \cup up[family[k].parent]
  <2>1. \A h : \A k \in 1 .. L :
          [j \in 0 .. L |-> IF j = 0 THEN {} ELSE {j} \cup h[family[j].parent]][k]
          = {k} \cup h[family[k].parent]
    BY <1>3
  <2>. QED  BY <1>1, <2>1, Zenon
<1>. QED  BY <1>2, <1>3, <1>4, <1>5, <1>6

\* The worlds above a world were made before it.
LEMMA AncestorsAreBefore ==
    ASSUME KInv
    PROVE  \A i \in 1 .. Len(family) : \A a : Ancestor(a, i) => a \in 1 .. i - 1
<1> DEFINE L == Len(family)
           S == {i \in 1 .. L : \E a : Ancestor(a, i) /\ a \notin 1 .. i - 1}
<1>0. L \in Nat  BY DEF KInv
<1>1. SUFFICES ASSUME S # {} PROVE FALSE  OBVIOUS
<1>2. PICK i \in S : \A j \in S : i <= j
  <2>1. S \in SUBSET Nat  BY <1>0
  <2> HIDE DEF S
  <2>. QED  BY <1>1, <2>1, LeastOne
<1>3. PICK a : Ancestor(a, i) /\ a \notin 1 .. i - 1  BY <1>2
<1> DEFINE p == family[i].parent
<1>4. p \in 1 .. i - 1 /\ (a = p \/ Ancestor(a, p))  BY <1>0, <1>2, <1>3, AncestorIs
<1>5. p \notin S /\ p \in 1 .. L  BY <1>0, <1>2, <1>4
<1>. QED  BY <1>0, <1>2, <1>3, <1>4, <1>5

\* Down every line of descent the grants only shrink.
LEMMA AuthorityShrinks == ASSUME KInv PROVE AuthorityOnlyShrinks
<1> DEFINE L == Len(family)
           S == {i \in 1 .. L : \E a : Ancestor(a, i) /\ ~(family[i].grants \subseteq family[a].grants)}
<1>0. L \in Nat /\ DOMAIN family = 1 .. L  BY DEF KInv
<1>1. SUFFICES ASSUME S # {} PROVE FALSE  BY <1>0 DEF AuthorityOnlyShrinks
<1>2. PICK i \in S : \A j \in S : i <= j
  <2>1. S \in SUBSET Nat  BY <1>0
  <2> HIDE DEF S
  <2>. QED  BY <1>1, <2>1, LeastOne
<1>3. PICK a : Ancestor(a, i) /\ ~(family[i].grants \subseteq family[a].grants)  BY <1>2
<1> DEFINE p == family[i].parent
<1>4. p \in 1 .. i - 1 /\ (a = p \/ Ancestor(a, p))  BY <1>0, <1>2, <1>3, AncestorIs
<1>5. p \notin S /\ p \in 1 .. L  BY <1>0, <1>2, <1>4
<1>6. family[i].grants \subseteq family[p].grants  BY <1>0, <1>2, <1>4 DEF KInv, Local
<1>. QED  BY <1>3, <1>4, <1>5, <1>6

\* The line a world's input has come down.
Line(i) ==
    LET o == family[i].option IN
    o > 0 => o = i \/ (Ancestor(o, i) /\ \A k \in DOMAIN family :
                           (k = i \/ Ancestor(k, i)) /\ k > o /\ Ancestor(o, k) => family[k].inherit)

\* An input that is not a world's own comes down a line of inheriting worlds.
LEMMA InputComesDown == ASSUME KInv PROVE InputComesDownTheLine
<1> DEFINE L == Len(family)
           S == {i \in 1 .. L : ~Line(i)}
<1>0. L \in Nat /\ DOMAIN family = 1 .. L  BY DEF KInv
<1>1. SUFFICES ASSUME S # {} PROVE FALSE  BY <1>0 DEF InputComesDownTheLine, Line
<1>2. PICK i \in S : \A j \in S : i <= j
  <2>1. S \in SUBSET Nat  BY <1>0
  <2> HIDE DEF S
  <2>. QED  BY <1>1, <2>1, LeastOne
<1> DEFINE p == family[i].parent
           o == family[i].option
<1>3. o > 0 /\ o # i  BY <1>2 DEF Line
<1>4. Local(i)  BY <1>0, <1>2 DEF KInv
<1>5. family[i].inherit /\ p # 0 /\ family[p].option = o  BY <1>3, <1>4 DEF Local
<1>6. p \in 1 .. i - 1 /\ \A a : Ancestor(a, i) <=> a = p \/ Ancestor(a, p)
  BY <1>0, <1>2, <1>5, AncestorIs
<1>7. p \in 1 .. L /\ p \notin S  BY <1>0, <1>2, <1>6
<1>8. Line(p)  BY <1>7
<1>9. o \in 1 .. i  BY <1>3, <1>4 DEF Local, Omitted
<1>10. CASE o = p
  <2>1. Ancestor(o, i)  BY <1>6, <1>10
  <2>2. ASSUME NEW k \in 1 .. L, k = i \/ Ancestor(k, i), k > o, Ancestor(o, k)
        PROVE  family[k].inherit
    <3>1. k = i \/ k = p \/ k \in 1 .. p - 1  BY <2>2, <1>6, <1>7, AncestorsAreBefore
    <3>2. k = i  BY <3>1, <2>2, <1>10, <1>6, <1>7
    <3>. QED  BY <3>2, <1>5
  <2>3. Line(i)  BY <1>0, <2>1, <2>2 DEF Line
  <2>. QED  BY <1>2, <2>3
<1>11. CASE o # p
  <2>1. /\ Ancestor(o, p)
        /\ \A k \in 1 .. L : (k = p \/ Ancestor(k, p)) /\ k > o /\ Ancestor(o, k) => family[k].inherit
    BY <1>0, <1>3, <1>5, <1>8, <1>11 DEF Line
  <2>2. ASSUME NEW k \in 1 .. L, k = i \/ Ancestor(k, i), k > o, Ancestor(o, k)
        PROVE  family[k].inherit
    BY <2>1, <2>2, <1>5, <1>6
  <2>3. Line(i)  BY <1>0, <1>6, <2>1, <2>2 DEF Line
  <2>. QED  BY <1>2, <2>3
<1>. QED  BY <1>10, <1>11

\* However many children of children are spawned, and whatever each parent asks for, no world has
\* a grant that one of its ancestors lacks, and the input it reads is its own or has come down an
\* unbroken line of inheriting worlds (startChild's narrowing and its inheritStdin).
THEOREM ChildrenGetNoMore == KSpec => []ChildGetsNoMore
<1>1. KInit => KInv  BY FamilyBegins
<1>2. KInv /\ [KNext]_kVars => KInv'  BY FamilyStep
<1>3. ASSUME KInv PROVE ChildGetsNoMore
  <2>1. KTypeOK
    <3>1. ASSUME NEW i \in DOMAIN family
          PROVE  /\ family[i].parent \in 0 .. i - 1 /\ family[i].grants \subseteq Grants
                 /\ family[i].option \in {Omitted} \cup 1 .. i
      <4>1. family \in Seq(World) /\ i \in 1 .. Len(family)  BY <1>3 DEF KInv
      <4>2. family[i] \in World /\ Local(i)  BY <1>3, <4>1 DEF KInv
      <4>. QED  BY <4>1, <4>2 DEF World, Local
    <3>. QED  BY <1>3, <3>1 DEF KTypeOK, KInv
  <2>2. InheritsItsParentsInput
    BY <1>3 DEF InheritsItsParentsInput, Inherits, Input, KInv, Local
  <2>. QED  BY <1>3, <2>1, <2>2, AuthorityShrinks, InputComesDown DEF ChildGetsNoMore
<1>. QED  BY <1>1, <1>2, <1>3, PTL DEF KSpec
=============================================================================

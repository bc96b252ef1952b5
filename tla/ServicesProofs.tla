------------------------------ MODULE ServicesProofs -------------------------------
(***************************************************************************)
(* The programs beside the platform and the repository's tools, for every     *)
(* number of clients, ports, workers, files, keys and lines: an HTTP server    *)
(* tells its clients the truth (serve.ts, client.ts), a test's port is its own *)
(* (port.ts, spawnRetry.ts), a pool of workers knows what it holds             *)
(* (inFlight.ts), a test's program is called dead only when it is (appRun.ts), *)
(* a suite can be believed (runTests.ts, reap.ts), a build taken from the       *)
(* cache is whole (buildCache.ts), a test is credited with what it ran          *)
(* (wacProfile.ts), a mutant's run has every test that reaches it (profile.ts) *)
(* and a mutation sweep reports what it measured (mutate.ts).                   *)
(*                                                                         *)
(* None of the invariants is inductive.  A server answers in order because     *)
(* what it has said and has still to say together are the responses to what    *)
(* it took from its buffer; a port is its own because what a caller holds was  *)
(* handed out to nobody else, as often as it asked; a pool that returns is     *)
(* whole because a worker is over only when the items are or the pool has      *)
(* failed; a suite has run everything because the files of its two passes       *)
(* partition what it was asked for; a cache is bounded because what no listing  *)
(* names is, as soon as nobody owes a listing; a test's credit is whole because *)
(* what it has run is, at every moment, what it would be credited with; a        *)
(* mutant's run is enough because the profile is exactly what the files left,   *)
(* and a list of as many files as there are, without repetition, has them all;  *)
(* and a sweep accounts for every mutant because each one handed out is        *)
(* measured or still in the hands of one worker.                              *)
(***************************************************************************)
EXTENDS Pool, Retries, Http, AppRun, Suite, KeyParts, Profile, Sweep, Attribution,
        FiniteSetTheorems, SequenceTheorems, Induction, TLAPS

-----------------------------------------------------------------------------
(* The server and its clients (serve.ts, client.ts) *)

\* Halves of messages, by message and by half.
Cells == Nat \X Nat
\* What a client keeps.
Sides == [at : {"new", "write", "read", "done", "left"}, sent : Nat, got : Seq(Cells),
          result : {"none", "ok", "truncated", "thrown"}]
\* What a connection of the server keeps.
Conns == [at : {"none", "handle", "write", "write408", "read", "close", "closed", "gone", "refused"},
          read : Nat, taken : Nat, reply : Seq(Cells), keep : BOOLEAN]

\* The types.
HttpTyped ==
    /\ cli \in [Clients -> Sides] /\ srv \in [Clients -> Conns] /\ said \in [Clients -> Seq(Cells)]
    /\ openConnections \in Nat

\* What the server has said to a connection and has still to say.
Told(y, z) == z \o y.reply
\* The responses to k requests, and a 408 after them or not.
InOrder(cells, k) == cells = Responses(k) \/ cells = Responses(k) \o Timeout408

\* Where a connection is in its requests, and what it has said by then.
Served(final, x, y, z) ==
    /\ y.taken <= y.read /\ y.read <= x.sent /\ x.sent <= final
    /\ y.taken = 2 * (y.taken \div 2)
    /\ y.at \in {"none", "refused"} => y.taken = 0 /\ Told(y, z) = Responses(0)
    /\ y.at \in {"handle", "read"} => y.reply = <<>> /\ z = Responses(y.taken \div 2)
    /\ y.at = "read" => y.read < y.taken + 2
    /\ y.at = "write" => y.taken + 2 <= y.read /\ Told(y, z) = Responses(y.taken \div 2 + 1)
    /\ y.at = "write408" => Told(y, z) = Responses(y.taken \div 2) \o Timeout408
    /\ y.at \in {"close", "closed", "gone"} => \E k \in 0 .. y.read \div 2 : InOrder(Told(y, z), k)

\* A client holds the beginning of what was said to it, and its result says how much.
Heard(x, y, z) ==
    /\ x.at = "new" => y.at = "none"
    /\ Len(x.got) <= Len(z) /\ \A i \in 1 .. Len(x.got) : x.got[i] = z[i]
    /\ x.result = "ok" => Len(x.got) >= 2
    /\ x.result = "truncated" => y.at \in {"refused", "closed", "gone"} /\ Len(z) < 2

\* All a client has to send.
AllToSay(c) == 2 * Len(Requests[c])
\* A connection and its client are where they should be.
Well(c) == Served(AllToSay(c), cli[c], srv[c], said[c]) /\ Heard(cli[c], srv[c], said[c])
\* The connections let in and not let go.
Inside == {c \in Clients : srv[c].at \notin {"none", "refused", "gone"}}

\* The inductive invariant of the server and its clients.
HttpInv == HttpTyped /\ CountIsExact /\ \A c \in Clients : Well(c)

-----------------------------------------------------------------------------

\* What the responses to k requests are, cell by cell.
LEMMA ResponsesAre ==
    ASSUME NEW k \in Nat
    PROVE  /\ Responses(k) \in Seq(Cells) /\ Len(Responses(k)) = 2 * k
           /\ \A j \in 1 .. 2 * k : Responses(k)[j] = <<(j + 1) \div 2, 2 - (j % 2)>>
<1>1. \A j \in 1 .. 2 * k : <<(j + 1) \div 2, 2 - (j % 2)>> \in Cells
  <2>1. \A j \in 1 .. 2 * k : (j + 1) \div 2 \in Nat /\ 2 - (j % 2) \in Nat  OBVIOUS
  <2>. QED  BY <2>1 DEF Cells
<1>2. Responses(k) = [j \in 1 .. 2 * k |-> <<(j + 1) \div 2, 2 - (j % 2)>>]  BY DEF Responses
<1>3. 2 * k \in Nat  OBVIOUS
<1>4. Responses(k) \in [1 .. 2 * k -> Cells]  BY <1>1, <1>2
<1>5. \A f \in [1 .. 2 * k -> Cells] : f \in Seq(Cells)  BY <1>3, IsASeq
<1>6. Responses(k) \in Seq(Cells)  BY <1>4, <1>5
<1>7. DOMAIN Responses(k) = 1 .. 2 * k  BY <1>2
<1>8. Len(Responses(k)) = 2 * k  BY <1>3, <1>6, <1>7, LenProperties
<1>9. \A j \in 1 .. 2 * k : Responses(k)[j] = <<(j + 1) \div 2, 2 - (j % 2)>>  BY <1>2
<1>. QED  BY <1>6, <1>8, <1>9

\* A message is its two halves.
LEMMA MessageIs ==
    ASSUME NEW i \in Nat
    PROVE  /\ Message(i) \in Seq(Cells) /\ Len(Message(i)) = 2
           /\ Message(i)[1] = <<i, 1>> /\ Message(i)[2] = <<i, 2>>
<1>1. <<i, 1>> \in Cells /\ <<i, 2>> \in Cells  BY DEF Cells
<1>. QED  BY <1>1 DEF Message

\* One sequence after another.
LEMMA Joined ==
    ASSUME NEW a \in Seq(Cells), NEW z \in Seq(Cells)
    PROVE  /\ a \o z \in Seq(Cells) /\ Len(a \o z) = Len(a) + Len(z)
           /\ \A i \in 1 .. Len(a) : (a \o z)[i] = a[i]
           /\ \A i \in 1 .. Len(z) : (a \o z)[Len(a) + i] = z[i]
           /\ \A i \in 1 .. Len(a) + Len(z) : (a \o z)[i] = IF i <= Len(a) THEN a[i] ELSE z[i - Len(a)]
OBVIOUS

\* The next response after the first k makes the first k + 1.
LEMMA NextResponse ==
    ASSUME NEW k \in Nat
    PROVE  Responses(k) \o Message(k + 1) = Responses(k + 1)
<1> DEFINE a == Responses(k)
           m == Message(k + 1)
           b == Responses(k + 1)
<1>1. a \in Seq(Cells) /\ Len(a) = 2 * k /\ \A j \in 1 .. 2 * k : a[j] = <<(j + 1) \div 2, 2 - (j % 2)>>
  BY ResponsesAre
<1>2. m \in Seq(Cells) /\ Len(m) = 2 /\ m[1] = <<k + 1, 1>> /\ m[2] = <<k + 1, 2>>
  BY MessageIs
<1>3. /\ b \in Seq(Cells) /\ Len(b) = 2 * k + 2
      /\ \A j \in 1 .. 2 * k + 2 : b[j] = <<(j + 1) \div 2, 2 - (j % 2)>>
  <2>1. k + 1 \in Nat /\ 2 * (k + 1) = 2 * k + 2  OBVIOUS
  <2>. QED  BY <2>1, ResponsesAre
<1> HIDE DEF a, m, b
<1>4. /\ a \o m \in Seq(Cells) /\ Len(a \o m) = 2 * k + 2
      /\ \A j \in 1 .. 2 * k + 2 : (a \o m)[j] = IF j <= 2 * k THEN a[j] ELSE m[j - 2 * k]
  <2>1. /\ a \o m \in Seq(Cells) /\ Len(a \o m) = Len(a) + Len(m)
        /\ \A j \in 1 .. Len(a) + Len(m) : (a \o m)[j] = IF j <= Len(a) THEN a[j] ELSE m[j - Len(a)]
    BY <1>1, <1>2, Joined
  <2>. QED  BY <1>1, <1>2, <2>1
<1>5. ASSUME NEW j \in 1 .. 2 * k + 2 PROVE (a \o m)[j] = b[j]
  <2>1. CASE j <= 2 * k
    <3>1. j \in 1 .. 2 * k  BY <2>1
    <3>. QED  BY <1>1, <1>3, <1>4, <2>1, <3>1
  <2>2. CASE j = 2 * k + 1
    <3>1. j - 2 * k = 1 /\ (j + 1) \div 2 = k + 1 /\ 2 - (j % 2) = 1 /\ ~(j <= 2 * k)  BY <2>2
    <3>. QED  BY <1>2, <1>3, <1>4, <3>1
  <2>3. CASE j = 2 * k + 2
    <3>1. j - 2 * k = 2 /\ (j + 1) \div 2 = k + 1 /\ 2 - (j % 2) = 2 /\ ~(j <= 2 * k)  BY <2>3
    <3>. QED  BY <1>2, <1>3, <1>4, <3>1
  <2>4. j <= 2 * k \/ j = 2 * k + 1 \/ j = 2 * k + 2  OBVIOUS
  <2>. QED  BY <2>1, <2>2, <2>3, <2>4
<1>6. a \o m = b  BY <1>3, <1>4, <1>5, SeqEqual
<1>. QED  BY <1>6 DEF a, m, b

\* writeAll: a short write moves the boundary and changes nothing else.
LEMMA ShortWrite ==
    ASSUME NEW a \in Seq(Cells), NEW r \in Seq(Cells), NEW n \in 1 .. Len(r)
    PROVE  /\ a \o SubSeq(r, 1, n) \in Seq(Cells) /\ LeftOf(r, n) \in Seq(Cells)
           /\ (a \o SubSeq(r, 1, n)) \o LeftOf(r, n) = a \o r
           /\ Len(a) <= Len(a \o SubSeq(r, 1, n))
           /\ \A i \in 1 .. Len(a) : (a \o SubSeq(r, 1, n))[i] = a[i]
<1> DEFINE f == SubSeq(r, 1, n)
           l == SubSeq(r, n + 1, Len(r))
<1>0. Len(r) \in Nat /\ n \in Nat /\ n <= Len(r) /\ Len(a) \in Nat  OBVIOUS
<1>1. f \in Seq(Cells) /\ Len(f) = n /\ \A i \in 1 .. n : f[i] = r[i]  BY <1>0
<1>2. l \in Seq(Cells) /\ Len(l) = Len(r) - n /\ \A i \in 1 .. Len(r) - n : l[i] = r[n + i]  BY <1>0
<1>3. LeftOf(r, n) = l  BY DEF LeftOf
<1> HIDE DEF f, l
<1>4. /\ a \o f \in Seq(Cells) /\ Len(a \o f) = Len(a) + n
      /\ (\A i \in 1 .. Len(a) : (a \o f)[i] = a[i]) /\ \A i \in 1 .. n : (a \o f)[Len(a) + i] = f[i]
  BY <1>1, Joined
<1>5. /\ (a \o f) \o l \in Seq(Cells) /\ Len((a \o f) \o l) = Len(a) + Len(r)
      /\ \A i \in 1 .. Len(a) + n : ((a \o f) \o l)[i] = (a \o f)[i]
      /\ \A i \in 1 .. Len(r) - n : ((a \o f) \o l)[Len(a) + n + i] = l[i]
  <2>1. /\ (a \o f) \o l \in Seq(Cells) /\ Len((a \o f) \o l) = Len(a \o f) + Len(l)
        /\ \A i \in 1 .. Len(a \o f) : ((a \o f) \o l)[i] = (a \o f)[i]
        /\ \A i \in 1 .. Len(l) : ((a \o f) \o l)[Len(a \o f) + i] = l[i]
    BY <1>2, <1>4, Joined
  <2>. QED  BY <1>0, <1>2, <1>4, <2>1
<1>6. /\ a \o r \in Seq(Cells) /\ Len(a \o r) = Len(a) + Len(r)
      /\ (\A i \in 1 .. Len(a) : (a \o r)[i] = a[i]) /\ \A i \in 1 .. Len(r) : (a \o r)[Len(a) + i] = r[i]
  BY Joined
<1>7. ASSUME NEW i \in 1 .. Len(a) + Len(r) PROVE ((a \o f) \o l)[i] = (a \o r)[i]
  <2>1. CASE i <= Len(a)
    <3>1. i \in 1 .. Len(a) /\ i \in 1 .. Len(a) + n  BY <1>0, <2>1
    <3>. QED  BY <1>4, <1>5, <1>6, <3>1
  <2>2. CASE Len(a) < i /\ i <= Len(a) + n
    <3>1. /\ i - Len(a) \in 1 .. n /\ i - Len(a) \in 1 .. Len(r) /\ i \in 1 .. Len(a) + n
          /\ Len(a) + (i - Len(a)) = i
      BY <1>0, <2>2
    <3>2. (a \o f)[i] = f[i - Len(a)]  BY <1>4, <3>1
    <3>3. (a \o r)[i] = r[i - Len(a)]  BY <1>6, <3>1
    <3>. QED  BY <1>1, <1>5, <3>1, <3>2, <3>3
  <2>3. CASE Len(a) + n < i
    <3>1. /\ i - Len(a) - n \in 1 .. Len(r) - n /\ i - Len(a) \in 1 .. Len(r)
          /\ Len(a) + n + (i - Len(a) - n) = i /\ Len(a) + (i - Len(a)) = i
          /\ n + (i - Len(a) - n) = i - Len(a)
      BY <1>0, <2>3
    <3>2. ((a \o f) \o l)[i] = l[i - Len(a) - n]  BY <1>5, <3>1
    <3>3. (a \o r)[i] = r[i - Len(a)]  BY <1>6, <3>1
    <3>4. l[i - Len(a) - n] = r[i - Len(a)]  BY <1>2, <3>1
    <3>. QED  BY <3>2, <3>3, <3>4
  <2>4. i <= Len(a) \/ (Len(a) < i /\ i <= Len(a) + n) \/ Len(a) + n < i  BY <1>0
  <2>. QED  BY <2>1, <2>2, <2>3, <2>4
<1>8. (a \o f) \o l = a \o r  BY <1>5, <1>6, <1>7, SeqEqual
<1>9. Len(a) <= Len(a \o f)  BY <1>0, <1>4
<1>10. /\ a \o f \in Seq(Cells) /\ LeftOf(r, n) \in Seq(Cells) /\ (a \o f) \o LeftOf(r, n) = a \o r
       /\ Len(a) <= Len(a \o f) /\ \A i \in 1 .. Len(a) : (a \o f)[i] = a[i]
  BY <1>2, <1>3, <1>4, <1>8, <1>9, Zenon
<1>. QED  BY <1>10, Zenon DEF f

\* Whatever order says, the first message is the first response or the 408.
LEMMA FirstMessage ==
    ASSUME NEW k \in Nat, NEW t, InOrder(t, k)
    PROVE  /\ t \in Seq(Cells)
           /\ Len(t) >= 2 => \/ t[1] = <<1, 1>> /\ t[2] = <<1, 2>>
                             \/ t[1] = <<0, 1>> /\ t[2] = <<0, 2>>
<1>1. /\ Responses(k) \in Seq(Cells) /\ Len(Responses(k)) = 2 * k
      /\ \A j \in 1 .. 2 * k : Responses(k)[j] = <<(j + 1) \div 2, 2 - (j % 2)>>
  BY ResponsesAre
<1>2. /\ Timeout408 \in Seq(Cells) /\ Len(Timeout408) = 2
      /\ Timeout408[1] = <<0, 1>> /\ Timeout408[2] = <<0, 2>>
  BY MessageIs DEF Timeout408
<1>3. k >= 1 => Responses(k)[1] = <<1, 1>> /\ Responses(k)[2] = <<1, 2>>
  <2>1. SUFFICES ASSUME k >= 1 PROVE Responses(k)[1] = <<1, 1>> /\ Responses(k)[2] = <<1, 2>>
    OBVIOUS
  <2>2. 1 \in 1 .. 2 * k /\ 2 \in 1 .. 2 * k  BY <2>1
  <2>3. (1 + 1) \div 2 = 1 /\ 2 - (1 % 2) = 1 /\ (2 + 1) \div 2 = 1 /\ 2 - (2 % 2) = 2  OBVIOUS
  <2>. QED  BY <1>1, <2>2, <2>3
<1>4. CASE t = Responses(k)
  <2>1. t \in Seq(Cells) /\ Len(t) = 2 * k  BY <1>1, <1>4
  <2>2. 2 * k >= 2 => k >= 1  OBVIOUS
  <2>. QED  BY <1>3, <1>4, <2>1, <2>2
<1>5. CASE t = Responses(k) \o Timeout408
  <2>1. /\ t \in Seq(Cells) /\ \A i \in 1 .. 2 * k : t[i] = Responses(k)[i]
        /\ \A i \in 1 .. 2 : t[2 * k + i] = Timeout408[i]
    <3> DEFINE a == Responses(k)
               m == Timeout408
    <3>1. a \in Seq(Cells) /\ m \in Seq(Cells) /\ Len(a) = 2 * k /\ Len(m) = 2  BY <1>1, <1>2
    <3> HIDE DEF a, m
    <3>2. /\ a \o m \in Seq(Cells) /\ \A i \in 1 .. Len(a) : (a \o m)[i] = a[i]
          /\ \A i \in 1 .. Len(m) : (a \o m)[Len(a) + i] = m[i]
      BY <3>1, Joined
    <3>. QED  BY <1>5, <3>1, <3>2 DEF a, m
  <2>2. CASE k >= 1
    <3>1. 1 \in 1 .. 2 * k /\ 2 \in 1 .. 2 * k  BY <2>2
    <3>. QED  BY <1>3, <2>1, <2>2, <3>1
  <2>3. CASE k = 0  BY <1>2, <2>1, <2>3
  <2>. QED  BY <2>1, <2>2, <2>3
<1>. QED  BY <1>4, <1>5 DEF InOrder

-----------------------------------------------------------------------------

\* One connection moves, and is as it should be: so is the server.
LEMMA OneMoves ==
    ASSUME HttpInv, NEW c \in Clients, NEW x \in Sides, NEW y \in Conns, NEW z \in Seq(Cells),
           cli' = [cli EXCEPT ![c] = x], srv' = [srv EXCEPT ![c] = y], said' = [said EXCEPT ![c] = z],
           Served(AllToSay(c), x, y, z), Heard(x, y, z), openConnections' \in Nat, CountIsExact'
    PROVE  HttpInv'
<1>1. HttpTyped'  BY DEF HttpInv, HttpTyped
<1>2. cli'[c] = x /\ srv'[c] = y /\ said'[c] = z  BY DEF HttpInv, HttpTyped
<1>3. Well(c)'  BY <1>2 DEF Well, AllToSay
<1>4. ASSUME NEW d \in Clients, d # c PROVE Well(d)'
  <2>1. cli'[d] = cli[d] /\ srv'[d] = srv[d] /\ said'[d] = said[d]  BY <1>4 DEF HttpInv, HttpTyped
  <2>2. Well(d)  BY DEF HttpInv
  <2>. QED  BY <2>1, <2>2 DEF Well, AllToSay
<1>. QED  BY <1>1, <1>3, <1>4 DEF HttpInv

\* A connection that stays inside, or outside, leaves the count right.
LEMMA SameCount ==
    ASSUME HttpInv, NEW c \in Clients, NEW y \in Conns, srv' = [srv EXCEPT ![c] = y],
           y.at \in {"none", "refused", "gone"} <=> srv[c].at \in {"none", "refused", "gone"},
           openConnections' = openConnections
    PROVE  CountIsExact' /\ openConnections' \in Nat
<1>1. Inside' = Inside  BY DEF Inside, HttpInv, HttpTyped
<1>2. openConnections = Cardinality(Inside) /\ openConnections <= MaxConnections
  BY DEF HttpInv, CountIsExact, Inside
<1>3. openConnections' = Cardinality(Inside') /\ openConnections' <= MaxConnections  BY <1>1, <1>2
<1>. QED  BY <1>3 DEF CountIsExact, Inside, HttpInv, HttpTyped

\* What the invariant says of one connection.
LEMMA Here ==
    ASSUME HttpInv, NEW c \in Clients
    PROVE  /\ cli[c] \in Sides /\ srv[c] \in Conns /\ said[c] \in Seq(Cells)
           /\ Served(AllToSay(c), cli[c], srv[c], said[c]) /\ Heard(cli[c], srv[c], said[c])
           /\ cli = [cli EXCEPT ![c] = cli[c]] /\ srv = [srv EXCEPT ![c] = srv[c]]
           /\ said = [said EXCEPT ![c] = said[c]]
BY DEF HttpInv, HttpTyped, Well

\* A server step that says nothing: the connection's record moves to y.
LEMMA ServerMoves ==
    ASSUME HttpInv, NEW c \in Clients, NEW y \in Conns, srv' = [srv EXCEPT ![c] = y],
           UNCHANGED <<cli, said, openConnections>>,
           y.at \in {"none", "refused", "gone"} <=> srv[c].at \in {"none", "refused", "gone"},
           Served(AllToSay(c), cli[c], y, said[c]), Heard(cli[c], y, said[c])
    PROVE  HttpInv'
<1>1. CountIsExact' /\ openConnections' \in Nat  BY SameCount
<1>. QED  BY <1>1, Here, OneMoves

\* A client step: its record moves to x.
LEMMA ClientMoves ==
    ASSUME HttpInv, NEW c \in Clients, NEW x \in Sides, cli' = [cli EXCEPT ![c] = x],
           UNCHANGED <<srv, said, openConnections>>,
           Served(AllToSay(c), x, srv[c], said[c]), Heard(x, srv[c], said[c])
    PROVE  HttpInv'
<1>1. CountIsExact' /\ openConnections' \in Nat
  <2>1. srv' = [srv EXCEPT ![c] = srv[c]] /\ srv[c] \in Conns  BY Here
  <2>. QED  BY <2>1, SameCount
<1>. QED  BY <1>1, Here, OneMoves

\* A client's requests are counted.
LEMMA RequestsAre ==
    ASSUME NEW c \in Clients
    PROVE  /\ Len(Requests[c]) \in Nat /\ AllToSay(c) = 2 * Len(Requests[c]) /\ AllToSay(c) \in Nat
           /\ \A i \in 1 .. Len(Requests[c]) : Requests[c][i] \in BOOLEAN
<1>1. PICK n \in 1 .. 3 : Requests[c] \in [1 .. n -> BOOLEAN]  BY HttpAssumption
<1>2. \A f \in [1 .. n -> BOOLEAN] : f \in Seq(BOOLEAN)  BY IsASeq
<1>3. Requests[c] \in Seq(BOOLEAN)  BY <1>1, <1>2
<1>4. Len(Requests[c]) \in Nat /\ \A i \in 1 .. Len(Requests[c]) : Requests[c][i] \in BOOLEAN
  BY <1>3, LenProperties
<1>. QED  BY <1>4 DEF AllToSay

\* Nothing has been said to begin with, and nothing said changes nothing.
LEMMA Nothing ==
    /\ Responses(0) = <<>> /\ <<>> \in Seq(Cells) /\ Len(<<>>) = 0
    /\ \A s \in Seq(Cells) : s \o <<>> = s /\ <<>> \o s = s
<1>1. Responses(0) \in Seq(Cells) /\ Len(Responses(0)) = 0  BY ResponsesAre
<1>. QED  BY <1>1

\* A server nobody has connected to.
LEMMA HttpBegins == HttpInit => HttpInv
<1>1. SUFFICES ASSUME HttpInit PROVE HttpInv  OBVIOUS
<1>2. HttpTyped  BY <1>1 DEF HttpInit, HttpTyped, Sides, Conns
<1>3. CountIsExact
  <2>1. Inside = {}  BY <1>1 DEF HttpInit, Inside
  <2>2. openConnections = Cardinality(Inside)  BY <1>1, <2>1, FS_EmptySet DEF HttpInit
  <2>3. openConnections <= MaxConnections  BY <1>1, HttpAssumption DEF HttpInit
  <2>. QED  BY <2>2, <2>3 DEF CountIsExact, Inside
<1>4. ASSUME NEW c \in Clients PROVE Well(c)
  <2>1. /\ cli[c].at = "new" /\ cli[c].sent = 0 /\ cli[c].got = <<>> /\ cli[c].result = "none"
        /\ srv[c].at = "none" /\ srv[c].read = 0 /\ srv[c].taken = 0 /\ srv[c].reply = <<>>
        /\ said[c] = <<>>
    BY <1>1 DEF HttpInit
  <2>2. Served(AllToSay(c), cli[c], srv[c], said[c])
    <3>1. Told(srv[c], said[c]) = Responses(0)  BY <2>1, Nothing DEF Told
    <3>2. 0 = 2 * (0 \div 2) /\ 0 <= AllToSay(c)  BY RequestsAre
    <3>. QED  BY <2>1, <3>1, <3>2 DEF Served
  <2>3. Heard(cli[c], srv[c], said[c])  BY <2>1, Nothing DEF Heard
  <2>. QED  BY <2>2, <2>3 DEF Well
<1>. QED  BY <1>2, <1>3, <1>4 DEF HttpInv

-----------------------------------------------------------------------------

\* listen: a connection is let in and counted, or refused at the limit.
LEMMA AcceptStep ==
    ASSUME HttpInv, NEW c \in Clients, Accept(c)
    PROVE  HttpInv'
<1> DEFINE x == [cli[c] EXCEPT !.at = "write"]
<1>1. /\ cli[c] \in Sides /\ srv[c] \in Conns /\ said[c] \in Seq(Cells)
      /\ Served(AllToSay(c), cli[c], srv[c], said[c]) /\ Heard(cli[c], srv[c], said[c])
  BY Here
<1>2. srv[c].at = "none"  BY <1>1 DEF Accept, Heard
<1>3. x \in Sides /\ x.at = "write" /\ x.sent = cli[c].sent /\ x.got = cli[c].got /\ x.result = cli[c].result
  BY <1>1 DEF Sides
<1>4. cli' = [cli EXCEPT ![c] = x]  BY <1>1 DEF Accept
<1> HIDE DEF x
<1>5. Told(srv[c], said[c]) = <<>> /\ srv[c].reply = <<>> /\ said[c] = <<>>
  <2>1. srv[c].reply \in Seq(Cells) /\ Told(srv[c], said[c]) = <<>>  BY <1>1, <1>2, Nothing DEF Served, Conns
  <2>2. said[c] \o srv[c].reply = <<>>  BY <2>1 DEF Told
  <2>3. Len(said[c]) + Len(srv[c].reply) = 0  BY <1>1, <2>1, <2>2, Joined, Nothing
  <2>4. Len(said[c]) \in Nat /\ Len(srv[c].reply) \in Nat  BY <1>1, <2>1
  <2>0. \A a, b \in Nat : a + b = 0 => a = 0 /\ b = 0  OBVIOUS
  <2>5. Len(said[c]) = 0 /\ Len(srv[c].reply) = 0  BY <2>0, <2>3, <2>4
  <2>. QED  BY <1>1, <2>1, <2>5
<1>6. CASE openConnections >= MaxConnections
  <2> DEFINE y == [srv[c] EXCEPT !.at = "refused"]
  <2>1. /\ y \in Conns /\ y.at = "refused" /\ y.read = srv[c].read /\ y.taken = srv[c].taken
        /\ y.reply = srv[c].reply
    BY <1>1 DEF Conns
  <2>2. srv' = [srv EXCEPT ![c] = y] /\ openConnections' = openConnections /\ said' = said
    BY <1>1, <1>6 DEF Accept
  <2> HIDE DEF y
  <2>3. CountIsExact' /\ openConnections' \in Nat  BY <1>2, <2>1, <2>2, SameCount
  <2>4. Served(AllToSay(c), x, y, said[c])  BY <1>1, <1>2, <1>3, <2>1 DEF Served, Told
  <2>5. Heard(x, y, said[c])  BY <1>1, <1>2, <1>3, <2>1 DEF Heard
  <2>. QED  BY <1>3, <1>4, <2>1, <2>2, <2>3, <2>4, <2>5, Here, OneMoves
<1>7. CASE ~(openConnections >= MaxConnections)
  <2> DEFINE y == [srv[c] EXCEPT !.at = "handle"]
  <2>1. /\ y \in Conns /\ y.at = "handle" /\ y.read = srv[c].read /\ y.taken = srv[c].taken
        /\ y.reply = srv[c].reply
    BY <1>1 DEF Conns
  <2>2. srv' = [srv EXCEPT ![c] = y] /\ openConnections' = openConnections + 1 /\ said' = said
    BY <1>1, <1>7 DEF Accept
  <2> HIDE DEF y
  <2>3. CountIsExact' /\ openConnections' \in Nat
    <3>1. Inside' = Inside \cup {c}  BY <1>2, <2>1, <2>2 DEF Inside, HttpInv, HttpTyped
    <3>2. c \notin Inside  BY <1>2 DEF Inside
    <3>3. IsFiniteSet(Inside)  BY HttpAssumption, FS_Subset DEF Inside
    <3>4. openConnections = Cardinality(Inside) /\ openConnections \in Nat
      BY DEF HttpInv, HttpTyped, CountIsExact, Inside
    <3>5. Cardinality(Inside') = openConnections + 1  BY <3>1, <3>2, <3>3, <3>4, FS_AddElement
    <3>6. openConnections' = Cardinality(Inside') /\ openConnections' <= MaxConnections /\ openConnections' \in Nat
      BY <1>7, <2>2, <3>4, <3>5, HttpAssumption
    <3>. QED  BY <3>6 DEF CountIsExact, Inside
  <2>4. Served(AllToSay(c), x, y, said[c])
    BY <1>1, <1>2, <1>3, <1>5, <2>1 DEF Served, Told
  <2>5. Heard(x, y, said[c])  BY <1>1, <1>2, <1>3, <2>1 DEF Heard
  <2>. QED  BY <1>3, <1>4, <2>1, <2>2, <2>3, <2>4, <2>5, Here, OneMoves
<1>. QED  BY <1>6, <1>7

\* handle: reads on while no request is whole, and otherwise replies with the next response.
LEMMA HandleStep ==
    ASSUME HttpInv, NEW c \in Clients, Handle(c)
    PROVE  HttpInv'
<1>1. /\ cli[c] \in Sides /\ srv[c] \in Conns /\ said[c] \in Seq(Cells)
      /\ Served(AllToSay(c), cli[c], srv[c], said[c]) /\ Heard(cli[c], srv[c], said[c])
  BY Here
<1>2. /\ srv[c].at = "handle" /\ srv[c].reply = <<>> /\ said[c] = Responses(srv[c].taken \div 2)
      /\ srv[c].read \in Nat /\ srv[c].taken \in Nat /\ srv[c].taken <= srv[c].read
  BY <1>1 DEF Handle, Served, Conns
<1>3. CASE Buffered(c) < 2
  <2> DEFINE y == [srv[c] EXCEPT !.at = "read"]
  <2>1. /\ y \in Conns /\ y.at = "read" /\ y.read = srv[c].read /\ y.taken = srv[c].taken
        /\ y.reply = srv[c].reply
    BY <1>1 DEF Conns
  <2>2. srv' = [srv EXCEPT ![c] = y] /\ UNCHANGED <<cli, said, openConnections>>
    BY <1>1, <1>3 DEF Handle
  <2> HIDE DEF y
  <2>3. y.read < y.taken + 2  BY <1>2, <1>3, <2>1 DEF Buffered
  <2>4. Served(AllToSay(c), cli[c], y, said[c])  BY <1>1, <1>2, <2>1, <2>3 DEF Served
  <2>5. Heard(cli[c], y, said[c])  BY <1>1, <1>2, <2>1 DEF Heard
  <2>. QED  BY <1>2, <2>1, <2>2, <2>4, <2>5, ServerMoves
<1>4. CASE ~(Buffered(c) < 2)
  <2> DEFINE k == srv[c].taken \div 2
             y == [srv[c] EXCEPT !.at = "write", !.reply = Message(k + 1), !.keep = Requests[c][k + 1]]
  <2>0. k \in Nat /\ k + 1 \in Nat  BY <1>2
  <2>1. srv[c].taken + 2 <= srv[c].read  BY <1>2, <1>4 DEF Buffered
  <2>2. Requests[c][k + 1] \in BOOLEAN
    <3>1. srv[c].taken = 2 * k /\ srv[c].read <= AllToSay(c)
      <4>1. cli[c].sent \in Nat  BY <1>1 DEF Sides
      <4>2. srv[c].read <= cli[c].sent /\ cli[c].sent <= AllToSay(c)  BY <1>1 DEF Served
      <4>3. srv[c].taken = 2 * k  BY <1>1 DEF Served
      <4>. QED  BY <1>2, <4>1, <4>2, <4>3, RequestsAre
    <3>2. 2 * k + 2 <= 2 * Len(Requests[c])  BY <1>2, <2>1, <3>1, RequestsAre
    <3>3. k + 1 \in 1 .. Len(Requests[c])  BY <2>0, <3>2, RequestsAre
    <3>. QED  BY <3>3, RequestsAre
  <2>3. Message(k + 1) \in Seq(Cells)  BY <2>0, MessageIs
  <2>4. /\ y \in Conns /\ y.at = "write" /\ y.read = srv[c].read /\ y.taken = srv[c].taken
        /\ y.reply = Message(k + 1)
    BY <1>1, <2>2, <2>3 DEF Conns
  <2>5. srv' = [srv EXCEPT ![c] = y] /\ UNCHANGED <<cli, said, openConnections>>
    BY <1>1, <1>4 DEF Handle
  <2> HIDE DEF y
  <2>6. Told(y, said[c]) = Responses(y.taken \div 2 + 1)
    BY <1>2, <2>0, <2>4, NextResponse DEF Told
  <2>7. Served(AllToSay(c), cli[c], y, said[c])
    <3> HIDE DEF k
    <3>. QED  BY <1>1, <1>2, <2>1, <2>4, <2>6 DEF Served
  <2>8. Heard(cli[c], y, said[c])  BY <1>1, <1>2, <2>4 DEF Heard
  <2>. QED  BY <1>2, <2>4, <2>5, <2>7, <2>8, ServerMoves
<1>. QED  BY <1>3, <1>4

\* writeAll: a turn of it moves the boundary between what is said and what is left to say.
LEMMA WriteAllStep ==
    ASSUME HttpInv, NEW c \in Clients, WriteAll(c)
    PROVE  HttpInv'
<1>1. /\ cli[c] \in Sides /\ srv[c] \in Conns /\ said[c] \in Seq(Cells)
      /\ Served(AllToSay(c), cli[c], srv[c], said[c]) /\ Heard(cli[c], srv[c], said[c])
  BY Here
<1>2. srv[c].at \in {"write", "write408"} /\ srv[c].reply \in Seq(Cells)  BY <1>1 DEF WriteAll, Conns
<1>3. PICK n \in 1 .. Len(srv[c].reply) :
         /\ said' = [said EXCEPT ![c] = @ \o SubSeq(srv[c].reply, 1, n)]
         /\ srv' = [srv EXCEPT ![c].reply = LeftOf(@, n)]
  BY DEF WriteAll
<1> DEFINE r == srv[c].reply
           z == said[c] \o SubSeq(r, 1, n)
           w == LeftOf(r, n)
           y == [srv[c] EXCEPT !.reply = w]
<1>4. /\ z \in Seq(Cells) /\ w \in Seq(Cells) /\ z \o w = said[c] \o r /\ Len(said[c]) <= Len(z)
      /\ \A i \in 1 .. Len(said[c]) : z[i] = said[c][i]
  BY <1>1, <1>2, ShortWrite
<1>5. said' = [said EXCEPT ![c] = z] /\ srv' = [srv EXCEPT ![c] = y]  BY <1>1, <1>3
<1> HIDE DEF z, w
<1>6. /\ y \in Conns /\ y.at = srv[c].at /\ y.read = srv[c].read /\ y.taken = srv[c].taken
      /\ y.reply = w
  BY <1>1, <1>4 DEF Conns
<1> HIDE DEF y
<1>7. Told(y, z) = Told(srv[c], said[c])  BY <1>4, <1>6 DEF Told
<1>8. Served(AllToSay(c), cli[c], y, z)  BY <1>1, <1>2, <1>6, <1>7 DEF Served
<1>9. Heard(cli[c], y, z)
  <2>1. Len(cli[c].got) \in Nat /\ Len(said[c]) \in Nat /\ Len(z) \in Nat  BY <1>1, <1>4 DEF Sides
  <2>2. Len(cli[c].got) <= Len(said[c]) /\ \A i \in 1 .. Len(cli[c].got) : cli[c].got[i] = said[c][i]
    BY <1>1 DEF Heard
  <2>3. Len(cli[c].got) <= Len(z)  BY <1>4, <2>1, <2>2
  <2>4. \A i \in 1 .. Len(cli[c].got) : cli[c].got[i] = z[i]
    <3>1. \A i \in 1 .. Len(cli[c].got) : i \in 1 .. Len(said[c])  BY <2>1, <2>2
    <3>. QED  BY <1>4, <2>2, <3>1
  <2>5. y.at # "none" /\ y.at \notin {"refused", "closed", "gone"}  BY <1>2, <1>6
  <2>6. cli[c].at # "new" /\ cli[c].result # "truncated"  BY <1>1, <1>2 DEF Heard
  <2>. QED  BY <1>1, <2>3, <2>4, <2>6 DEF Heard
<1>10. CountIsExact' /\ openConnections' \in Nat
  <2>1. openConnections' = openConnections  BY DEF WriteAll
  <2>. QED  BY <1>5, <1>6, <2>1, SameCount
<1>11. cli' = [cli EXCEPT ![c] = cli[c]]  BY Here DEF WriteAll
<1>. QED  BY <1>1, <1>4, <1>5, <1>6, <1>8, <1>9, <1>10, <1>11, OneMoves

\* A connection at work comes to its close, having told what is in order.
LEMMA Closing ==
    ASSUME NEW final, NEW x, NEW y \in Conns, NEW z \in Seq(Cells), Served(final, x, y, z),
           y.at \in {"read", "write", "write408"}
    PROVE  \E k \in 0 .. y.read \div 2 : InOrder(Told(y, z), k)
<1>1. y.taken \in Nat /\ y.read \in Nat /\ y.reply \in Seq(Cells) /\ y.taken <= y.read
  BY DEF Conns, Served
<1> DEFINE k == y.taken \div 2
<1>2. k \in Nat /\ k <= y.read \div 2 /\ y.read \div 2 \in Nat  BY <1>1
<1>3. CASE y.at = "read"
  <2>1. z \o <<>> = z  BY Nothing
  <2>2. y.reply = <<>> /\ z = Responses(k)  BY <1>3 DEF Served
  <2>3. InOrder(Told(y, z), k)  BY <2>1, <2>2 DEF Told, InOrder
  <2>4. k \in 0 .. y.read \div 2  BY <1>2
  <2>. QED  BY <2>3, <2>4
<1>4. CASE y.at = "write408"
  <2>1. InOrder(Told(y, z), k)  BY <1>4 DEF Served, InOrder
  <2>2. k \in 0 .. y.read \div 2  BY <1>2
  <2>. QED  BY <2>1, <2>2
<1>5. CASE y.at = "write"
  <2>1. y.taken + 2 <= y.read /\ Told(y, z) = Responses(k + 1)  BY <1>5 DEF Served
  <2>2. k + 1 \in 0 .. y.read \div 2  BY <1>1, <1>2, <2>1
  <2>. QED  BY <2>1, <2>2 DEF InOrder
<1>. QED  BY <1>3, <1>4, <1>5

\* A write that fails, a client's end or an idle timer: the connection goes to its close.
LEMMA ToCloseStep ==
    ASSUME HttpInv, NEW c \in Clients, srv[c].at \in {"read", "write", "write408"},
           srv' = [srv EXCEPT ![c].at = "close"], UNCHANGED <<cli, said, openConnections>>
    PROVE  HttpInv'
<1>1. /\ cli[c] \in Sides /\ srv[c] \in Conns /\ said[c] \in Seq(Cells)
      /\ Served(AllToSay(c), cli[c], srv[c], said[c]) /\ Heard(cli[c], srv[c], said[c])
  BY Here
<1> DEFINE y == [srv[c] EXCEPT !.at = "close"]
<1>2. /\ y \in Conns /\ y.at = "close" /\ y.read = srv[c].read /\ y.taken = srv[c].taken
      /\ y.reply = srv[c].reply
  BY <1>1 DEF Conns
<1>3. srv' = [srv EXCEPT ![c] = y]  BY <1>1
<1> HIDE DEF y
<1>4. \E k \in 0 .. y.read \div 2 : InOrder(Told(y, said[c]), k)
  <2>1. \E k \in 0 .. srv[c].read \div 2 : InOrder(Told(srv[c], said[c]), k)  BY <1>1, Closing
  <2>. QED  BY <1>2, <2>1 DEF Told
<1>5. Served(AllToSay(c), cli[c], y, said[c])  BY <1>1, <1>2, <1>4 DEF Served
<1>6. Heard(cli[c], y, said[c])  BY <1>1, <1>2 DEF Heard
<1>. QED  BY <1>2, <1>3, <1>5, <1>6, ServerMoves

\* A write to a client that has gone ends its connection (writeAll).
LEMMA WriteFailsStep ==
    ASSUME HttpInv, NEW c \in Clients, WriteFails(c)
    PROVE  HttpInv'
BY ToCloseStep DEF WriteFails

\* The client's end ends its connection (readWithTimeout).
LEMMA ReadEndsStep ==
    ASSUME HttpInv, NEW c \in Clients, ReadEnds(c)
    PROVE  HttpInv'
BY ToCloseStep DEF ReadEnds

\* After the response: exactly what it consumed is dropped, and what is buffered is answered.
LEMMA WrittenStep ==
    ASSUME HttpInv, NEW c \in Clients, Written(c)
    PROVE  HttpInv'
<1>1. /\ cli[c] \in Sides /\ srv[c] \in Conns /\ said[c] \in Seq(Cells)
      /\ Served(AllToSay(c), cli[c], srv[c], said[c]) /\ Heard(cli[c], srv[c], said[c])
  BY Here
<1>2. CASE ~(srv[c].at = "write" /\ srv[c].keep)  BY <1>2, ToCloseStep DEF Written
<1>3. CASE srv[c].at = "write" /\ srv[c].keep
  <2> DEFINE w == IF Buffered(c) > 2 THEN "handle" ELSE "read"
             y == [srv[c] EXCEPT !.taken = srv[c].taken + 2, !.at = w]
  <2>1. /\ srv[c].taken \in Nat /\ srv[c].read \in Nat /\ srv[c].taken + 2 <= srv[c].read
        /\ srv[c].taken = 2 * (srv[c].taken \div 2) /\ srv[c].reply = <<>>
        /\ Told(srv[c], said[c]) = Responses(srv[c].taken \div 2 + 1)
    BY <1>1, <1>3 DEF Served, Conns, Written
  <2>9. w \in {"handle", "read"} /\ (w = "read" => srv[c].read <= srv[c].taken + 2)
    BY <2>1 DEF Buffered
  <2>3. srv' = [srv EXCEPT ![c] = y] /\ UNCHANGED <<cli, said, openConnections>>
    BY <1>1, <1>3 DEF Written
  <2> HIDE DEF w
  <2>10. srv[c].taken + 2 \in Nat  BY <2>1
  <2>2. /\ y \in Conns /\ y.at = w /\ y.read = srv[c].read /\ y.taken = srv[c].taken + 2
        /\ y.reply = srv[c].reply
    BY <1>1, <2>9, <2>10 DEF Conns
  <2> HIDE DEF y
  <2>4. w \in {"handle", "read"} /\ (w = "read" => y.read < y.taken + 2)
    BY <2>1, <2>2, <2>9
  <2>5. y.taken \div 2 = srv[c].taken \div 2 + 1 /\ y.taken = 2 * (y.taken \div 2) /\ y.taken <= y.read
    BY <2>1, <2>2
  <2>6. said[c] = Responses(y.taken \div 2)  BY <1>1, <2>1, <2>5, Nothing DEF Told
  <2>7. Served(AllToSay(c), cli[c], y, said[c])  BY <1>1, <2>1, <2>2, <2>4, <2>5, <2>6 DEF Served
  <2>8. Heard(cli[c], y, said[c])  BY <1>1, <1>3, <2>2 DEF Heard
  <2>. QED  BY <1>3, <2>2, <2>3, <2>4, <2>7, <2>8, ServerMoves
<1>. QED  BY <1>2, <1>3

\* readWithTimeout: bytes have come, and handle looks at them.
LEMMA ReadStep ==
    ASSUME HttpInv, NEW c \in Clients, Read(c)
    PROVE  HttpInv'
<1>1. /\ cli[c] \in Sides /\ srv[c] \in Conns /\ said[c] \in Seq(Cells)
      /\ Served(AllToSay(c), cli[c], srv[c], said[c]) /\ Heard(cli[c], srv[c], said[c])
  BY Here
<1>2. PICK n \in 1 .. cli[c].sent - srv[c].read :
         srv' = [srv EXCEPT ![c].read = @ + n, ![c].at = "handle"]
  BY DEF Read
<1>3. srv[c].read \in Nat /\ srv[c].taken \in Nat /\ cli[c].sent \in Nat /\ srv[c].taken <= srv[c].read
  BY <1>1 DEF Conns, Sides, Served
<1> DEFINE y == [srv[c] EXCEPT !.read = srv[c].read + n, !.at = "handle"]
<1>10. srv[c].read + n \in Nat  BY <1>3
<1>4. /\ y \in Conns /\ y.at = "handle" /\ y.read = srv[c].read + n /\ y.taken = srv[c].taken
      /\ y.reply = srv[c].reply
  BY <1>1, <1>10 DEF Conns
<1>5. srv' = [srv EXCEPT ![c] = y] /\ UNCHANGED <<cli, said, openConnections>>  BY <1>1, <1>2 DEF Read
<1> HIDE DEF y
<1>6. y.taken <= y.read /\ y.read <= cli[c].sent  BY <1>3, <1>4
<1>7. srv[c].at = "read"  BY DEF Read
<1>8. Served(AllToSay(c), cli[c], y, said[c])  BY <1>1, <1>4, <1>6, <1>7 DEF Served
<1>9. Heard(cli[c], y, said[c])  BY <1>1, <1>4, <1>7 DEF Heard
<1>. QED  BY <1>4, <1>5, <1>7, <1>8, <1>9, ServerMoves

\* readWithTimeout: the timer, on part of a request a 408 and on nothing the close.
LEMMA ReadTimesOutStep ==
    ASSUME HttpInv, NEW c \in Clients, ReadTimesOut(c)
    PROVE  HttpInv'
<1>1. /\ cli[c] \in Sides /\ srv[c] \in Conns /\ said[c] \in Seq(Cells)
      /\ Served(AllToSay(c), cli[c], srv[c], said[c]) /\ Heard(cli[c], srv[c], said[c])
  BY Here
<1>2. CASE ~(Buffered(c) > 0)  BY <1>2, ToCloseStep DEF ReadTimesOut
<1>3. CASE Buffered(c) > 0
  <2> DEFINE y == [srv[c] EXCEPT !.at = "write408", !.reply = Timeout408]
  <2>1. Timeout408 \in Seq(Cells)  BY MessageIs DEF Timeout408
  <2>2. /\ y \in Conns /\ y.at = "write408" /\ y.read = srv[c].read /\ y.taken = srv[c].taken
        /\ y.reply = Timeout408
    BY <1>1, <2>1 DEF Conns
  <2>3. srv' = [srv EXCEPT ![c] = y] /\ UNCHANGED <<cli, said, openConnections>>
    BY <1>1, <1>3 DEF ReadTimesOut
  <2> HIDE DEF y
  <2>4. srv[c].at = "read" /\ said[c] = Responses(srv[c].taken \div 2)  BY <1>1 DEF ReadTimesOut, Served
  <2>5. Told(y, said[c]) = Responses(y.taken \div 2) \o Timeout408  BY <2>2, <2>4 DEF Told
  <2>6. Served(AllToSay(c), cli[c], y, said[c])  BY <1>1, <2>2, <2>5 DEF Served
  <2>7. Heard(cli[c], y, said[c])  BY <1>1, <2>2, <2>4 DEF Heard
  <2>. QED  BY <2>2, <2>3, <2>4, <2>6, <2>7, ServerMoves
<1>. QED  BY <1>2, <1>3

\* serveConnection's finally: the socket is closed.
LEMMA CloseStep ==
    ASSUME HttpInv, NEW c \in Clients, Close(c)
    PROVE  HttpInv'
<1>1. /\ cli[c] \in Sides /\ srv[c] \in Conns /\ said[c] \in Seq(Cells)
      /\ Served(AllToSay(c), cli[c], srv[c], said[c]) /\ Heard(cli[c], srv[c], said[c])
  BY Here
<1> DEFINE y == [srv[c] EXCEPT !.at = "closed"]
<1>2. /\ y \in Conns /\ y.at = "closed" /\ y.read = srv[c].read /\ y.taken = srv[c].taken
      /\ y.reply = srv[c].reply
  BY <1>1 DEF Conns
<1>3. srv' = [srv EXCEPT ![c] = y] /\ UNCHANGED <<cli, said, openConnections>> /\ srv[c].at = "close"
  BY <1>1 DEF Close
<1> HIDE DEF y
<1>4. Served(AllToSay(c), cli[c], y, said[c])  BY <1>1, <1>2, <1>3 DEF Served, Told
<1>5. Heard(cli[c], y, said[c])  BY <1>1, <1>2, <1>3 DEF Heard
<1>. QED  BY <1>2, <1>3, <1>4, <1>5, ServerMoves

\* The count is let go once, by a connection that was inside.
LEMMA UncountStep ==
    ASSUME HttpInv, NEW c \in Clients, Uncount(c)
    PROVE  HttpInv'
<1>1. /\ cli[c] \in Sides /\ srv[c] \in Conns /\ said[c] \in Seq(Cells)
      /\ Served(AllToSay(c), cli[c], srv[c], said[c]) /\ Heard(cli[c], srv[c], said[c])
  BY Here
<1> DEFINE y == [srv[c] EXCEPT !.at = "gone"]
<1>2. /\ y \in Conns /\ y.at = "gone" /\ y.read = srv[c].read /\ y.taken = srv[c].taken
      /\ y.reply = srv[c].reply
  BY <1>1 DEF Conns
<1>3. /\ srv' = [srv EXCEPT ![c] = y] /\ UNCHANGED <<cli, said>> /\ srv[c].at = "closed"
      /\ openConnections' = openConnections - 1
  BY <1>1 DEF Uncount
<1> HIDE DEF y
<1>4. Served(AllToSay(c), cli[c], y, said[c])  BY <1>1, <1>2, <1>3 DEF Served, Told
<1>5. Heard(cli[c], y, said[c])  BY <1>1, <1>2, <1>3 DEF Heard
<1>6. CountIsExact' /\ openConnections' \in Nat
  <2>1. Inside' = Inside \ {c}  BY <1>2, <1>3 DEF Inside, HttpInv, HttpTyped
  <2>2. c \in Inside  BY <1>3 DEF Inside
  <2>3. IsFiniteSet(Inside)  BY HttpAssumption, FS_Subset DEF Inside
  <2>4. /\ openConnections = Cardinality(Inside) /\ openConnections \in Nat
        /\ openConnections <= MaxConnections
    BY DEF HttpInv, HttpTyped, CountIsExact, Inside
  <2>5. Cardinality(Inside') = openConnections - 1 /\ IsFiniteSet(Inside')
    BY <2>1, <2>2, <2>3, <2>4, FS_RemoveElement
  <2>6. Cardinality(Inside') \in Nat  BY <2>5, FS_CardinalityType
  <2>7. /\ openConnections' = Cardinality(Inside') /\ openConnections' <= MaxConnections
        /\ openConnections' \in Nat
    BY <1>3, <2>4, <2>5, <2>6, HttpAssumption
  <2>. QED  BY <2>7 DEF CountIsExact, Inside
<1>. QED  BY <1>2, <1>3, <1>4, <1>5, <1>6, Here, OneMoves

\* A client writes part of its requests, or is done writing.
LEMMA SendStep ==
    ASSUME HttpInv, NEW c \in Clients, Send(c)
    PROVE  HttpInv'
<1>1. /\ cli[c] \in Sides /\ srv[c] \in Conns /\ said[c] \in Seq(Cells)
      /\ Served(AllToSay(c), cli[c], srv[c], said[c]) /\ Heard(cli[c], srv[c], said[c])
  BY Here
<1>2. PICK n \in 1 .. 2 * Len(Requests[c]) - cli[c].sent : cli' = [cli EXCEPT ![c].sent = @ + n]
  BY DEF Send
<1>3. srv[c].read \in Nat /\ cli[c].sent \in Nat /\ srv[c].read <= cli[c].sent
  BY <1>1 DEF Conns, Sides, Served
<1> DEFINE x == [cli[c] EXCEPT !.sent = cli[c].sent + n]
<1>4. /\ x \in Sides /\ x.at = cli[c].at /\ x.sent = cli[c].sent + n /\ x.got = cli[c].got
      /\ x.result = cli[c].result
  BY <1>1, <1>3 DEF Sides
<1>5. cli' = [cli EXCEPT ![c] = x] /\ UNCHANGED <<srv, said, openConnections>>  BY <1>1, <1>2 DEF Send
<1> HIDE DEF x
<1>6. srv[c].read <= x.sent /\ x.sent <= AllToSay(c)  BY <1>3, <1>4, RequestsAre
<1>7. Served(AllToSay(c), x, srv[c], said[c])  BY <1>1, <1>6 DEF Served
<1>8. Heard(x, srv[c], said[c])  BY <1>1, <1>4 DEF Heard
<1>. QED  BY <1>4, <1>5, <1>7, <1>8, ClientMoves

\* A client goes on to read, throws or leaves: nothing it holds changes.
LEMMA ClientAt ==
    ASSUME HttpInv, NEW c \in Clients, NEW w \in {"read", "done", "left"},
           NEW s \in {cli[c].result, "thrown"}, cli' = [cli EXCEPT ![c].at = w, ![c].result = s],
           UNCHANGED <<srv, said, openConnections>>
    PROVE  HttpInv'
<1>1. /\ cli[c] \in Sides /\ srv[c] \in Conns /\ said[c] \in Seq(Cells)
      /\ Served(AllToSay(c), cli[c], srv[c], said[c]) /\ Heard(cli[c], srv[c], said[c])
  BY Here
<1> DEFINE x == [cli[c] EXCEPT !.at = w, !.result = s]
<1>2. x \in Sides /\ x.at = w /\ x.sent = cli[c].sent /\ x.got = cli[c].got /\ x.result = s
  BY <1>1 DEF Sides
<1>3. cli' = [cli EXCEPT ![c] = x]  BY <1>1
<1> HIDE DEF x
<1>4. Served(AllToSay(c), x, srv[c], said[c])  BY <1>1, <1>2 DEF Served
<1>5. Heard(x, srv[c], said[c])  BY <1>1, <1>2 DEF Heard
<1>. QED  BY <1>2, <1>3, <1>4, <1>5, ClientMoves

\* A client has written all of its requests and reads.
LEMMA SentStep ==
    ASSUME HttpInv, NEW c \in Clients, Sent(c)
    PROVE  HttpInv'
<1>1. cli[c] \in Sides  BY Here
<1>2. cli' = [cli EXCEPT ![c].at = "read", ![c].result = cli[c].result]  BY <1>1 DEF Sent, Sides, HttpInv, HttpTyped
<1>. QED  BY <1>2, ClientAt DEF Sent

\* A client goes away.
LEMMA LeaveStep ==
    ASSUME HttpInv, NEW c \in Clients, Leave(c)
    PROVE  HttpInv'
<1>1. cli[c] \in Sides  BY Here
<1>2. cli' = [cli EXCEPT ![c].at = "left", ![c].result = cli[c].result]  BY <1>1 DEF Leave, Sides, HttpInv, HttpTyped
<1>. QED  BY <1>2, ClientAt DEF Leave

\* A write to a server that has closed is thrown (client.ts).
LEMMA SendFailsStep ==
    ASSUME HttpInv, NEW c \in Clients, SendFails(c)
    PROVE  HttpInv'
BY ClientAt DEF SendFails

\* The beginning of a sequence.
LEMMA Prefix ==
    ASSUME NEW s \in Seq(Cells), NEW m \in Nat, m <= Len(s)
    PROVE  /\ SubSeq(s, 1, m) \in Seq(Cells) /\ Len(SubSeq(s, 1, m)) = m
           /\ \A i \in 1 .. m : SubSeq(s, 1, m)[i] = s[i]
OBVIOUS

\* requestOver: what has come is parsed, and called whole only when it is.
LEMMA ReceiveStep ==
    ASSUME HttpInv, NEW c \in Clients, Receive(c)
    PROVE  HttpInv'
<1>1. /\ cli[c] \in Sides /\ srv[c] \in Conns /\ said[c] \in Seq(Cells)
      /\ Served(AllToSay(c), cli[c], srv[c], said[c]) /\ Heard(cli[c], srv[c], said[c])
  BY Here
<1>2. /\ Len(said[c]) \in Nat /\ Len(cli[c].got) \in Nat /\ Len(cli[c].got) <= Len(said[c])
      /\ cli[c].at = "read"
  BY <1>1 DEF Sides, Heard, Receive
<1> DEFINE unread == Len(said[c]) - Len(cli[c].got)
<1>3. PICK n \in (IF unread > 0 THEN 1 .. unread ELSE {0}) :
        cli' = [cli EXCEPT ![c].got = SubSeq(said[c], 1, Len(cli[c].got) + n),
                  ![c].result = IF ParseResponse(SubSeq(said[c], 1, Len(cli[c].got) + n), n = 0) = "ok"
                                THEN "ok" ELSE IF n = 0 THEN "truncated" ELSE @,
                  ![c].at = IF Len(SubSeq(said[c], 1, Len(cli[c].got) + n)) < 2 * Len(Requests[c]) /\ n # 0
                            THEN "read" ELSE "done"]
  BY DEF Receive
<1>4. /\ n \in Nat /\ Len(cli[c].got) + n \in Nat /\ Len(cli[c].got) + n <= Len(said[c])
      /\ (n = 0 => Len(cli[c].got) = Len(said[c]))
  <2>1. \A p, q \in Nat : p <= q =>
          \A i \in (IF q - p > 0 THEN 1 .. (q - p) ELSE {0}) :
            i \in Nat /\ p + i \in Nat /\ p + i <= q /\ (i = 0 => p = q)
    OBVIOUS
  <2>. QED  BY <1>2, <2>1
<1> DEFINE m == Len(cli[c].got) + n
           g == SubSeq(said[c], 1, m)
           s == IF ParseResponse(g, n = 0) = "ok" THEN "ok" ELSE IF n = 0 THEN "truncated" ELSE cli[c].result
           w == IF Len(g) < 2 * Len(Requests[c]) /\ n # 0 THEN "read" ELSE "done"
           x == [cli[c] EXCEPT !.got = g, !.result = s, !.at = w]
<1>5. cli' = [cli EXCEPT ![c] = x] /\ UNCHANGED <<srv, said, openConnections>>  BY <1>1, <1>3 DEF Receive
<1>6. g \in Seq(Cells) /\ Len(g) = m /\ \A i \in 1 .. m : g[i] = said[c][i]  BY <1>1, <1>4, Prefix
<1> HIDE DEF g
<1>7. w \in {"read", "done"}  OBVIOUS
<1>8. \/ s = "ok" /\ m >= 2
      \/ s = "truncated" /\ n = 0 /\ m < 2
      \/ s = cli[c].result /\ n # 0 /\ m < 2
  <2>1. ParseResponse(g, n = 0) = IF m >= 2 THEN "ok" ELSE "incomplete"  BY <1>6 DEF ParseResponse
  <2>2. m >= 2 \/ m < 2  BY <1>4
  <2>3. m < 2 => ~(m >= 2)  BY <1>4
  <2>. QED  BY <2>1, <2>2, <2>3
<1> HIDE DEF w, s
<1>9. s \in {"none", "ok", "truncated", "thrown"}  BY <1>1, <1>8 DEF Sides
<1>10. x \in Sides /\ x.at = w /\ x.sent = cli[c].sent /\ x.got = g /\ x.result = s
  BY <1>1, <1>6, <1>7, <1>9 DEF Sides
<1> HIDE DEF x
<1>11. Served(AllToSay(c), x, srv[c], said[c])  BY <1>1, <1>10 DEF Served
<1>12. Heard(x, srv[c], said[c])
  <2>1. x.at # "new"  BY <1>7, <1>10
  <2>2. Len(x.got) <= Len(said[c]) /\ \A i \in 1 .. Len(x.got) : x.got[i] = said[c][i]
    BY <1>4, <1>6, <1>10
  <2>3. x.result = "ok" => Len(x.got) >= 2
    <3>1. cli[c].result = "ok" => Len(cli[c].got) >= 2  BY <1>1 DEF Heard
    <3>. QED  BY <1>2, <1>4, <1>6, <1>8, <1>10, <3>1
  <2>4. x.result = "truncated" => srv[c].at \in {"refused", "closed", "gone"} /\ Len(said[c]) < 2
    <3>1. SUFFICES ASSUME x.result = "truncated"
                   PROVE  srv[c].at \in {"refused", "closed", "gone"} /\ Len(said[c]) < 2
      OBVIOUS
    <3>2. CASE n = 0
      <4>1. m < 2 /\ m = Len(said[c])  BY <1>2, <1>4, <1>8, <1>10, <3>1, <3>2
      <4>0. Len(cli[c].got) = Len(said[c])  BY <1>4, <3>2
      <4>2. ~(unread > 0)  BY <1>2, <4>0
      <4>3. Shut(c)  BY <4>2 DEF Receive
      <4>. QED  BY <4>1, <4>3 DEF Shut
    <3>3. CASE n # 0
      <4>1. cli[c].result = "truncated"  BY <1>8, <1>10, <3>1, <3>3
      <4>. QED  BY <1>1, <4>1 DEF Heard
    <3>. QED  BY <3>2, <3>3
  <2>. QED  BY <2>1, <2>2, <2>3, <2>4 DEF Heard
<1>. QED  BY <1>5, <1>10, <1>11, <1>12, ClientMoves

\* Every step of the server and of its clients keeps the invariant.
LEMMA HttpStep == HttpInv /\ [HttpNext]_httpVars => HttpInv'
<1>1. SUFFICES ASSUME HttpInv, [HttpNext]_httpVars PROVE HttpInv'  OBVIOUS
<1>2. CASE UNCHANGED httpVars
  BY <1>1, <1>2 DEF httpVars, HttpInv, HttpTyped, CountIsExact, Well, AllToSay
<1>3. CASE HttpNext
  <2>1. PICK c \in Clients : \/ Accept(c) \/ ServerStep(c) \/ ReadTimesOut(c)
                             \/ Send(c) \/ Sent(c) \/ SendFails(c) \/ Receive(c) \/ Leave(c)
    BY <1>3 DEF HttpNext
  <2>2. CASE Accept(c) \/ ReadTimesOut(c)  BY <1>1, <2>2, AcceptStep, ReadTimesOutStep
  <2>3. CASE ServerStep(c)
    BY <1>1, <2>3, HandleStep, WriteAllStep, WriteFailsStep, WrittenStep, ReadStep, ReadEndsStep,
       CloseStep, UncountStep DEF ServerStep
  <2>4. CASE Send(c) \/ Sent(c) \/ SendFails(c) \/ Receive(c) \/ Leave(c)
    BY <1>1, <2>4, SendStep, SentStep, SendFailsStep, ReceiveStep, LeaveStep
  <2>. QED  BY <2>1, <2>2, <2>3, <2>4
<1>. QED  BY <1>1, <1>2, <1>3

-----------------------------------------------------------------------------

\* What a connection has said and has still to say is in order.
LEMMA AllInOrder ==
    ASSUME HttpInv, NEW c \in Clients
    PROVE  \E k \in 0 .. srv[c].read \div 2 : InOrder(Told(srv[c], said[c]), k)
<1>1. /\ cli[c] \in Sides /\ srv[c] \in Conns /\ said[c] \in Seq(Cells)
      /\ Served(AllToSay(c), cli[c], srv[c], said[c]) /\ Heard(cli[c], srv[c], said[c])
  BY Here
<1>2. srv[c].read \in Nat /\ srv[c].taken \in Nat /\ srv[c].taken <= srv[c].read
  BY <1>1 DEF Conns, Served
<1>3. CASE srv[c].at \in {"none", "refused"}
  <2>1. InOrder(Told(srv[c], said[c]), 0)  BY <1>1, <1>3 DEF Served, InOrder
  <2>2. 0 \in 0 .. srv[c].read \div 2  BY <1>2
  <2>. QED  BY <2>1, <2>2
<1>4. CASE srv[c].at \in {"close", "closed", "gone"}  BY <1>1, <1>4 DEF Served
<1>5. CASE srv[c].at \in {"read", "write", "write408"}  BY <1>1, <1>5, Closing
<1>6. CASE srv[c].at = "handle"
  <2>1. srv[c].reply = <<>> /\ said[c] = Responses(srv[c].taken \div 2)  BY <1>1, <1>6 DEF Served
  <2>2. Told(srv[c], said[c]) = said[c]  BY <1>1, <2>1, Nothing DEF Told
  <2>3. InOrder(Told(srv[c], said[c]), srv[c].taken \div 2)  BY <2>1, <2>2 DEF InOrder
  <2>4. srv[c].taken \div 2 \in 0 .. srv[c].read \div 2  BY <1>2
  <2>. QED  BY <2>3, <2>4
<1>. QED  BY <1>1, <1>3, <1>4, <1>5, <1>6 DEF Conns

\* The invariant says what HttpTypeOK does.
LEMMA TypesHold == HttpInv => HttpTypeOK
<1>1. SUFFICES ASSUME HttpInv PROVE HttpTypeOK  OBVIOUS
<1>2. ASSUME NEW c \in Clients
      PROVE  /\ cli[c].at \in {"new", "write", "read", "done", "left"}
             /\ cli[c].sent \in 0 .. 2 * Len(Requests[c]) /\ srv[c].read \in 0 .. cli[c].sent
             /\ cli[c].result \in {"none", "ok", "truncated", "thrown"}
             /\ srv[c].at \in {"none", "handle", "write", "write408", "read", "close", "closed",
                               "gone", "refused"}
             /\ srv[c].taken \in 0 .. srv[c].read
  <2>1. /\ cli[c] \in Sides /\ srv[c] \in Conns /\ Served(AllToSay(c), cli[c], srv[c], said[c])
    BY <1>1, Here
  <2>2. /\ cli[c].sent \in Nat /\ srv[c].read \in Nat /\ srv[c].taken \in Nat
        /\ srv[c].taken <= srv[c].read /\ srv[c].read <= cli[c].sent /\ cli[c].sent <= AllToSay(c)
    BY <2>1 DEF Sides, Conns, Served
  <2>3. cli[c].sent \in 0 .. 2 * Len(Requests[c]) /\ srv[c].read \in 0 .. cli[c].sent
        /\ srv[c].taken \in 0 .. srv[c].read
    BY <2>2, RequestsAre
  <2>. QED  BY <2>1, <2>3 DEF Sides, Conns
<1>. QED  BY <1>1, <1>2 DEF HttpTypeOK, HttpInv, HttpTyped

\* What a client calls a response is its own or the 408, whole (requestOver).
LEMMA ResultsHold == HttpInv => ResultIsTrue
<1>1. SUFFICES ASSUME HttpInv, NEW c \in Clients
               PROVE  /\ cli[c].result = "ok" => SubSeq(cli[c].got, 1, 2) \in {Message(1), Timeout408}
                      /\ cli[c].result = "truncated" => Shut(c) /\ Len(said[c]) < 2
  BY DEF ResultIsTrue
<1>2. /\ cli[c] \in Sides /\ srv[c] \in Conns /\ said[c] \in Seq(Cells)
      /\ Heard(cli[c], srv[c], said[c])
  BY <1>1, Here
<1>3. cli[c].result = "truncated" => Shut(c) /\ Len(said[c]) < 2  BY <1>2 DEF Heard, Shut
<1>4. ASSUME cli[c].result = "ok" PROVE SubSeq(cli[c].got, 1, 2) \in {Message(1), Timeout408}
  <2> DEFINE g == cli[c].got
             z == said[c]
             f == SubSeq(g, 1, 2)
             r == srv[c].reply
             t == z \o r
  <2>1. /\ g \in Seq(Cells) /\ z \in Seq(Cells) /\ r \in Seq(Cells) /\ Len(g) >= 2 /\ Len(g) <= Len(z)
        /\ \A i \in 1 .. Len(g) : g[i] = z[i]
    BY <1>2, <1>4 DEF Sides, Conns, Heard
  <2>2. f \in Seq(Cells) /\ Len(f) = 2 /\ \A i \in 1 .. 2 : f[i] = g[i]  BY <2>1, Prefix
  <2>3. PICK k \in 0 .. srv[c].read \div 2 : InOrder(t, k)  BY <1>1, AllInOrder DEF Told
  <2>4. k \in Nat
    <3>1. srv[c].read \div 2 \in Nat  BY <1>2 DEF Conns
    <3>. QED  BY <3>1
  <2>5. Len(t) = Len(z) + Len(r) /\ \A i \in 1 .. Len(z) : t[i] = z[i]  BY <2>1, Joined
  <2> HIDE DEF g, z, f, t
  <2>6. Len(g) \in Nat /\ Len(z) \in Nat /\ Len(r) \in Nat  BY <2>1
  <2>7. Len(t) >= 2 /\ 1 \in 1 .. Len(z) /\ 2 \in 1 .. Len(z) /\ 1 \in 1 .. Len(g) /\ 2 \in 1 .. Len(g)
    BY <2>1, <2>5, <2>6
  <2>8. \/ t[1] = <<1, 1>> /\ t[2] = <<1, 2>>
        \/ t[1] = <<0, 1>> /\ t[2] = <<0, 2>>
    BY <2>3, <2>4, <2>7, FirstMessage
  <2>9. f[1] = t[1] /\ f[2] = t[2]
    <3>1. 1 \in 1 .. 2 /\ 2 \in 1 .. 2  OBVIOUS
    <3>2. f[1] = g[1] /\ f[2] = g[2]  BY <2>2, <3>1, Zenon
    <3>3. g[1] = z[1] /\ g[2] = z[2]  BY <2>1, <2>7, Zenon
    <3>4. t[1] = z[1] /\ t[2] = z[2]  BY <2>5, <2>7, Zenon
    <3>. QED  BY <3>2, <3>3, <3>4, Zenon
  <2>10. \A i \in 1 .. 2 : i = 1 \/ i = 2  OBVIOUS
  <2>11. ASSUME NEW j \in Nat, f[1] = <<j, 1>>, f[2] = <<j, 2>> PROVE f = Message(j)
    <3>1. Message(j) \in Seq(Cells) /\ Len(Message(j)) = 2 /\ \A i \in 1 .. 2 : f[i] = Message(j)[i]
      BY <2>10, <2>11, MessageIs
    <3>. QED  BY <2>2, <3>1, SeqEqual
  <2>12. f = Message(1) \/ f = Message(0)  BY <2>8, <2>9, <2>11
  <2>. QED  BY <2>12 DEF f, g, Timeout408
<1>. QED  BY <1>3, <1>4

\* The invariant says what ServerTellsTheTruth does.
LEMMA HttpIsTrue == HttpInv => ServerTellsTheTruth
<1>1. SUFFICES ASSUME HttpInv PROVE ServerTellsTheTruth  OBVIOUS
<1>2. AnsweredInOrder  BY <1>1, AllInOrder DEF AnsweredInOrder, InOrder, Told
<1>3. NothingWaitsBuffered
  <2>1. SUFFICES ASSUME NEW c \in Clients, srv[c].at = "read"
                 PROVE  said[c] = Responses(srv[c].read \div 2)
    BY DEF NothingWaitsBuffered
  <2>2. srv[c] \in Conns /\ Served(AllToSay(c), cli[c], srv[c], said[c])  BY <1>1, Here
  <2>3. /\ srv[c].taken \in Nat /\ srv[c].read \in Nat /\ srv[c].taken <= srv[c].read
        /\ srv[c].read < srv[c].taken + 2 /\ srv[c].taken = 2 * (srv[c].taken \div 2)
        /\ said[c] = Responses(srv[c].taken \div 2)
    BY <2>1, <2>2 DEF Conns, Served
  <2>4. srv[c].read \div 2 = srv[c].taken \div 2  BY <2>3
  <2>. QED  BY <2>3, <2>4
<1>. QED  BY <1>1, <1>2, <1>3, TypesHold, ResultsHold DEF ServerTellsTheTruth, HttpInv

\* For any number of clients and any limit: a connection is told the responses to its requests in
\* order, each once and whole, with at most one 408 last; a connection that reads has answered all
\* that came whole; the count is exact and within the limit; and a client calls a response whole
\* only when it is (serveConnection, listen of serve.ts; requestOver of client.ts).
THEOREM ServerIsTruthful == HttpSpec => []ServerTellsTheTruth
<1>1. HttpInv /\ [HttpNext]_httpVars => HttpInv'  BY HttpStep
<1>. QED  BY <1>1, HttpBegins, HttpIsTrue, PTL DEF HttpSpec

-----------------------------------------------------------------------------
(* Ports and retries (port.ts, spawnRetry.ts, deadline.ts) *)

\* Where a caller of withPort is.
Stages == {"new", "hold", "held", "spawn", "bind", "silent", "ready", "started", "thrown"}
\* What a caller keeps.
Callers == [at : Stages, port : Ports \cup {0}, attempt : 1 .. PortAttempts, spawns : 1 .. SpawnAttempts]
\* The stages at which a caller has a port in hand.
Holding == {"held", "spawn", "bind", "silent", "ready", "started"}

\* The types.
RetryTyped ==
    /\ handed \subseteq Ports /\ bound \in [Ports -> {"free", "probe", "other"} \cup Tests]
    /\ caller \in [Tests -> Callers] /\ serverLine \in [Tests -> {"none", "line", "ended"}]

\* What a caller has been given was handed out, to nobody else, once an attempt.
GivenOnce ==
    /\ got \in [Tests -> SUBSET handed]
    /\ \A s, t \in Tests : s # t => got[s] \cap got[t] = {}
    /\ \A t \in Tests :
         /\ IsFiniteSet(got[t])
         /\ caller[t].at \in {"new", "hold"} => Cardinality(got[t]) = caller[t].attempt - 1
         /\ caller[t].at \in Holding =>
              Cardinality(got[t]) = caller[t].attempt /\ caller[t].port \in got[t]

\* The inductive invariant of the callers.
RetryInv == RetryTyped /\ GivenOnce /\ StartedHasItsPort

\* Callers that have asked for nothing.
LEMMA RetryBegins == ASSUME RetryInit PROVE RetryInv
<1> DEFINE c == [at |-> "new", port |-> 0, attempt |-> 1, spawns |-> 1]
<1>1. PortAttempts \in Nat \ {0} /\ SpawnAttempts \in Nat \ {0}  BY RetriesAssumption
<1>2. c \in Callers  BY <1>1 DEF Callers, Stages
<1>3. caller \in [Tests -> Callers] /\ \A t \in Tests : caller[t].at = "new" /\ caller[t].attempt = 1
  BY <1>2 DEF RetryInit
<1>4. RetryTyped  BY <1>3 DEF RetryInit, RetryTyped
<1>5. IsFiniteSet({}) /\ Cardinality({}) = 0  BY FS_EmptySet
<1>6. GivenOnce  BY <1>3, <1>5 DEF RetryInit, GivenOnce, Holding
<1>7. StartedHasItsPort  BY <1>3 DEF StartedHasItsPort
<1>. QED  BY <1>4, <1>6, <1>7 DEF RetryInv

\* A caller's step that leaves the ports alone: it goes on with the one it has, or asks again, or
\* is over.
LEMMA CallerMoves ==
    ASSUME RetryInv, NEW t \in Tests, NEW c \in Callers,
           caller' = [caller EXCEPT ![t] = c], c.port = caller[t].port,
           UNCHANGED <<handed, got>>, serverLine' \in [Tests -> {"none", "line", "ended"}],
           bound' \in [Ports -> {"free", "probe", "other"} \cup Tests],
           c.at \in {"new", "hold"} => Cardinality(got[t]) = c.attempt - 1,
           c.at \in Holding => caller[t].at \in Holding /\ c.attempt = caller[t].attempt,
           c.at \in {"ready", "started"} => bound'[c.port] = t,
           \A s \in Tests : s # t /\ caller[s].at \in {"ready", "started"}
                => bound'[caller[s].port] = bound[caller[s].port]
    PROVE  RetryInv'
<1>1. caller \in [Tests -> Callers]  BY DEF RetryInv, RetryTyped
<1>2. /\ caller' \in [Tests -> Callers] /\ caller'[t] = c
      /\ \A s \in Tests : s # t => caller'[s] = caller[s]
  BY <1>1
<1>3. RetryTyped'  BY <1>2 DEF RetryInv, RetryTyped
<1>4. GivenOnce'
  <2>1. ASSUME NEW s \in Tests
        PROVE  /\ IsFiniteSet(got[s])
               /\ caller'[s].at \in {"new", "hold"} => Cardinality(got[s]) = caller'[s].attempt - 1
               /\ caller'[s].at \in Holding =>
                    Cardinality(got[s]) = caller'[s].attempt /\ caller'[s].port \in got[s]
    <3>1. CASE s = t  BY <1>2, <3>1 DEF RetryInv, GivenOnce
    <3>2. CASE s # t  BY <1>2, <3>2 DEF RetryInv, GivenOnce
    <3>. QED  BY <3>1, <3>2
  <2>. QED  BY <2>1 DEF RetryInv, GivenOnce
<1>5. StartedHasItsPort'
  <2>1. SUFFICES ASSUME NEW s \in Tests, caller'[s].at \in {"ready", "started"}
                 PROVE  bound'[caller'[s].port] = s
    BY DEF StartedHasItsPort
  <2>2. CASE s = t  BY <1>2, <2>1, <2>2
  <2>3. CASE s # t  BY <1>2, <2>1, <2>3 DEF RetryInv, StartedHasItsPort
  <2>. QED  BY <2>2, <2>3
<1>. QED  BY <1>3, <1>4, <1>5 DEF RetryInv

\* The port a caller holds is nobody else's.
LEMMA PortIsOwn ==
    ASSUME RetryInv, NEW t \in Tests, caller[t].at \in Holding
    PROVE  /\ caller[t].port \in Ports
           /\ \A s \in Tests : s # t /\ caller[s].at \in {"ready", "started"}
                => caller[s].port # caller[t].port
<1>1. caller[t].port \in got[t]  BY DEF RetryInv, GivenOnce
<1>2. caller[t].port \in Ports  BY <1>1 DEF RetryInv, GivenOnce, RetryTyped
<1>3. ASSUME NEW s \in Tests, s # t, caller[s].at \in {"ready", "started"}
      PROVE  caller[s].port # caller[t].port
  <2>1. caller[s].port \in got[s]  BY <1>3 DEF RetryInv, GivenOnce, Holding
  <2>. QED  BY <1>1, <1>3, <2>1 DEF RetryInv, GivenOnce
<1>. QED  BY <1>2, <1>3

\* withPort is called.
LEMMA WithPortStep == ASSUME RetryInv, NEW t \in Tests, WithPort(t) PROVE RetryInv'
<1> DEFINE c == [caller[t] EXCEPT !.at = "hold"]
<1>1. caller \in [Tests -> Callers] /\ caller[t] \in Callers  BY DEF RetryInv, RetryTyped
<1>2. /\ c \in Callers /\ c.at = "hold" /\ c.attempt = caller[t].attempt /\ c.port = caller[t].port
      /\ caller' = [caller EXCEPT ![t] = c]
  BY <1>1 DEF WithPort, Callers, Stages
<1>3. Cardinality(got[t]) = caller[t].attempt - 1 /\ UNCHANGED <<handed, bound, got, serverLine>>
  BY DEF WithPort, RetryInv, GivenOnce
<1>4. /\ serverLine' \in [Tests -> {"none", "line", "ended"}]
      /\ bound' \in [Ports -> {"free", "probe", "other"} \cup Tests]
  BY <1>3 DEF RetryInv, RetryTyped
<1> HIDE DEF c
<1>. QED  BY <1>2, <1>3, <1>4, CallerMoves DEF Holding

\* holdPort: a port never handed out, held; or an error (port.ts).
LEMMA HoldPortStep == ASSUME RetryInv, NEW t \in Tests, HoldPort(t) PROVE RetryInv'
<1>1. caller \in [Tests -> Callers] /\ caller[t] \in Callers /\ caller[t].at = "hold"
  BY DEF RetryInv, RetryTyped, HoldPort
<1>2. CASE /\ caller' = [caller EXCEPT ![t].at = "thrown"] /\ UNCHANGED <<handed, bound, got, serverLine>>
  <2> DEFINE c == [caller[t] EXCEPT !.at = "thrown"]
  <2>1. /\ c \in Callers /\ c.at = "thrown" /\ c.port = caller[t].port
        /\ caller' = [caller EXCEPT ![t] = c]
    BY <1>1, <1>2 DEF Callers, Stages
  <2>2. /\ serverLine' \in [Tests -> {"none", "line", "ended"}]
        /\ bound' \in [Ports -> {"free", "probe", "other"} \cup Tests]
    BY <1>2 DEF RetryInv, RetryTyped
  <2> HIDE DEF c
  <2>. QED  BY <1>2, <2>1, <2>2, CallerMoves DEF Holding
<1>3. CASE \E p \in {p \in Ports : Holdable(p)} :
              /\ handed' = handed \cup {p} /\ bound' = [bound EXCEPT ![p] = "probe"]
              /\ caller' = [caller EXCEPT ![t].at = "held", ![t].port = p]
              /\ got' = [got EXCEPT ![t] = @ \cup {p}] /\ UNCHANGED serverLine
  <2>1. PICK p \in Ports :
              /\ p \notin handed /\ bound[p] = "free"
              /\ handed' = handed \cup {p} /\ bound' = [bound EXCEPT ![p] = "probe"]
              /\ caller' = [caller EXCEPT ![t].at = "held", ![t].port = p]
              /\ got' = [got EXCEPT ![t] = @ \cup {p}] /\ UNCHANGED serverLine
    BY <1>3 DEF Holdable
  <2> DEFINE c == [caller[t] EXCEPT !.at = "held", !.port = p]
  <2>2. /\ c \in Callers /\ c.at = "held" /\ c.port = p /\ c.attempt = caller[t].attempt
        /\ caller' = [caller EXCEPT ![t] = c]
    BY <1>1, <2>1 DEF Callers, Stages
  <2> HIDE DEF c
  <2>3. /\ caller' \in [Tests -> Callers] /\ caller'[t] = c
        /\ \A s \in Tests : s # t => caller'[s] = caller[s]
    BY <1>1, <2>2
  <2>4. /\ bound \in [Ports -> {"free", "probe", "other"} \cup Tests]
        /\ bound' \in [Ports -> {"free", "probe", "other"} \cup Tests]
        /\ \A q \in Ports : q # p => bound'[q] = bound[q]
    BY <2>1 DEF RetryInv, RetryTyped
  <2>5. RetryTyped'  BY <2>1, <2>3, <2>4 DEF RetryInv, RetryTyped
  <2>6. /\ got \in [Tests -> SUBSET handed] /\ got'[t] = got[t] \cup {p}
        /\ \A s \in Tests : s # t => got'[s] = got[s]
        /\ got' \in [Tests -> SUBSET handed']
    BY <2>1 DEF RetryInv, GivenOnce
  <2>7. \A s \in Tests : p \notin got[s]  BY <2>1, <2>6
  <2>8. IsFiniteSet(got'[t]) /\ Cardinality(got'[t]) = c.attempt
    <3>1. IsFiniteSet(got[t]) /\ Cardinality(got[t]) = caller[t].attempt - 1
      BY <1>1 DEF RetryInv, GivenOnce
    <3>2. caller[t].attempt \in Int  BY <1>1, RetriesAssumption DEF Callers
    <3>3. IsFiniteSet(got[t] \cup {p}) /\ Cardinality(got[t] \cup {p}) = Cardinality(got[t]) + 1
      BY <2>7, <3>1, FS_AddElement
    <3>. QED  BY <2>2, <2>6, <3>1, <3>2, <3>3
  <2>9. GivenOnce'
    <3>1. \A s, u \in Tests : s # u => got'[s] \cap got'[u] = {}
      BY <2>6, <2>7 DEF RetryInv, GivenOnce
    <3>2. ASSUME NEW s \in Tests
          PROVE  /\ IsFiniteSet(got'[s])
                 /\ caller'[s].at \in {"new", "hold"} => Cardinality(got'[s]) = caller'[s].attempt - 1
                 /\ caller'[s].at \in Holding =>
                      Cardinality(got'[s]) = caller'[s].attempt /\ caller'[s].port \in got'[s]
      <4>1. CASE s = t  BY <2>2, <2>3, <2>6, <2>8, <4>1
      <4>2. CASE s # t  BY <2>3, <2>6, <4>2 DEF RetryInv, GivenOnce
      <4>. QED  BY <4>1, <4>2
    <3>. QED  BY <2>6, <3>1, <3>2 DEF GivenOnce
  <2>10. StartedHasItsPort'
    <3>1. SUFFICES ASSUME NEW s \in Tests, caller'[s].at \in {"ready", "started"}
                   PROVE  bound'[caller'[s].port] = s
      BY DEF StartedHasItsPort
    <3>2. s # t  BY <2>2, <2>3, <3>1
    <3>3. caller'[s] = caller[s] /\ bound[caller[s].port] = s
      BY <2>3, <3>1, <3>2 DEF RetryInv, StartedHasItsPort
    <3>4. caller[s].port \in Ports  BY <3>1, <3>3, PortIsOwn DEF Holding
    <3>5. caller[s].port # p
      BY <2>1, <3>3, RetriesAssumption
    <3>. QED  BY <2>4, <3>3, <3>4, <3>5
  <2>. QED  BY <2>5, <2>9, <2>10 DEF RetryInv
<1>. QED  BY <1>2, <1>3 DEF HoldPort

\* A caller lets its port go: it was nobody else's.
LEMMA LetGo ==
    ASSUME RetryInv, NEW t \in Tests, caller[t].at \in Holding,
           NEW at \in {"spawn", "thrown"}, at = "spawn" => caller[t].at = "held",
           bound' = [bound EXCEPT ![caller[t].port] = "free"],
           caller' = [caller EXCEPT ![t].at = at], UNCHANGED <<handed, got, serverLine>>
    PROVE  RetryInv'
<1> DEFINE c == [caller[t] EXCEPT !.at = at]
<1>1. caller \in [Tests -> Callers] /\ caller[t] \in Callers  BY DEF RetryInv, RetryTyped
<1>2. /\ c \in Callers /\ c.at = at /\ c.port = caller[t].port /\ c.attempt = caller[t].attempt
      /\ caller' = [caller EXCEPT ![t] = c]
  BY <1>1 DEF Callers, Stages
<1>3. /\ serverLine' \in [Tests -> {"none", "line", "ended"}]
      /\ bound' \in [Ports -> {"free", "probe", "other"} \cup Tests]
  BY DEF RetryInv, RetryTyped
<1>4. \A s \in Tests : s # t /\ caller[s].at \in {"ready", "started"}
         => bound'[caller[s].port] = bound[caller[s].port]
  <2>1. \A s \in Tests : s # t /\ caller[s].at \in {"ready", "started"}
          => caller[s].port \in Ports /\ caller[s].port # caller[t].port
    BY PortIsOwn DEF Holding
  <2>. QED  BY <2>1 DEF RetryInv, RetryTyped
<1> HIDE DEF c
<1>. QED  BY <1>2, <1>3, <1>4, CallerMoves

\* A spawn is made, tried again or given up (spawnRetry.ts).
LEMMA SpawnStep == ASSUME RetryInv, NEW t \in Tests, Spawn(t) PROVE RetryInv'
<1>1. /\ caller \in [Tests -> Callers] /\ caller[t] \in Callers /\ caller[t].at = "spawn"
      /\ UNCHANGED <<handed, bound, got, serverLine>>
  BY DEF RetryInv, RetryTyped, Spawn
<1>2. SpawnAttempts \in Nat  BY RetriesAssumption
<1>3. /\ serverLine' \in [Tests -> {"none", "line", "ended"}]
      /\ bound' \in [Ports -> {"free", "probe", "other"} \cup Tests]
  BY <1>1 DEF RetryInv, RetryTyped
<1>4. \E c \in Callers : /\ caller' = [caller EXCEPT ![t] = c] /\ c.port = caller[t].port
                         /\ c.attempt = caller[t].attempt /\ c.at \in {"bind", "thrown", "spawn"}
  <2>1. CASE caller' = [caller EXCEPT ![t].at = "bind"]
    <3> DEFINE c == [caller[t] EXCEPT !.at = "bind"]
    <3>1. c \in Callers /\ c.at = "bind" /\ c.port = caller[t].port /\ c.attempt = caller[t].attempt
      BY <1>1 DEF Callers, Stages
    <3>2. caller' = [caller EXCEPT ![t] = c]  BY <2>1
    <3>. QED  BY <3>1, <3>2
  <2>2. CASE caller' = [caller EXCEPT ![t].at = "thrown"]
    <3> DEFINE c == [caller[t] EXCEPT !.at = "thrown"]
    <3>1. c \in Callers /\ c.at = "thrown" /\ c.port = caller[t].port /\ c.attempt = caller[t].attempt
      BY <1>1 DEF Callers, Stages
    <3>2. caller' = [caller EXCEPT ![t] = c]  BY <2>2
    <3>. QED  BY <3>1, <3>2
  <2>3. CASE caller[t].spawns # SpawnAttempts /\ caller' = [caller EXCEPT ![t].spawns = @ + 1]
    <3> DEFINE c == [caller[t] EXCEPT !.spawns = @ + 1]
    <3>1. c \in Callers /\ c.at = "spawn" /\ c.port = caller[t].port /\ c.attempt = caller[t].attempt
      BY <1>1, <1>2, <2>3 DEF Callers, Stages
    <3>2. caller' = [caller EXCEPT ![t] = c]  BY <2>3
    <3>. QED  BY <3>1, <3>2
  <2>. QED  BY <2>1, <2>2, <2>3 DEF Spawn
<1>. QED  BY <1>1, <1>3, <1>4, CallerMoves DEF Holding

\* The server binds the port it was told, or withPort goes round.
LEMMA BindStep == ASSUME RetryInv, NEW t \in Tests, Bind(t) PROVE RetryInv'
<1>1. /\ caller \in [Tests -> Callers] /\ caller[t] \in Callers /\ caller[t].at = "bind"
      /\ caller[t].at \in Holding /\ UNCHANGED <<handed, got, serverLine>>
  BY DEF RetryInv, RetryTyped, Bind, Holding
<1>2. serverLine' \in [Tests -> {"none", "line", "ended"}]  BY <1>1 DEF RetryInv, RetryTyped
<1>3. /\ caller[t].port \in Ports
      /\ \A s \in Tests : s # t /\ caller[s].at \in {"ready", "started"}
           => caller[s].port \in Ports /\ caller[s].port # caller[t].port
  BY <1>1, PortIsOwn DEF Holding
<1>4. CASE /\ bound' = [bound EXCEPT ![caller[t].port] = t] /\ caller' = [caller EXCEPT ![t].at = "ready"]
  <2> DEFINE c == [caller[t] EXCEPT !.at = "ready"]
  <2>1. /\ c \in Callers /\ c.at = "ready" /\ c.port = caller[t].port /\ c.attempt = caller[t].attempt
        /\ caller' = [caller EXCEPT ![t] = c]
    BY <1>1, <1>4 DEF Callers, Stages
  <2>2. /\ bound' \in [Ports -> {"free", "probe", "other"} \cup Tests] /\ bound'[caller[t].port] = t
        /\ \A q \in Ports : q # caller[t].port => bound'[q] = bound[q]
    BY <1>3, <1>4 DEF RetryInv, RetryTyped
  <2> HIDE DEF c
  <2>. QED  BY <1>1, <1>2, <1>3, <2>1, <2>2, CallerMoves
<1>5. CASE caller' = [caller EXCEPT ![t] = Retry(caller[t])] /\ UNCHANGED bound
  <2> DEFINE c == Retry(caller[t])
  <2>1. PortAttempts \in Nat /\ caller[t].attempt \in 1 .. PortAttempts
    BY <1>1, RetriesAssumption DEF Callers
  <2>2. /\ c \in Callers /\ c.port = caller[t].port /\ c.at \in {"hold", "thrown"}
        /\ (c.at = "hold" => c.attempt = caller[t].attempt + 1)
    <3>1. CASE caller[t].attempt < PortAttempts
      <4>1. caller[t].attempt + 1 \in 1 .. PortAttempts  BY <2>1, <3>1
      <4>2. c = [caller[t] EXCEPT !.at = "hold", !.attempt = caller[t].attempt + 1, !.spawns = 1]
        BY <3>1 DEF Retry
      <4>3. "hold" \in Stages /\ 1 \in 1 .. SpawnAttempts  BY RetriesAssumption DEF Stages
      <4> HIDE DEF c
      <4>. QED  BY <1>1, <4>1, <4>2, <4>3 DEF Callers
    <3>2. CASE ~(caller[t].attempt < PortAttempts)
      <4>1. c = [caller[t] EXCEPT !.at = "thrown"]  BY <3>2 DEF Retry
      <4>2. "thrown" \in Stages  BY DEF Stages
      <4> HIDE DEF c
      <4>. QED  BY <1>1, <4>1, <4>2 DEF Callers
    <3>. QED  BY <3>1, <3>2
  <2>3. bound' \in [Ports -> {"free", "probe", "other"} \cup Tests]  BY <1>5 DEF RetryInv, RetryTyped
  <2>4. Cardinality(got[t]) = caller[t].attempt  BY <1>1 DEF RetryInv, GivenOnce
  <2> HIDE DEF c
  <2>5. caller' = [caller EXCEPT ![t] = c]  BY <1>5 DEF c
  <2>6. c.at \in {"new", "hold"} => Cardinality(got[t]) = c.attempt - 1  BY <2>1, <2>2, <2>4
  <2>7. c.at \notin Holding /\ c.at \notin {"ready", "started"}  BY <2>2 DEF Holding
  <2>8. UNCHANGED <<handed, got>>  BY <1>1
  <2>9. \A s \in Tests : s # t /\ caller[s].at \in {"ready", "started"}
           => bound'[caller[s].port] = bound[caller[s].port]
    BY <1>5
  <2>. QED  BY <1>2, <2>2, <2>3, <2>5, <2>6, <2>7, <2>8, <2>9, CallerMoves
<1>6. CASE caller' = [caller EXCEPT ![t].at = "silent"] /\ UNCHANGED bound
  <2> DEFINE c == [caller[t] EXCEPT !.at = "silent"]
  <2>1. /\ c \in Callers /\ c.at = "silent" /\ c.port = caller[t].port /\ c.attempt = caller[t].attempt
        /\ caller' = [caller EXCEPT ![t] = c]
    BY <1>1, <1>6 DEF Callers, Stages
  <2>2. bound' \in [Ports -> {"free", "probe", "other"} \cup Tests]  BY <1>6 DEF RetryInv, RetryTyped
  <2> HIDE DEF c
  <2>. QED  BY <1>1, <1>2, <1>6, <2>1, <2>2, CallerMoves
<1>. QED  BY <1>4, <1>5, <1>6 DEF Bind

\* The ready line is printed, and is read (deadline.ts).
LEMMA ReadUntilStep == ASSUME RetryInv, NEW t \in Tests, ReadUntil(t) \/ Prints(t) PROVE RetryInv'
<1>1. CASE ReadUntil(t)
  <2> DEFINE c == [caller[t] EXCEPT !.at = "started"]
  <2>1. /\ caller \in [Tests -> Callers] /\ caller[t] \in Callers /\ caller[t].at = "ready"
        /\ caller[t].at \in Holding /\ UNCHANGED <<handed, bound, got, serverLine>>
    BY <1>1 DEF RetryInv, RetryTyped, ReadUntil, Holding
  <2>2. /\ c \in Callers /\ c.at = "started" /\ c.port = caller[t].port /\ c.attempt = caller[t].attempt
        /\ caller' = [caller EXCEPT ![t] = c]
    BY <1>1, <2>1 DEF Callers, Stages, ReadUntil
  <2>3. bound'[c.port] = t  BY <2>1, <2>2 DEF RetryInv, StartedHasItsPort
  <2>4. /\ serverLine' \in [Tests -> {"none", "line", "ended"}]
        /\ bound' \in [Ports -> {"free", "probe", "other"} \cup Tests]
    BY <2>1 DEF RetryInv, RetryTyped
  <2> HIDE DEF c
  <2>. QED  BY <2>1, <2>2, <2>3, <2>4, CallerMoves
<1>2. CASE Prints(t)
  BY <1>2 DEF RetryInv, RetryTyped, GivenOnce, StartedHasItsPort, Prints
<1>. QED  BY <1>1, <1>2

\* Another process takes a port that was free: no started server had it.
LEMMA OtherBindsStep == ASSUME RetryInv, NEW p \in Ports, OtherBinds(p) PROVE RetryInv'
<1>1. /\ bound[p] = "free" /\ bound' = [bound EXCEPT ![p] = "other"]
      /\ UNCHANGED <<handed, caller, got, serverLine>>
  BY DEF OtherBinds
<1>2. RetryTyped' /\ GivenOnce'  BY <1>1 DEF RetryInv, RetryTyped, GivenOnce
<1>3. StartedHasItsPort'
  <2>1. SUFFICES ASSUME NEW s \in Tests, caller[s].at \in {"ready", "started"}
                 PROVE  bound'[caller[s].port] = s
    BY <1>1 DEF StartedHasItsPort
  <2>2. bound[caller[s].port] = s /\ s # "free"
    BY <2>1, RetriesAssumption DEF RetryInv, StartedHasItsPort
  <2>3. caller[s].port \in Ports  BY <2>1, PortIsOwn DEF Holding
  <2>. QED  BY <1>1, <2>2, <2>3 DEF RetryInv, RetryTyped
<1>. QED  BY <1>2, <1>3 DEF RetryInv

\* The alarm goes off, for a server that never said it was ready or never bound its port.
LEMMA AlarmStep == ASSUME RetryInv, NEW t \in Tests, Alarm(t) PROVE RetryInv'
<1>1. CASE caller[t].at = "ready"  BY <1>1, LetGo DEF Alarm, Holding
<1>2. CASE caller[t].at = "silent"
  <2> DEFINE c == [caller[t] EXCEPT !.at = "thrown"]
  <2>1. caller \in [Tests -> Callers] /\ caller[t] \in Callers /\ UNCHANGED <<handed, bound, got, serverLine>>
    BY <1>2 DEF RetryInv, RetryTyped, Alarm
  <2>2. /\ c \in Callers /\ c.at = "thrown" /\ c.port = caller[t].port
        /\ caller' = [caller EXCEPT ![t] = c]
    BY <2>1 DEF Callers, Stages, Alarm
  <2>3. /\ serverLine' \in [Tests -> {"none", "line", "ended"}]
        /\ bound' \in [Ports -> {"free", "probe", "other"} \cup Tests]
    BY <2>1 DEF RetryInv, RetryTyped
  <2>4. c.at \notin Holding /\ c.at \notin {"new", "hold", "ready", "started"}  BY <2>2 DEF Holding
  <2> HIDE DEF c
  <2>. QED  BY <2>1, <2>2, <2>3, <2>4, CallerMoves
<1>. QED  BY <1>1, <1>2 DEF Alarm

\* Every step of the callers and of the machine keeps the invariant.
LEMMA RetryStep == ASSUME RetryInv, [RetryNext]_retryVars PROVE RetryInv'
<1>1. CASE UNCHANGED retryVars
  BY <1>1 DEF retryVars, RetryInv, RetryTyped, GivenOnce, StartedHasItsPort
<1>2. ASSUME NEW t \in Tests, Release(t) \/ StartFails(t) PROVE RetryInv'
  <2>1. CASE Release(t)  BY <2>1, LetGo DEF Release, Holding
  <2>2. CASE StartFails(t)  BY <2>2, LetGo DEF StartFails, Holding
  <2>. QED  BY <1>2, <2>1, <2>2
<1>. QED  BY <1>1, <1>2, WithPortStep, HoldPortStep, SpawnStep, BindStep, ReadUntilStep, AlarmStep,
             OtherBindsStep
             DEF RetryNext, TestStep

\* The invariant says what PortsAreOwn does.
LEMMA PortsOwn == ASSUME RetryInv PROVE PortsAreOwn
<1>1. \A t \in Tests : caller[t] \in Callers  BY DEF RetryInv, RetryTyped
<1>2. RetryTypeOK  BY <1>1 DEF RetryInv, RetryTyped, RetryTypeOK, Callers, Stages
<1>3. \A t \in Tests : caller[t].at \notin {"new", "hold", "thrown"} => caller[t].at \in Holding
  BY <1>1 DEF Callers, Stages, Holding
<1>4. NoPortTwice  BY <1>3 DEF RetryInv, GivenOnce, NoPortTwice
<1>. QED  BY <1>2, <1>4 DEF RetryInv, PortsAreOwn

\* For any number of tests, ports and attempts: no port is given to two callers or twice to one,
\* and a server that started has the port it was told (holdPort, withPort of port.ts).
THEOREM PortsStayOwn == RetrySpec => []PortsAreOwn
<1>1. RetryInit => RetryInv  BY RetryBegins
<1>2. RetryInv /\ [RetryNext]_retryVars => RetryInv'  BY RetryStep
<1>3. RetryInv => PortsAreOwn  BY PortsOwn
<1>. QED  BY <1>1, <1>2, <1>3, PTL DEF RetrySpec

-----------------------------------------------------------------------------
(* The pool (inFlight.ts) *)

\* The types of the pool itself.
HandsTyped ==
    /\ nextItem \in Nat /\ hand \in [Workers -> -1 .. Items]
    /\ result \in [1 .. Items -> {"none", "made", "failed"}] /\ starts \in [1 .. Items -> Nat]
    /\ pool \in {"running", "returned", "rejected"}

\* An item is one worker's, was taken in its turn, and was started when it was taken.
TakenOnce ==
    /\ \A v, w \in Workers : hand[v] > 0 /\ hand[v] = hand[w] => v = w
    /\ \A w \in Workers : hand[w] <= nextItem
    /\ \A i \in 1 .. Items : starts[i] = IF i <= nextItem THEN 1 ELSE 0

\* A worker is over when the items are, or when it failed and the pool with it; an item taken
\* is made, at work, or failed.
Accounted ==
    /\ (\E w \in Workers : hand[w] = -1) => nextItem > Items \/ pool # "running"
    /\ \A i \in 1 .. Items : i <= nextItem =>
         \/ result[i] = "made" \/ pool # "running" \/ \E w \in Workers : hand[w] = i
    /\ pool = "returned" => /\ \A w \in Workers : hand[w] = -1
                            /\ \A i \in 1 .. Items : result[i] = "made"

\* A budget is spoken for once.
Watched ==
    /\ quiet \in 0 .. MaxQuiet /\ spoken \in Nat /\ told \in Nat
    /\ told <= spoken /\ spoken <= quiet \div Budget

\* The inductive invariant of a pool and its watch.
PoolInv == HandsTyped /\ TakenOnce /\ Accounted /\ FlightIsExact /\ Watched

\* A longer silence has no fewer budgets in it.
LEMMA MoreBudgets ==
    ASSUME NEW q \in Nat, NEW b \in Nat \ {0}
    PROVE  /\ q \div b \in Nat /\ (q + 1) \div b \in Nat
           /\ q \div b <= (q + 1) \div b /\ 0 \div b = 0
<1> DEFINE m == q \div b
           n == (q + 1) \div b
<1>1. m \in Nat /\ q = (q % b) + b * m /\ q % b \in 0 .. b - 1  OBVIOUS
<1>2. n \in Nat /\ q + 1 = ((q + 1) % b) + b * n /\ (q + 1) % b \in 0 .. b - 1  OBVIOUS
<1>3. 0 \div b = 0
  <2>1. 0 \div b \in Nat /\ 0 = (0 % b) + b * (0 \div b) /\ 0 % b \in 0 .. b - 1  OBVIOUS
  <2>. QED  BY <2>1
<1> HIDE DEF m, n
<1>4. ~(n < m)
  <2>1. SUFFICES ASSUME n < m PROVE FALSE  OBVIOUS
  <2>2. m - n - 1 \in Nat /\ b * (m - n - 1) \in Nat  BY <1>1, <1>2, <2>1
  <2>3. b * (m - n - 1) = b * m - b * n - b  BY <1>1, <1>2
  <2>4. b * m \in Int /\ b * n \in Int  BY <1>1, <1>2
  <2>. QED  BY <1>1, <1>2, <2>2, <2>3, <2>4
<1>. QED  BY <1>1, <1>2, <1>3, <1>4 DEF m, n

\* A pool that has taken nothing.
LEMMA PoolBegins == ASSUME PoolInit PROVE PoolInv
<1>1. Budget \in Nat \ {0} /\ MaxQuiet \in Nat /\ Items \in Nat  BY PoolAssumption
<1>2. Watched  BY <1>1, MoreBudgets DEF PoolInit, Watched
<1>3. HandsTyped /\ TakenOnce /\ Accounted /\ FlightIsExact
  BY <1>1 DEF PoolInit, HandsTyped, TakenOnce, Accounted, FlightIsExact
<1>. QED  BY <1>2, <1>3 DEF PoolInv

\* A worker takes the next item, and its entry starts with it; or is over.
LEMMA TakeItemStep == ASSUME PoolInv, NEW w \in Workers, TakeItem(w) PROVE PoolInv'
<1>1. /\ hand[w] = 0 /\ nextItem' = nextItem + 1 /\ UNCHANGED <<result, quiet, spoken, told, pool>>
  BY DEF TakeItem, watchVars
<1>2. Items \in Nat /\ nextItem \in Nat  BY PoolAssumption DEF PoolInv, HandsTyped
<1>3. Watched'  BY <1>1 DEF PoolInv, Watched
<1>4. pool # "returned"
  BY <1>1 DEF PoolInv, Accounted
<1>5. CASE /\ nextItem + 1 > Items /\ hand' = [hand EXCEPT ![w] = -1] /\ UNCHANGED <<flight, starts>>
  <2>1. /\ hand' \in [Workers -> -1 .. Items] /\ hand'[w] = -1
        /\ \A v \in Workers : v # w => hand'[v] = hand[v]
    BY <1>2, <1>5 DEF PoolInv, HandsTyped
  <2>2. HandsTyped'  BY <1>1, <1>2, <1>5, <2>1 DEF PoolInv, HandsTyped
  <2>3. TakenOnce'
    <3>1. \A v \in Workers : hand'[v] <= nextItem'
      BY <1>1, <1>2, <2>1 DEF PoolInv, TakenOnce, HandsTyped
    <3>2. \A i \in 1 .. Items : starts'[i] = IF i <= nextItem' THEN 1 ELSE 0
      BY <1>1, <1>2, <1>5 DEF PoolInv, TakenOnce
    <3>3. \A u, v \in Workers : hand'[u] > 0 /\ hand'[u] = hand'[v] => u = v
      BY <2>1 DEF PoolInv, TakenOnce
    <3>. QED  BY <3>1, <3>2, <3>3 DEF TakenOnce
  <2>4. Accounted'
    <3>1. ASSUME NEW i \in 1 .. Items
          PROVE  result[i] = "made" \/ pool # "running" \/ \E v \in Workers : hand'[v] = i
      <4>1. i <= nextItem  BY <1>2, <1>5
      <4>2. i # 0  OBVIOUS
      <4>. QED  BY <1>1, <2>1, <4>1, <4>2 DEF PoolInv, Accounted
    <3>. QED  BY <1>1, <1>4, <1>5, <3>1 DEF Accounted
  <2>5. FlightIsExact'
    <3>1. \A v \in Workers : hand'[v] > 0 <=> hand[v] > 0  BY <1>1, <2>1
    <3>2. \A v \in Workers : hand'[v] > 0 => hand'[v] = hand[v]  BY <2>1
    <3>. QED  BY <1>5, <3>1, <3>2 DEF PoolInv, FlightIsExact
  <2>. QED  BY <1>3, <2>2, <2>3, <2>4, <2>5 DEF PoolInv
<1>6. CASE /\ ~(nextItem + 1 > Items) /\ hand' = [hand EXCEPT ![w] = nextItem + 1]
           /\ flight' = flight \cup {nextItem + 1}
           /\ starts' = [starts EXCEPT ![nextItem + 1] = @ + 1]
  <2>0. nextItem + 1 \in 1 .. Items  BY <1>2, <1>6
  <2>1. /\ hand' \in [Workers -> -1 .. Items] /\ hand'[w] = nextItem + 1
        /\ \A v \in Workers : v # w => hand'[v] = hand[v]
    BY <1>2, <1>6, <2>0 DEF PoolInv, HandsTyped
  <2>2. HandsTyped'  BY <1>1, <1>2, <1>6, <2>0, <2>1 DEF PoolInv, HandsTyped
  <2>3. TakenOnce'
    <3>0. \A v \in Workers : hand[v] \in Int /\ hand[v] <= nextItem
      BY DEF PoolInv, HandsTyped, TakenOnce
    <3>1. \A v \in Workers : hand'[v] <= nextItem'
      BY <1>1, <1>2, <2>1, <3>0
    <3>2. \A i \in 1 .. Items : starts'[i] = IF i <= nextItem' THEN 1 ELSE 0
      BY <1>1, <1>2, <1>6, <2>0 DEF PoolInv, TakenOnce, HandsTyped
    <3>3. \A u, v \in Workers : hand'[u] > 0 /\ hand'[u] = hand'[v] => u = v
      BY <1>2, <2>1, <3>0 DEF PoolInv, TakenOnce
    <3>. QED  BY <3>1, <3>2, <3>3 DEF TakenOnce
  <2>4. Accounted'
    <3>1. ASSUME NEW i \in 1 .. Items, i <= nextItem'
          PROVE  result[i] = "made" \/ pool # "running" \/ \E v \in Workers : hand'[v] = i
      <4>1. CASE i = nextItem + 1  BY <2>1, <4>1
      <4>2. CASE i # nextItem + 1
        <5>1. i <= nextItem  BY <1>1, <1>2, <3>1, <4>2
        <5>. QED  BY <1>1, <2>1, <5>1 DEF PoolInv, Accounted
      <4>. QED  BY <4>1, <4>2
    <3>2. (\E v \in Workers : hand'[v] = -1) => nextItem' > Items \/ pool # "running"
      BY <1>1, <1>2, <1>6, <2>1 DEF PoolInv, Accounted
    <3>. QED  BY <1>1, <1>4, <3>1, <3>2 DEF Accounted
  <2>5. FlightIsExact'
    <3>1. \A v \in Workers : v # w => hand'[v] = hand[v]  BY <2>1
    <3>2. hand'[w] > 0 /\ ~(hand[w] > 0)  BY <1>1, <1>2, <2>1
    <3>. QED  BY <1>6, <2>1, <3>1, <3>2 DEF PoolInv, FlightIsExact
  <2>. QED  BY <1>3, <2>2, <2>3, <2>4, <2>5 DEF PoolInv
<1>. QED  BY <1>5, <1>6 DEF TakeItem

\* An item is made or has failed: done takes its entry out and ends the silence.
LEMMA DoneStep == ASSUME PoolInv, NEW w \in Workers, Finish(w) \/ Reject(w) PROVE PoolInv'
<1> DEFINE i == hand[w]
<1>1. /\ i > 0 /\ flight' = flight \ {i} /\ quiet' = 0 /\ spoken' = 0 /\ told' = 0
      /\ UNCHANGED <<nextItem, starts>>
  BY DEF Finish, Reject, Done
<1>2. /\ Items \in Nat /\ nextItem \in Nat /\ i \in 1 .. Items /\ Budget \in Nat \ {0} /\ MaxQuiet \in Nat
      /\ i <= nextItem
  BY <1>1, PoolAssumption DEF PoolInv, HandsTyped, TakenOnce
<1>3. \/ result' = [result EXCEPT ![i] = "made"] /\ hand' = [hand EXCEPT ![w] = 0] /\ pool' = pool
      \/ /\ result' = [result EXCEPT ![i] = "failed"] /\ hand' = [hand EXCEPT ![w] = -1]
         /\ pool' = IF pool = "running" THEN "rejected" ELSE pool
  BY DEF Finish, Reject
<1> HIDE DEF i
<1>4. /\ hand' \in [Workers -> -1 .. Items] /\ hand'[w] \in {0, -1}
      /\ \A v \in Workers : v # w => hand'[v] = hand[v]
  <2>1. hand \in [Workers -> -1 .. Items] /\ 0 \in -1 .. Items /\ -1 \in -1 .. Items
    BY <1>2 DEF PoolInv, HandsTyped
  <2>2. CASE hand' = [hand EXCEPT ![w] = 0]  BY <2>1, <2>2
  <2>3. CASE hand' = [hand EXCEPT ![w] = -1]  BY <2>1, <2>3
  <2>. QED  BY <1>3, <2>2, <2>3
<1>5. Watched'  BY <1>1, <1>2, MoreBudgets DEF Watched
<1>6. pool # "returned"
  BY <1>1 DEF PoolInv, Accounted, i
<1>7. HandsTyped'
  BY <1>1, <1>2, <1>3, <1>4 DEF PoolInv, HandsTyped
<1>8. TakenOnce'
  BY <1>1, <1>2, <1>4 DEF PoolInv, TakenOnce, HandsTyped
<1>9. Accounted'
  <2>1. CASE /\ result' = [result EXCEPT ![i] = "made"] /\ hand' = [hand EXCEPT ![w] = 0] /\ pool' = pool
    <3>1. result'[i] = "made" /\ \A j \in 1 .. Items : j # i => result'[j] = result[j]
      BY <1>2, <2>1 DEF PoolInv, HandsTyped
    <3>2. hand'[w] = 0  BY <2>1 DEF PoolInv, HandsTyped
    <3>3. ASSUME NEW j \in 1 .. Items, j <= nextItem
          PROVE  result'[j] = "made" \/ pool # "running" \/ \E v \in Workers : hand'[v] = j
      <4>1. CASE j = i  BY <3>1, <4>1
      <4>2. CASE j # i
        BY <1>4, <3>1, <3>3, <4>2 DEF PoolInv, Accounted, i
      <4>. QED  BY <4>1, <4>2
    <3>4. (\E v \in Workers : hand'[v] = -1) => nextItem > Items \/ pool # "running"
      BY <1>4, <3>2 DEF PoolInv, Accounted
    <3>. QED  BY <1>1, <1>6, <2>1, <3>3, <3>4 DEF Accounted
  <2>2. CASE pool' = IF pool = "running" THEN "rejected" ELSE pool
    <3>1. pool' = "rejected"  BY <1>6, <2>2 DEF PoolInv, HandsTyped
    <3>. QED  BY <3>1 DEF Accounted
  <2>. QED  BY <1>3, <2>1, <2>2
<1>10. FlightIsExact'
  <2>1. ~(hand'[w] > 0)  BY <1>4
  <2>2. \A v \in Workers : v # w /\ hand[v] > 0 => hand[v] # i
    BY DEF PoolInv, TakenOnce, i
  <2>. QED  BY <1>1, <1>4, <2>1, <2>2 DEF PoolInv, FlightIsExact, i
<1>. QED  BY <1>5, <1>7, <1>8, <1>9, <1>10 DEF PoolInv

\* pool returns when every worker is over.
LEMMA ReturnStep == ASSUME PoolInv, Return PROVE PoolInv'
<1>1. /\ pool = "running" /\ (\A w \in Workers : hand[w] = -1) /\ pool' = "returned"
      /\ UNCHANGED <<nextItem, hand, flight, result, starts, quiet, spoken, told>>
  BY DEF Return, watchVars
<1>2. 1 \in Workers /\ Items \in Nat  BY PoolAssumption DEF Workers
<1>3. nextItem > Items /\ nextItem \in Nat  BY <1>1, <1>2 DEF PoolInv, Accounted, HandsTyped
<1>4. \A i \in 1 .. Items : result[i] = "made"
  <2>1. \A i \in 1 .. Items : i <= nextItem /\ i # -1  BY <1>2, <1>3
  <2>. QED  BY <1>1, <2>1 DEF PoolInv, Accounted
<1>5. Accounted'  BY <1>1, <1>4 DEF Accounted
<1>. QED  BY <1>1, <1>5 DEF PoolInv, HandsTyped, TakenOnce, FlightIsExact, Watched

\* The interval: a budget of silence is told once, and time passes.
LEMMA WatchStep == ASSUME PoolInv, Speak \/ Tick PROVE PoolInv'
<1>1. UNCHANGED <<nextItem, hand, flight, result, starts, pool>>  BY DEF Speak, Tick
<1>2. Budget \in Nat \ {0} /\ MaxQuiet \in Nat /\ quiet \in Nat /\ quiet \div Budget \in Nat
  <2>1. Budget \in Nat \ {0} /\ MaxQuiet \in Nat /\ quiet \in Nat
    BY PoolAssumption DEF PoolInv, Watched
  <2>. QED  BY <2>1, MoreBudgets
<1>5. Watched' => PoolInv'
  BY <1>1 DEF PoolInv, HandsTyped, TakenOnce, Accounted, FlightIsExact
<1>6. CASE Speak
  <2>1. Watched'  BY <1>2, <1>6 DEF PoolInv, Watched, Speak, Due
  <2>. QED  BY <1>5, <2>1
<1>7. CASE Tick
  <2>1. quiet \div Budget <= (quiet + 1) \div Budget /\ (quiet + 1) \div Budget \in Nat
    BY <1>2, MoreBudgets
  <2>2. quiet' = quiet + 1 /\ quiet' \in 0 .. MaxQuiet /\ UNCHANGED <<spoken, told>>
    BY <1>2, <1>7 DEF Tick
  <2>3. Watched'  BY <1>2, <2>1, <2>2 DEF PoolInv, Watched
  <2>. QED  BY <1>5, <2>3
<1>. QED  BY <1>6, <1>7

\* Every step of the pool and of its watch keeps the invariant.
LEMMA PoolStep == ASSUME PoolInv, [PoolNext]_poolVars PROVE PoolInv'
<1>1. CASE UNCHANGED poolVars
  BY <1>1 DEF poolVars, PoolInv, HandsTyped, TakenOnce, Accounted, FlightIsExact, Watched
<1>. QED  BY <1>1, TakeItemStep, DoneStep, ReturnStep, WatchStep DEF PoolNext

\* The invariant says what PoolIsExact does.
LEMMA PoolExact == ASSUME PoolInv PROVE PoolIsExact
<1>1. Items \in Nat /\ Budget \in Nat \ {0} /\ quiet \in Nat
  BY PoolAssumption DEF PoolInv, Watched
<1>2. quiet \div Budget \in Nat  BY <1>1, MoreBudgets
<1>3. flight \subseteq 1 .. Items
  <2>1. \A w \in Workers : hand[w] > 0 => hand[w] \in 1 .. Items  BY <1>1 DEF PoolInv, HandsTyped
  <2>. QED  BY <2>1 DEF PoolInv, FlightIsExact
<1>4. PoolTypeOK  BY <1>3 DEF PoolInv, HandsTyped, Watched, PoolTypeOK
<1>5. ReturnedIsWhole  BY <1>1 DEF PoolInv, TakenOnce, Accounted, ReturnedIsWhole
<1>6. ToldOncePerBudget  BY <1>2 DEF PoolInv, Watched, ToldOncePerBudget
<1>. QED  BY <1>4, <1>5, <1>6 DEF PoolInv, PoolIsExact

\* For any number of items, workers and budgets: the watch holds exactly what is at work, work is
\* called once an item, a pool that returns has made every item, and a silence is told at most
\* once a budget (pool, watch of inFlight.ts).
THEOREM PoolIsAlwaysExact == PoolSpec => []PoolIsExact
<1>1. PoolInit => PoolInv  BY PoolBegins
<1>2. PoolInv /\ [PoolNext]_poolVars => PoolInv'  BY PoolStep
<1>3. PoolInv => PoolIsExact  BY PoolExact
<1>. QED  BY <1>1, <1>2, <1>3, PTL DEF PoolSpec

-----------------------------------------------------------------------------
(* A test that runs a program (AppRun) *)

\* What the detector's counters say: a look that found what the last one found was made after a
\* whole interval in which nothing moved, and two such looks after two.
Looked ==
    /\ moves \in 0 .. MaxMoves /\ last \in -1 .. MaxMoves /\ last <= moves
    /\ frozen \in Nat /\ lastMove \in 0 .. 3
    /\ last = moves => lastMove >= 1
    /\ last = moves /\ frozen >= 1 => lastMove >= 2
\* How far the run is.
Ends ==
    /\ app \in {"loading", "running", "wedged", "exited", "killed"}
    /\ outcome \in {"none", "draining", "code", "deadlock", "load"}
    /\ outcome \in {"draining", "code"} => app = "exited"
    /\ outcome = "code" => outEnded
    /\ outcome = "deadlock" => app \in {"exited", "killed"}
AppInv == Looked /\ Ends

\* Every step keeps the counters true.
LEMMA LookedStep == ASSUME Looked, AppNext PROVE Looked'
<1> USE AppRunAssumption DEF Looked, detector
<1>1. CASE AppLoaded  BY <1>1 DEF AppLoaded
<1>2. CASE AppMoves  BY <1>2 DEF AppMoves
<1>3. CASE AppWedges \/ AppExits \/ AppOutputEnds  BY <1>3 DEF AppWedges, AppExits, AppOutputEnds
<1>4. CASE StallLooks  BY <1>4 DEF StallLooks, Frozen
<1>5. CASE RaceExit \/ Drained \/ RaceAlarm  BY <1>5 DEF RaceExit, Drained, RaceAlarm
<1>. QED  BY <1>1, <1>2, <1>3, <1>4, <1>5 DEF AppNext

\* Every step keeps the run's end true.
LEMMA EndsStep == ASSUME Ends, AppNext PROVE Ends'
<1> USE DEF Ends
<1>1. CASE AppLoaded  BY <1>1 DEF AppLoaded
<1>2. CASE AppMoves  BY <1>2 DEF AppMoves
<1>3. CASE AppWedges  BY <1>3 DEF AppWedges
<1>4. CASE AppExits  BY <1>4 DEF AppExits
<1>5. CASE AppOutputEnds  BY <1>5 DEF AppOutputEnds
<1>6. CASE StallLooks  BY <1>6 DEF StallLooks
<1>7. CASE RaceExit  BY <1>7 DEF RaceExit
<1>8. CASE Drained  BY <1>8 DEF Drained
<1>9. CASE RaceAlarm  BY <1>9 DEF RaceAlarm
<1>. QED  BY <1>1, <1>2, <1>3, <1>4, <1>5, <1>6, <1>7, <1>8, <1>9 DEF AppNext

\* Only a look raises the alarm, and only over a bridge that stood still.
LEMMA AlarmIsStill ==
    ASSUME Looked, AppNext, ~alarm, alarm' PROVE lastMove >= 2 /\ inUse
<1>1. CASE StallLooks
  <2>1. Frozen >= 2  BY <1>1 DEF StallLooks
  <2>2. moves = last /\ inUse /\ frozen >= 1  BY <2>1 DEF Frozen, Looked
  <2>. QED  BY <2>2 DEF Looked
<1>2. CASE ~StallLooks
  BY <1>2 DEF AppNext, AppLoaded, AppMoves, AppWedges, AppExits, AppOutputEnds, RaceExit, Drained,
              RaceAlarm
<1>. QED  BY <1>1, <1>2

\* Whatever a test's program does, appRunner calls it deadlocked only over a bridge that has stood still
\* for two looks while it was in use, and a run that is over has left no program and no output behind.
THEOREM RunsAreJust == AppSpec => RunIsJust
<1>1. AppInit => AppInv  BY AppRunAssumption DEF AppInit, AppInv, Looked, Ends
<1>2. AppInv /\ [AppNext]_appVars => AppInv'
  <2>1. ASSUME AppInv, UNCHANGED appVars PROVE AppInv'
    BY <2>1 DEF appVars, AppInv, Looked, Ends
  <2>. QED  BY <2>1, LookedStep, EndsStep DEF AppInv
<1>3. AppInv => AppTypeOK /\ RunLeavesNothing
  BY DEF AppInv, Looked, Ends, AppTypeOK, RunLeavesNothing
<1>4. AppInv /\ [AppNext]_appVars => [~alarm /\ alarm' => lastMove >= 2 /\ inUse]_appVars
  BY AlarmIsStill DEF AppInv
<1>. QED  BY <1>1, <1>2, <1>3, <1>4, PTL DEF AppSpec, RunIsJust, DeadlockIsStill

-----------------------------------------------------------------------------
(* The suite (Suite) *)

\* What the second pass is given.
Second == IF Alone = {} THEN {} ELSE SecondPass
\* How often a file has run when the first pass has run a and the second c.
Times(f, a, c) == (IF f \in a THEN 1 ELSE 0) + (IF f \in c THEN 1 ELSE 0)
NothingRan == [f \in TestFiles |-> 0]

SuiteShape ==
    /\ command \in {"test", "changed"} /\ targets \in ArgSets /\ marker \in {"set", "unset"}
    /\ waiting \subseteq TestFiles /\ running \subseteq TestFiles
    /\ ran \in [TestFiles -> Nat] /\ turn \in {"guard", "first", "second", "exited"}
    /\ passIs \in {"green", "failed", "killed"} /\ suiteExit \in {-1, 0, 1, 2, 143}
    /\ codes \in [first : {-1, 0, 1, 143}, second : {-1, 0, 1, 143}]
\* Which files have run, and which run now; a pass that was killed says nothing of its files.
Passes ==
    /\ turn = "guard" => waiting = {} /\ running = {} /\ ran = NothingRan
    /\ turn = "first" =>
         /\ waiting \subseteq FirstPass /\ running \subseteq FirstPass
         /\ passIs # "killed" => \A f \in TestFiles : ran[f] = Times(f, FirstPass \ waiting, {})
    /\ turn = "second" =>
         /\ waiting \subseteq Second /\ IsFiniteSet(running) /\ Cardinality(running) <= 1
         /\ codes.first # 143 /\ passIs # "killed" =>
              \A f \in TestFiles : ran[f] = Times(f, FirstPass, Second \ waiting)
    /\ turn = "exited" =>
         /\ running = {}
         /\ codes.second = -1 => ran = NothingRan
         /\ codes.second # -1 /\ codes.first # 143 /\ codes.second # 143 =>
              \A f \in TestFiles : ran[f] = Times(f, FirstPass, Second)
\* The codes are those of the passes that have ended, and the exit that of the first that is not 0.
SuiteExits ==
    /\ turn \in {"guard", "first", "second"} => codes.second = -1
    /\ turn = "second" => codes.first # -1
    /\ turn \in {"first", "second"} => marker = "unset"
    /\ turn = "exited" =>
         \/ marker = "set" /\ suiteExit = 2 /\ codes.second = -1
         \/ marker = "unset" /\ command = "changed" /\ suiteExit = 0 /\ codes.second = -1
         \/ /\ marker = "unset" /\ codes.second # -1 /\ codes.first # -1
            /\ suiteExit = ExitCode(codes.first, codes.second)
\* What a reaper has listed has no parent but init, as long as the process that was listed lives.
ListedIsNobodys ==
    /\ owner \in [Pids -> TestFiles \cup {"none", "init", "other"}]
    /\ listed \in [TestFiles -> SUBSET Pids] /\ stale \in [TestFiles -> SUBSET Pids]
    /\ \A f \in TestFiles : \A p1 \in listed[f] : owner[p1] # "init" => p1 \in stale[f]
SuiteInv == SuiteShape /\ Passes /\ SuiteExits /\ ListedIsNobodys

\* Nothing in the first pass asks for the machine.
LEMMA FirstIsShared == ASSUME SuiteShape PROVE FirstPass \cap Declared = {}
<1>1. Declared \subseteq TestFiles  BY SuiteAssumption DEF TestFiles
<1>. QED  BY <1>1 DEF SuiteShape, FirstPass, Alone, LaneSplit, Discovered, Under

\* The two passes together run each file as often as Times1 says.
LEMMA PassesAddUp ==
    ASSUME SuiteShape, NEW f \in TestFiles PROVE Times(f, FirstPass, Second) = Times1(f)
<1>0. Declared \subseteq TestFiles  BY SuiteAssumption DEF TestFiles
<1>u. targets = {} => Under(targets) = {}  BY DEF Under
<1>d. f \in Discovered(targets) <=> (targets = {} \/ f \in Under(targets))  BY DEF Discovered
<1>1. CASE command = "test"
  <2>1. Alone = Declared  BY <1>1 DEF Alone, LaneSplit
  <2>2. f \in FirstPass <=> f \in Discovered(targets) /\ f \notin Declared  BY <2>1 DEF FirstPass
  <2>3. f \in Second <=> Declared # {} /\ (f \in Declared \/ f \in Under(targets))
    BY <1>1, <2>1 DEF Second, SecondPass
  <2>4. CASE f \in Declared  BY <1>1, <2>2, <2>3, <2>4 DEF Times, Times1
  <2>5. CASE f \notin Declared /\ f \notin Discovered(targets)
    BY <1>1, <2>2, <2>3, <2>5, <1>d DEF Times, Times1
  <2>6. CASE f \notin Declared /\ f \in Discovered(targets)
    BY <1>1, <2>2, <2>3, <2>6, <1>d, <1>u DEF Times, Times1
  <2>. QED  BY <2>4, <2>5, <2>6
<1>2. CASE command = "changed"
  <2>1. f \in Alone <=> f \in Declared /\ f \in Discovered(targets)
    BY <1>2, <1>0, <1>d DEF Alone, LaneSplit
  <2>2. f \in FirstPass <=> f \in Discovered(targets) /\ f \notin Declared
    BY <2>1 DEF FirstPass
  <2>3. f \in Second <=> f \in Alone  BY <1>2 DEF Second, SecondPass
  <2>. QED  BY <1>2, <2>1, <2>2, <2>3 DEF Times, Times1
<1>. QED  BY <1>1, <1>2 DEF SuiteShape

\* What others do, and what a test does with its server, leaves the passes alone.
Serving ==
    \/ \E f \in TestFiles :
         \/ StartServer(f) \/ StopServer(f) \/ FindOrphans(f)
         \/ \E p1 \in Pids : ReapOrphan(f, p1)
    \/ \E p1 \in Pids : Others(p1)
LEMMA ServingIsApart ==
    ASSUME Serving
    PROVE  UNCHANGED <<command, targets, marker, turn, passVars, codes, suiteExit>>
  BY DEF Serving, StartServer, StopServer, FindOrphans, ReapOrphan, Others

\* Every step keeps the parts' shapes.
LEMMA ShapeStep == ASSUME SuiteShape, SuiteNext PROVE SuiteShape'
<1> USE DEF SuiteShape, passVars, reapVars
<1>0. Declared \subseteq TestFiles  BY SuiteAssumption DEF TestFiles
<1>1. CASE Begin  BY <1>1 DEF Begin, FirstPass, Discovered, Under, Opening
<1>2. CASE EndFirst
  <2>2. Alone \subseteq TestFiles /\ Under(targets) \subseteq TestFiles
    BY <1>0 DEF Alone, LaneSplit, Under
  <2>. QED  BY <1>2, <2>2 DEF EndFirst, SecondPass, PassCode, Opening
<1>3. CASE EndSecond  BY <1>3 DEF EndSecond, PassCode, ExitCode
<1>4. CASE KillPass  BY <1>4 DEF KillPass
<1>5. ASSUME NEW f \in TestFiles, StartFile(f) PROVE SuiteShape'  BY <1>5 DEF StartFile
<1>6. ASSUME NEW f \in TestFiles, EndFile(f) PROVE SuiteShape'  BY <1>6 DEF EndFile
<1>7. CASE Serving  BY <1>7, ServingIsApart
<1>. QED  BY <1>1, <1>2, <1>3, <1>4, <1>5, <1>6, <1>7 DEF SuiteNext, Serving

\* What the passes are given is settled when the run begins.
LEMMA PassesAreSettled ==
    ASSUME SuiteNext
    PROVE  /\ FirstPass' = FirstPass /\ Second' = Second
           /\ command' = command /\ targets' = targets /\ marker' = marker
<1>1. command' = command /\ targets' = targets /\ marker' = marker
  BY ServingIsApart DEF SuiteNext, Serving, Begin, EndFirst, EndSecond, KillPass, StartFile, EndFile
<1>. QED  BY <1>1 DEF FirstPass, Second, SecondPass, Alone, LaneSplit, Discovered, Under

\* Every step keeps the account of what has run.
LEMMA PassesStep == ASSUME SuiteShape, Passes, SuiteExits, SuiteNext PROVE Passes'
<1>0. FirstPass' = FirstPass /\ Second' = Second  BY PassesAreSettled
<1>n. NothingRan' = NothingRan  BY DEF NothingRan
<1>s. SuiteShape'  BY ShapeStep
<1> USE DEF passVars, reapVars
<1>1. CASE Begin
  <2>0. turn = "guard" /\ running' = running /\ ran' = ran /\ codes' = codes  BY <1>1 DEF Begin
  <2>1. CASE turn' = "first"
    <3>1. waiting' = FirstPass  BY <1>1, <2>1 DEF Begin
    <3>2. \A f \in TestFiles : ran'[f] = Times(f, FirstPass \ waiting', {})
      BY <2>0, <3>1 DEF Passes, Times, NothingRan
    <3>. QED  BY <1>0, <2>0, <2>1, <3>1, <3>2 DEF Passes
  <2>2. CASE turn' = "exited"  BY <1>0, <1>n, <2>0, <2>2 DEF Passes, SuiteExits
  <2>. QED  BY <1>1, <2>1, <2>2 DEF Begin
<1>2. CASE EndFirst
  <2>1. turn = "first" /\ turn' = "second" /\ waiting = {} /\ waiting' = Second
        /\ running' = {} /\ ran' = ran
    BY <1>2 DEF EndFirst, Second
  <2>2. codes'.first # 143 => passIs # "killed"
    BY <1>2 DEF EndFirst, PassCode, SuiteShape
  <2>3. codes'.first # 143 => \A f \in TestFiles : ran'[f] = Times(f, FirstPass, Second \ waiting')
    BY <2>1, <2>2 DEF Passes, Times
  <2>4. IsFiniteSet({}) /\ Cardinality({}) = 0  BY FS_EmptySet
  <2>. QED  BY <1>0, <2>1, <2>3, <2>4 DEF Passes
<1>3. CASE EndSecond
  <2>1. turn = "second" /\ turn' = "exited" /\ waiting = {} /\ running' = {} /\ ran' = ran
        /\ codes'.first = codes.first /\ codes'.second = PassCode
    BY <1>3 DEF EndSecond, SuiteShape
  <2>2. codes'.second # -1 /\ (codes'.second # 143 => passIs # "killed")
    BY <2>1 DEF PassCode, SuiteShape
  <2>3. codes'.first # 143 /\ codes'.second # 143 =>
          \A f \in TestFiles : ran'[f] = Times(f, FirstPass, Second)
    BY <2>1, <2>2 DEF Passes, Times
  <2>. QED  BY <1>0, <2>1, <2>2, <2>3 DEF Passes
<1>4. CASE KillPass
  <2>1. turn' = turn /\ turn \in {"first", "second"} /\ running' = {} /\ waiting' = {} /\ passIs' = "killed"
    BY <1>4 DEF KillPass
  <2>2. IsFiniteSet({}) /\ Cardinality({}) = 0  BY FS_EmptySet
  <2>. QED  BY <2>1, <2>2 DEF Passes
<1>5. ASSUME NEW f \in TestFiles, StartFile(f) PROVE Passes'
  <2>0. codes' = codes /\ passIs' = passIs  BY <1>5 DEF StartFile
  <2>1. CASE turn = "first"
    <3>1. turn' = "first" /\ waiting' \subseteq FirstPass /\ running' \subseteq FirstPass
          /\ f \in FirstPass
      BY <1>5, <2>1 DEF StartFile, Passes
    <3>2. ASSUME passIs # "killed", NEW g \in TestFiles
          PROVE  ran'[g] = Times(g, FirstPass \ waiting', {})
      <4>1. ran[g] = Times(g, FirstPass \ waiting, {})  BY <2>1, <3>2 DEF Passes
      <4>2. ran'[g] = IF g = f THEN ran[g] + 1 ELSE ran[g]
        BY <1>5 DEF StartFile, SuiteShape
      <4>. QED  BY <4>1, <4>2, <3>1, <1>5 DEF StartFile, Times
    <3>. QED  BY <1>0, <2>0, <3>1, <3>2 DEF Passes
  <2>2. CASE turn = "second"
    <3>1. IsFiniteSet(running) /\ Cardinality(running) = 0
      <4>1. IsFiniteSet(running) /\ Cardinality(running) \in Nat
        BY <2>2, FS_CardinalityType DEF Passes
      <4>. QED  BY <1>5, <2>2, <4>1 DEF StartFile, Workers1
    <3>2. running' = {f}  BY <1>5, <3>1, FS_EmptySet DEF StartFile
    <3>3. IsFiniteSet(running') /\ Cardinality(running') <= 1
      <4>1. IsFiniteSet({f}) /\ Cardinality({f}) = 1  BY FS_Singleton
      <4>. QED  BY <3>2, <4>1
    <3>4. turn' = "second" /\ waiting' \subseteq Second /\ f \in Second
      BY <1>5, <2>2 DEF StartFile, Passes
    <3>5. ASSUME codes.first # 143, passIs # "killed", NEW g \in TestFiles
          PROVE  ran'[g] = Times(g, FirstPass, Second \ waiting')
      <4>1. ran[g] = Times(g, FirstPass, Second \ waiting)  BY <2>2, <3>5 DEF Passes
      <4>2. ran'[g] = IF g = f THEN ran[g] + 1 ELSE ran[g]
        BY <1>5 DEF StartFile, SuiteShape
      <4>. QED  BY <4>1, <4>2, <3>4, <1>5 DEF StartFile, Times
    <3>. QED  BY <1>0, <2>0, <3>3, <3>4, <3>5 DEF Passes
  <2>. QED  BY <1>5, <2>1, <2>2 DEF StartFile
<1>6. ASSUME NEW f \in TestFiles, EndFile(f) PROVE Passes'
  <2>1. turn' = turn /\ waiting' = waiting /\ ran' = ran /\ running' = running \ {f} /\ f \in running
        /\ codes' = codes /\ (passIs = "killed" => passIs' = "killed")
    BY <1>6 DEF EndFile
  <2>2. turn = "second" => IsFiniteSet(running') /\ Cardinality(running') <= 1
    <3>1. SUFFICES ASSUME turn = "second" PROVE IsFiniteSet(running') /\ Cardinality(running') <= 1
      OBVIOUS
    <3>2. IsFiniteSet(running) /\ Cardinality(running) <= 1 /\ Cardinality(running) \in Nat
      BY <3>1, FS_CardinalityType DEF Passes
    <3>3. IsFiniteSet(running') /\ Cardinality(running') = Cardinality(running) - 1
      BY <3>2, <2>1, FS_RemoveElement
    <3>. QED  BY <3>2, <3>3
  <2>. QED  BY <1>0, <1>n, <2>1, <2>2 DEF Passes
<1>7. CASE Serving  BY <1>7, <1>0, <1>n, ServingIsApart DEF Passes
<1>. QED  BY <1>1, <1>2, <1>3, <1>4, <1>5, <1>6, <1>7 DEF SuiteNext, Serving

\* Every step keeps the exit code that of the passes.
LEMMA SuiteExitsStep == ASSUME SuiteShape, SuiteExits, SuiteNext PROVE SuiteExits'
<1> USE DEF SuiteExits, passVars, reapVars
<1>1. CASE Begin
  <2>1. marker \in {"set", "unset"}  BY DEF SuiteShape
  <2>. QED  BY <1>1, <2>1 DEF Begin, Refuses
<1>2. CASE EndFirst
  <2>1. turn = "first" /\ turn' = "second" /\ marker' = marker
        /\ codes'.first = PassCode /\ codes'.second = codes.second
    BY <1>2 DEF EndFirst, SuiteShape
  <2>2. PassCode # -1  BY DEF PassCode
  <2>. QED  BY <2>1, <2>2
<1>3. CASE EndSecond
  <2>1. turn = "second" /\ turn' = "exited" /\ marker' = marker
        /\ codes'.first = codes.first /\ codes'.second = PassCode
        /\ suiteExit' = ExitCode(codes.first, PassCode)
    BY <1>3 DEF EndSecond, SuiteShape
  <2>2. PassCode # -1  BY DEF PassCode
  <2>3. suiteExit' = ExitCode(codes.first, codes.second)'  BY <2>1 DEF ExitCode
  <2>. QED  BY <2>1, <2>2, <2>3
<1>4. CASE KillPass  BY <1>4 DEF KillPass
<1>5. ASSUME NEW f \in TestFiles, StartFile(f) PROVE SuiteExits'  BY <1>5 DEF StartFile
<1>6. ASSUME NEW f \in TestFiles, EndFile(f) PROVE SuiteExits'  BY <1>6 DEF EndFile
<1>7. CASE Serving  BY <1>7, ServingIsApart DEF ExitCode
<1>. QED  BY <1>1, <1>2, <1>3, <1>4, <1>5, <1>6, <1>7 DEF SuiteNext, Serving

\* A listing stays what it was as long as no process but an ended one changes hands: init
\* keeps what it has until that ends.
LEMMA HandsKept ==
    ASSUME ListedIsNobodys, NEW pids \in SUBSET Pids, listed' = listed, stale' = Stale(pids),
           owner' \in [Pids -> TestFiles \cup {"none", "init", "other"}],
           \A p1 \in Pids \ pids : owner[p1] = "init" => owner'[p1] = "init"
    PROVE  ListedIsNobodys'
<1>1. stale' \in [TestFiles -> SUBSET Pids]  BY DEF ListedIsNobodys, Stale
<1>2. ASSUME NEW f \in TestFiles, NEW p1 \in listed[f], owner'[p1] # "init" PROVE p1 \in stale'[f]
  <2>1. p1 \in Pids /\ stale'[f] = stale[f] \cup (listed[f] \cap pids)  BY DEF ListedIsNobodys, Stale
  <2>. QED  BY <1>2, <2>1 DEF ListedIsNobodys
<1>. QED  BY <1>1, <1>2 DEF ListedIsNobodys

\* Every step keeps a reaper's listing free of what has a parent, but for pids that were freed.
LEMMA ListedStep == ASSUME ListedIsNobodys, SuiteNext PROVE ListedIsNobodys'
<1> USE DEF passVars, reapVars
<1>0. OwnedBy(running) \subseteq Pids /\ \A f \in TestFiles : OwnedBy({f}) \subseteq Pids
  BY DEF OwnedBy
<1>i. "init" \notin TestFiles /\ "none" \notin TestFiles  BY SuiteAssumption DEF TestFiles
<1>1. CASE Begin \/ EndFirst \/ EndSecond
  BY <1>1 DEF Begin, EndFirst, EndSecond, ListedIsNobodys
<1>2. CASE KillPass  BY <1>2 DEF KillPass, ListedIsNobodys
<1>3. ASSUME NEW f \in TestFiles, StartFile(f) PROVE ListedIsNobodys'
  BY <1>3 DEF StartFile, ListedIsNobodys
<1>4. ASSUME NEW f \in TestFiles, EndFile(f) \/ StopServer(f) PROVE ListedIsNobodys'
  <2>1. /\ owner' = [q1 \in Pids |-> IF owner[q1] = f THEN "none" ELSE owner[q1]]
        /\ stale' = Stale(OwnedBy({f})) /\ listed' = listed
    BY <1>4 DEF EndFile, StopServer
  <2>2. owner' \in [Pids -> TestFiles \cup {"none", "init", "other"}]
    BY <2>1 DEF ListedIsNobodys
  <2>3. \A p1 \in Pids : owner[p1] = "init" => owner'[p1] = "init"  BY <2>1, <1>i
  <2>. QED  BY <1>0, <2>1, <2>2, <2>3, HandsKept
<1>5. ASSUME NEW f \in TestFiles, StartServer(f) PROVE ListedIsNobodys'
  <2>1. PICK q1 \in Pids : owner[q1] = "none" /\ owner' = [owner EXCEPT ![q1] = f]
    BY <1>5 DEF StartServer
  <2>. QED  BY <1>5, <2>1 DEF StartServer, ListedIsNobodys
<1>6. ASSUME NEW q1 \in Pids, Others(q1) PROVE ListedIsNobodys'
  <2>1. ASSUME owner[q1] \in {"none", "other"}, UNCHANGED stale,
               owner' = [owner EXCEPT ![q1] = "other"] \/ owner' = [owner EXCEPT ![q1] = "init"]
        PROVE  ListedIsNobodys'
    BY <1>6, <2>1 DEF Others, ListedIsNobodys
  <2>2. ASSUME owner' = [owner EXCEPT ![q1] = "none"], stale' = Stale({q1}) PROVE ListedIsNobodys'
    <3>1. owner' \in [Pids -> TestFiles \cup {"none", "init", "other"}] /\ listed' = listed
      BY <1>6, <2>2 DEF Others, ListedIsNobodys
    <3>2. \A p1 \in Pids \ {q1} : owner[p1] = "init" => owner'[p1] = "init"
      BY <2>2 DEF ListedIsNobodys
    <3>. QED  BY <2>2, <3>1, <3>2, HandsKept
  <2>. QED  BY <1>6, <2>1, <2>2 DEF Others
<1>7. ASSUME NEW f \in TestFiles, FindOrphans(f) PROVE ListedIsNobodys'
  <2>1. Orphans \in SUBSET Pids /\ \A p1 \in Orphans : owner[p1] = "init"  BY DEF Orphans
  <2>2. listed' = [listed EXCEPT ![f] = Orphans] /\ owner' = owner /\ stale' = stale
    BY <1>7 DEF FindOrphans
  <2>3. listed' \in [TestFiles -> SUBSET Pids]  BY <2>1, <2>2 DEF ListedIsNobodys
  <2>4. ASSUME NEW g \in TestFiles, NEW p1 \in listed'[g], owner'[p1] # "init" PROVE p1 \in stale'[g]
    <3>1. listed'[g] = IF g = f THEN Orphans ELSE listed[g]  BY <2>2 DEF ListedIsNobodys
    <3>. QED  BY <2>1, <2>2, <2>4, <3>1 DEF ListedIsNobodys
  <2>. QED  BY <2>2, <2>3, <2>4 DEF ListedIsNobodys
<1>8. ASSUME NEW f \in TestFiles, NEW q1 \in Pids, ReapOrphan(f, q1) PROVE ListedIsNobodys'
  <2>1. /\ owner' = [owner EXCEPT ![q1] = "none"] /\ listed' = [listed EXCEPT ![f] = @ \ {q1}]
        /\ stale' = [Stale({q1}) EXCEPT ![f] = stale[f] \ {q1}]
    BY <1>8 DEF ReapOrphan
  <2>2. owner' \in [Pids -> TestFiles \cup {"none", "init", "other"}]
        /\ listed' \in [TestFiles -> SUBSET Pids]
    BY <2>1 DEF ListedIsNobodys
  <2>3. \A g \in TestFiles :
          stale'[g] = IF g = f THEN stale[f] \ {q1} ELSE stale[g] \cup (listed[g] \cap {q1})
    BY <2>1 DEF Stale
  <2>4. stale' \in [TestFiles -> SUBSET Pids]
    BY <2>1 DEF Stale, ListedIsNobodys
  <2>5. ASSUME NEW g \in TestFiles, NEW p1 \in listed'[g], owner'[p1] # "init" PROVE p1 \in stale'[g]
    <3>1. listed'[g] = IF g = f THEN listed[f] \ {q1} ELSE listed[g]  BY <2>1 DEF ListedIsNobodys
    <3>2. p1 \in listed[g] /\ p1 \in Pids /\ (g = f => p1 # q1)  BY <2>5, <3>1 DEF ListedIsNobodys
    <3>3. CASE p1 = q1  BY <2>3, <3>2, <3>3
    <3>4. CASE p1 # q1
      <4>1. owner'[p1] = owner[p1]  BY <2>1, <3>2, <3>4 DEF ListedIsNobodys
      <4>2. p1 \in stale[g]  BY <4>1, <2>5, <3>2 DEF ListedIsNobodys
      <4>. QED  BY <4>2, <2>3, <3>4
    <3>. QED  BY <3>3, <3>4
  <2>. QED  BY <2>2, <2>4, <2>5 DEF ListedIsNobodys
<1>. QED  BY <1>1, <1>2, <1>3, <1>4, <1>5, <1>6, <1>7, <1>8 DEF SuiteNext

\* The invariant is what SuiteIsSafe says of a state.
LEMMA SuiteSaysSo ==
    ASSUME SuiteInv PROVE SuiteTypeOK /\ ExclusiveRunsAlone /\ GreenMeansAllRan
<1> USE DEF SuiteInv
<1>1. SuiteTypeOK  BY DEF SuiteShape, ListedIsNobodys, SuiteTypeOK
<1>2. ExclusiveRunsAlone
  <2>1. SUFFICES ASSUME running \cap Declared # {} PROVE Cardinality(running) = 1
    BY DEF ExclusiveRunsAlone
  <2>2. turn = "second"  BY <2>1, FirstIsShared DEF Passes, SuiteShape
  <2>3. IsFiniteSet(running) /\ Cardinality(running) <= 1 /\ Cardinality(running) \in Nat
    BY <2>2, FS_CardinalityType DEF Passes
  <2>4. Cardinality(running) # 0  BY <2>1, <2>3, FS_EmptySet
  <2>. QED  BY <2>3, <2>4
<1>3. GreenMeansAllRan
  <2>0. SUFFICES ASSUME turn = "exited"
                 PROVE  /\ codes.second # -1 /\ 143 \notin {codes.first, codes.second} =>
                             \A f \in TestFiles : ran[f] = Times1(f)
                        /\ suiteExit = 0 /\ command = "test" => codes = [first |-> 0, second |-> 0]
                        /\ suiteExit = 0 /\ command = "changed" =>
                             codes = [first |-> 0, second |-> 0] \/ ran = [f \in TestFiles |-> 0]
                        /\ marker = "set" => suiteExit = 2 /\ ran = [f \in TestFiles |-> 0]
    BY DEF GreenMeansAllRan
  <2>1. codes.second # -1 /\ 143 \notin {codes.first, codes.second} =>
          \A f \in TestFiles : ran[f] = Times1(f)
    BY <2>0, PassesAddUp DEF Passes
  <2>2. codes.second = -1 => ran = [f \in TestFiles |-> 0]  BY <2>0 DEF Passes, NothingRan
  <2>3. suiteExit = 0 /\ codes.second # -1 => codes.first = 0 /\ codes.second = 0
    BY <2>0 DEF SuiteExits, ExitCode, SuiteShape
  <2>4. codes.first = 0 /\ codes.second = 0 => codes = [first |-> 0, second |-> 0]  BY DEF SuiteShape
  <2>. QED  BY <2>0, <2>1, <2>2, <2>3, <2>4 DEF SuiteExits, SuiteShape
<1>. QED  BY <1>1, <1>2, <1>3

\* A suite of any files, packages and workers, on a machine with any pids, is safe to believe and
\* to run beside others: a file that asks for the machine has it; unless a pass was killed every
\* file has run as often as it was asked to, red or green; a green exit is one of green passes or
\* of nothing to test; and a reaper ends a process that has a parent only under a pid that was
\* given out again since it was listed.
THEOREM SuiteStaysSafe == SuiteSpec => SuiteIsSafe
<1>1. SuiteInit => SuiteInv
  BY DEF SuiteInit, SuiteInv, SuiteShape, Passes, SuiteExits, ListedIsNobodys, NothingRan
<1>2. SuiteInv /\ [SuiteNext]_suiteVars => SuiteInv'
  <2>1. ASSUME SuiteInv, UNCHANGED suiteVars PROVE SuiteInv'
    <3>0. /\ UNCHANGED <<command, targets, marker, turn, waiting, running, ran, passIs, codes, suiteExit>>
          /\ UNCHANGED <<owner, listed, stale>>
      BY <2>1 DEF suiteVars
    <3>1. SuiteShape' /\ SuiteExits'  BY <2>1, <3>0 DEF SuiteInv, SuiteShape, SuiteExits, ExitCode
    <3>2. FirstPass' = FirstPass /\ Second' = Second /\ NothingRan' = NothingRan
      BY <3>0 DEF FirstPass, Second, SecondPass, Alone, LaneSplit, Discovered, Under, NothingRan
    <3>3. Passes'  BY <2>1, <3>0, <3>2 DEF SuiteInv, Passes
    <3>4. ListedIsNobodys'  BY <2>1, <3>0 DEF SuiteInv, ListedIsNobodys
    <3>. QED  BY <3>1, <3>3, <3>4 DEF SuiteInv
  <2>. QED  BY <2>1, ShapeStep, PassesStep, SuiteExitsStep, ListedStep DEF SuiteInv
<1>3. SuiteInv => SuiteTypeOK /\ ExclusiveRunsAlone /\ GreenMeansAllRan  BY SuiteSaysSo
<1>4. SuiteInv /\ [SuiteNext]_suiteVars =>
        [\A f \in TestFiles : \A p \in listed[f] \ listed'[f] :
           owner[p] \in TestFiles \cup {"other"} => p \in stale[f]]_suiteVars
  <2>1. "init" \notin TestFiles  BY SuiteAssumption DEF TestFiles
  <2>. QED  BY <2>1 DEF SuiteInv, ListedIsNobodys
<1>. QED  BY <1>1, <1>2, <1>3, <1>4, PTL DEF SuiteSpec, SuiteIsSafe, OwnServerLives

-----------------------------------------------------------------------------
(* The build cache (Cache, KeyParts) *)

BuildPoints == {"idle", "produce", "producing", "rename", "prune", "remove", "returned", "dead"}
CacheShape ==
    /\ product \in [Keys -> [at : Nat, what : {"none", "whole"}]]
    /\ tmp \in [Builders -> {"none", "part", "whole", "stale"}]
    /\ builder \in [Builders -> [at : BuildPoints, key : Keys, listed : SUBSET Keys]]
    /\ written \in [Builders -> Nat] /\ clock \in Nat /\ asks \in 0 .. MaxAsked
\* The products' times are all in the past and all different.
Stamped ==
    /\ \A k \in Present : product[k].at < clock
    /\ \A j, k \in Present : product[j].at = product[k].at => j = k
\* So are those of the files about to be renamed.
Renaming == {b \in Builders : builder[b].at = "rename"}
Dated ==
    /\ \A b \in Renaming : written[b] < clock /\ \A k \in Present : product[k].at # written[b]
    /\ \A b, c \in Renaming : written[b] = written[c] => b = c
\* What is on some listing, and about to go.
Going == {k \in Keys : \E b \in Builders : builder[b].at = "remove" /\ k \in builder[b].listed}
\* A builder that has still to list, or that never will.
Owing == \E b \in Builders : builder[b].at \in {"prune", "dead"}
\* Somebody has still to list, or what no listing names is within the limit.
Bounded == Owing \/ Cardinality(Present \ Going) <= Keep
CacheInv == CacheShape /\ LiveTempUntouched /\ Stamped /\ Dated /\ Bounded

\* Of things with different times, those with fewer than n newer ones are at most n.
LEMMA NewestAreFew ==
    ASSUME NEW S, IsFiniteSet(S), NEW time \in [S -> Nat], NEW n \in Nat,
           \A j, k \in S : time[j] = time[k] => j = k
    PROVE  Cardinality({k \in S : ~(Cardinality({j \in S : time[j] > time[k]}) >= n)}) <= n
<1> DEFINE After(k) == {j \in S : time[j] > time[k]}
           T == {k \in S : ~(Cardinality(After(k)) >= n)}
<1>1. SUFFICES Cardinality(T) <= n  OBVIOUS
<1>2. IsFiniteSet(T) /\ Cardinality(T) \in Nat
  <2>1. T \in SUBSET S  OBVIOUS
  <2>. QED  BY <2>1, FS_Subset, FS_CardinalityType
<1>3. CASE T = {}
  <2>1. Cardinality({}) = 0  BY FS_EmptySet
  <2> HIDE DEF T
  <2>. QED  BY <1>3, <2>1
<1>4. CASE T # {}
  <2> DEFINE stamps == {time[k] : k \in T}
  <2>0. T \in SUBSET S  OBVIOUS
  <2>1. stamps \in SUBSET Nat /\ stamps # {}
    <3> HIDE DEF T
    <3>. QED  BY <1>4, <2>0
  <2>2. PICK s \in stamps : \A m \in stamps : s <= m
    <3> HIDE DEF stamps
    <3>. QED  BY <2>1, LeastOne
  <2>3. PICK k \in T : s = time[k]  BY <2>2
  <2>m. ASSUME NEW j \in T PROVE time[k] <= time[j]
    <3> HIDE DEF T
    <3>. QED  BY <2>2, <2>3
  <2>4. T \ {k} \in SUBSET After(k)
    <3>1. ASSUME NEW j \in T, j # k PROVE time[j] > time[k]
      <4>1. time[k] <= time[j]  BY <2>m
      <4>2. time[j] # time[k] /\ time[j] \in Nat /\ time[k] \in Nat  BY <3>1
      <4>. QED  BY <4>1, <4>2
    <3>. QED  BY <3>1
  <2>5. IsFiniteSet(After(k)) /\ Cardinality(After(k)) \in Nat
    <3>1. After(k) \in SUBSET S  OBVIOUS
    <3> HIDE DEF After
    <3>. QED  BY <3>1, FS_Subset, FS_CardinalityType
  <2>6. ~(Cardinality(After(k)) >= n)  OBVIOUS
  <2> HIDE DEF After, T, stamps
  <2>7. Cardinality(T \ {k}) <= Cardinality(After(k))  BY <2>4, <2>5, FS_Subset
  <2>8. Cardinality(T \ {k}) = Cardinality(T) - 1  BY <1>2, <2>3, FS_RemoveElement
  <2>. QED  BY <1>2, <2>5, <2>6, <2>7, <2>8
<1>. QED  BY <1>3, <1>4

\* A prune's listing leaves no more than the limit.
LEMMA ListingLeavesFew ==
    ASSUME CacheShape, Stamped PROVE Cardinality(Present \ Oldest) <= Keep
<1> DEFINE time == [k \in Present |-> product[k].at]
<1>1. Present \in SUBSET Keys  BY DEF Present
<1>2. IsFiniteSet(Present)  BY <1>1, CacheAssumption, FS_Subset
<1>3. time \in [Present -> Nat]  BY <1>1 DEF CacheShape
<1>4. \A j, k \in Present : time[j] = time[k] => j = k  BY DEF Stamped
<1>5. Present \ Oldest = {k \in Present : ~(Cardinality({j \in Present : time[j] > time[k]}) >= Keep)}
  <2>1. ASSUME NEW k \in Present PROVE Newer(k) = {j \in Present : time[j] > time[k]}  BY DEF Newer
  <2>. QED  BY <2>1 DEF Oldest
<1> HIDE DEF time
<1>. QED  BY <1>2, <1>3, <1>4, <1>5, CacheAssumption, NewestAreFew

\* The set that no listing names is finite, and one that is smaller has fewer members.
LEMMA FewerPresent ==
    ASSUME CacheShape, NEW S, S \subseteq Present \ Going
    PROVE  IsFiniteSet(S) /\ Cardinality(S) \in Nat /\ Cardinality(Present \ Going) \in Nat
           /\ Cardinality(S) <= Cardinality(Present \ Going)
<1>1. Present \ Going \in SUBSET Keys  BY DEF Present
<1>2. IsFiniteSet(Present \ Going)  BY <1>1, CacheAssumption, FS_Subset
<1>. QED  BY <1>2, FS_Subset, FS_CardinalityType

\* A step after which no more is present that is not listed keeps the bound.
LEMMA BoundKept ==
    ASSUME CacheShape, Bounded, Owing => Owing', (Present \ Going)' \subseteq Present \ Going
    PROVE  Bounded'
<1>1. CASE Owing  BY <1>1 DEF Bounded
<1>2. CASE ~Owing
  <2>1. Cardinality(Present \ Going) <= Keep  BY <1>2 DEF Bounded
  <2>2. Cardinality((Present \ Going)') <= Cardinality(Present \ Going)
        /\ Cardinality((Present \ Going)') \in Nat /\ Cardinality(Present \ Going) \in Nat
    BY FewerPresent
  <2>. QED  BY <2>1, <2>2, CacheAssumption DEF Bounded
<1>. QED  BY <1>1, <1>2

\* cached finds a product, or does not.
LEMMA LookupStep ==
    ASSUME CacheInv, NEW b \in Builders, NEW k \in Keys, Lookup(b, k) PROVE CacheInv'
<1> USE DEF CacheInv
<1>0. PICK at \in {"returned", "produce"} :
        builder' = [builder EXCEPT ![b].at = at, ![b].key = k]
  BY DEF Lookup
<1>a. \A c \in Builders : builder'[c] = IF c = b THEN [builder[b] EXCEPT !.at = at, !.key = k] ELSE builder[c]
  BY <1>0 DEF CacheShape
<1>b. builder[b].at \in {"idle", "returned"}  BY DEF Lookup
<1>c. builder'[b].at = at /\ builder'[b].listed = builder[b].listed  BY <1>a DEF CacheShape
<1>e. \/ k \in Present /\ product' = [product EXCEPT ![k].at = clock] /\ clock' = clock + 1
      \/ k \notin Present /\ product' = product /\ clock' = clock
  BY DEF Lookup
<1>f. tmp' = tmp /\ written' = written  BY DEF Lookup
<1>1. CacheShape'
  <2>1. [builder[b] EXCEPT !.at = at, !.key = k] \in [at : BuildPoints, key : Keys, listed : SUBSET Keys]
    <3>1. at \in BuildPoints  BY DEF BuildPoints
    <3>. QED  BY <3>1 DEF CacheShape
  <2>2. builder' \in [Builders -> [at : BuildPoints, key : Keys, listed : SUBSET Keys]]
    BY <1>0, <2>1 DEF CacheShape
  <2>3. product' \in [Keys -> [at : Nat, what : {"none", "whole"}]] /\ clock' \in Nat
    BY <1>e DEF CacheShape
  <2>. QED  BY <1>f, <2>2, <2>3, CacheAssumption DEF CacheShape, Lookup
<1>2. LiveTempUntouched'  BY <1>a, <1>c DEF Lookup, LiveTempUntouched
<1>3. Present' = Present  BY DEF CacheShape, Lookup, Present
<1>4. Stamped'
  <2>1. CASE k \in Present
    <3>1. clock' = clock + 1 /\ clock \in Nat  BY <2>1 DEF Lookup, CacheShape
    <3>2. \A j \in Present : product'[j].at = IF j = k THEN clock ELSE product[j].at
      BY <2>1 DEF Lookup, CacheShape, Present
    <3>3. \A j \in Present : product[j].at \in Nat  BY DEF CacheShape, Present
    <3>. QED  BY <1>3, <3>1, <3>2, <3>3 DEF Stamped
  <2>2. CASE k \notin Present  BY <1>3, <2>2 DEF Lookup, Stamped
  <2>. QED  BY <2>1, <2>2
<1>d. Dated'
  <2>1. Renaming' = Renaming /\ written' = written /\ clock' >= clock /\ clock \in Nat /\ clock' \in Nat
    <3>1. Renaming' = Renaming  BY <1>a, <1>b, <1>c DEF Renaming
    <3>2. clock \in Nat /\ clock' \in Nat /\ clock' >= clock  BY <1>e DEF CacheShape
    <3>. QED  BY <1>f, <3>1, <3>2
  <2>2. \A j \in Present : product'[j].at = product[j].at \/ product'[j].at = clock
    BY <1>e DEF CacheShape, Present
  <2>3. \A c \in Renaming : written[c] < clock /\ written[c] \in Nat  BY DEF Dated, Renaming, CacheShape
  <2>. QED  BY <1>3, <2>1, <2>2, <2>3 DEF Dated
<1>5. Going' = Going
  <2>1. \A c \in Builders : builder'[c].at = "remove" <=> builder[c].at = "remove"
    BY <1>a, <1>b, <1>c
  <2>2. \A c \in Builders : builder'[c].listed = builder[c].listed  BY <1>a, <1>c
  <2>. QED  BY <2>1, <2>2 DEF Going
<1>6. Owing => Owing'  BY <1>a, <1>b DEF Owing
<1>. QED  BY <1>1, <1>2, <1>3, <1>4, <1>5, <1>6, <1>d, BoundKept

\* A product is written, or is not.
LEMMA ProduceStep ==
    ASSUME CacheInv, NEW b \in Builders, Produce(b) \/ ProduceFails(b) PROVE CacheInv'
<1> USE DEF CacheInv
<1>0. PICK at \in BuildPoints : builder' = [builder EXCEPT ![b].at = at]
  BY DEF Produce, ProduceFails, Goes, BuildPoints
<1>1. CacheShape'
  <2>1. builder' \in [Builders -> [at : BuildPoints, key : Keys, listed : SUBSET Keys]]
    BY <1>0 DEF CacheShape
  <2>2. tmp' \in [Builders -> {"none", "part", "whole", "stale"}]
    BY DEF CacheShape, Produce, ProduceFails
  <2>3. written' \in [Builders -> Nat] /\ clock' \in Nat /\ UNCHANGED <<product, asks>>
    BY DEF CacheShape, Produce, ProduceFails
  <2>. QED  BY <2>1, <2>2, <2>3 DEF CacheShape
<1>2. LiveTempUntouched'  BY DEF CacheShape, Produce, ProduceFails, Goes, LiveTempUntouched
<1>3. Present' = Present /\ product' = product /\ clock' >= clock
  BY DEF Produce, ProduceFails, Present, CacheShape
<1>n. /\ \A k \in Present : product[k].at \in Nat
      /\ \A c \in Builders : written[c] \in Nat /\ written'[c] \in Nat
      /\ clock \in Nat /\ clock' \in Nat
  BY <1>1 DEF CacheShape, Present
<1>4. Stamped'  BY <1>3, <1>n DEF Stamped
<1>d. Dated'
  <2>1. CASE builder'[b].at = "rename"
    <3>1. clock' = clock + 1 /\ written' = [written EXCEPT ![b] = clock]
      BY <2>1 DEF Produce, ProduceFails, Goes, CacheShape
    <3>2. /\ Renaming' = Renaming \cup {b} /\ b \notin Renaming /\ Renaming \subseteq Builders
          /\ written'[b] = clock /\ \A c \in Renaming : written'[c] = written[c]
      BY <1>0, <2>1, <3>1 DEF Renaming, Produce, ProduceFails, CacheShape
    <3>3. \A k \in Present : product[k].at < clock  BY DEF Stamped
    <3>4. \A c \in Renaming : written[c] < clock  BY DEF Dated
    <3>. QED  BY <1>3, <1>n, <3>1, <3>2, <3>3, <3>4 DEF Dated
  <2>2. CASE builder'[b].at # "rename"
    <3>1. Renaming' = Renaming /\ written' = written /\ clock' = clock
      BY <1>0, <2>2 DEF Renaming, Produce, ProduceFails, Goes, CacheShape
    <3>. QED  BY <1>3, <3>1 DEF Dated
  <2>. QED  BY <2>1, <2>2
<1>5. Going' = Going
  <2>1. \A c \in Builders : builder'[c].listed = builder[c].listed  BY <1>0 DEF CacheShape
  <2>2. builder[b].at # "remove" /\ builder'[b].at # "remove"
    BY DEF CacheShape, Produce, ProduceFails, Goes
  <2>3. \A c \in Builders : c # b => builder'[c] = builder[c]  BY <1>0 DEF CacheShape
  <2>. QED  BY <2>1, <2>2, <2>3 DEF Going
<1>6. Owing => Owing'  BY DEF CacheShape, Produce, ProduceFails, Goes, Owing
<1>. QED  BY <1>1, <1>2, <1>3, <1>4, <1>5, <1>6, <1>d, BoundKept

\* A product takes its name, and its builder owes a listing.
LEMMA RenameStep == ASSUME CacheInv, NEW b \in Builders, Rename(b) PROVE CacheInv'
<1> USE DEF CacheInv
<1>0. tmp[b] = "whole"  BY DEF Rename, LiveTempUntouched
<1>1. CacheShape'  BY <1>0 DEF CacheShape, Rename, Goes, BuildPoints
<1>2. LiveTempUntouched'  BY DEF CacheShape, Rename, Goes, LiveTempUntouched
<1>3. PICK k \in Keys : k = builder[b].key  BY DEF CacheShape
<1>4. product' = [product EXCEPT ![k] = [at |-> written[b], what |-> "whole"]] /\ UNCHANGED <<written, clock>>
  BY <1>0, <1>3 DEF Rename
<1>5. Present' = Present \cup {k}  BY <1>4 DEF CacheShape, Present
<1>6. ASSUME NEW j \in Keys PROVE product'[j].at = IF j = k THEN written[b] ELSE product[j].at
  BY <1>4 DEF CacheShape
<1>7. Present \subseteq Keys /\ \A j \in Keys : product[j].at \in Nat  BY DEF Present, CacheShape
<1>8. b \in Renaming  BY DEF Rename, Renaming
<1>9. Stamped'
  <2>1. written[b] < clock /\ \A j \in Present : product[j].at # written[b]  BY <1>8 DEF Dated
  <2>. QED  BY <1>3, <1>4, <1>5, <1>6, <1>7, <2>1 DEF Stamped
<1>d. Dated'
  <2>1. Renaming' = Renaming \ {b}  BY DEF Renaming, Rename, Goes, CacheShape
  <2>2. \A c \in Renaming' : written[c] # written[b]  BY <1>8, <2>1 DEF Dated
  <2>. QED  BY <1>3, <1>4, <1>5, <1>6, <1>7, <2>1, <2>2 DEF Dated
<1>10. Owing'  BY DEF CacheShape, Rename, Goes, Owing
<1>. QED  BY <1>1, <1>2, <1>9, <1>10, <1>d DEF Bounded

\* A builder lists what is to go: what is left is within the limit.
LEMMA PruneListStep == ASSUME CacheInv, NEW b \in Builders, PruneList(b) PROVE CacheInv'
<1> USE DEF CacheInv
<1>0. Oldest \subseteq Keys  BY DEF Oldest, Present
<1>1. CacheShape'  BY <1>0 DEF CacheShape, PruneList, BuildPoints
<1>2. LiveTempUntouched'  BY DEF CacheShape, PruneList, LiveTempUntouched, StaleTmps
<1>3. Present' = Present /\ product' = product /\ clock' = clock  BY DEF PruneList, Present
<1>4. Stamped'  BY <1>3 DEF Stamped
<1>d. Dated'
  <2>1. Renaming' \subseteq Renaming /\ written' = written
    BY DEF Renaming, PruneList, CacheShape
  <2>. QED  BY <1>3, <2>1 DEF Dated
<1>5. Oldest \subseteq Going'
  <2>1. builder'[b].at = "remove" /\ builder'[b].listed = Oldest  BY DEF PruneList, CacheShape
  <2>. QED  BY <1>0, <2>1 DEF Going
<1>6. Cardinality(Present \ Oldest) <= Keep  BY ListingLeavesFew
<1>7. Cardinality(Present' \ Going') <= Keep
  <2>1. Present \ Oldest \in SUBSET Keys  BY DEF Present
  <2>2. IsFiniteSet(Present \ Oldest) /\ Cardinality(Present \ Oldest) \in Nat
    BY <2>1, CacheAssumption, FS_Subset, FS_CardinalityType
  <2>3. Present' \ Going' \in SUBSET (Present \ Oldest)  BY <1>3, <1>5
  <2>4. Cardinality(Present' \ Going') <= Cardinality(Present \ Oldest)
        /\ IsFiniteSet(Present' \ Going')
    BY <2>2, <2>3, FS_Subset
  <2>5. Cardinality(Present' \ Going') \in Nat  BY <2>4, FS_CardinalityType
  <2>. QED  BY <1>6, <2>2, <2>4, <2>5, CacheAssumption
<1>. QED  BY <1>1, <1>2, <1>4, <1>7, <1>d DEF Bounded

\* What is listed goes, one at a time, and then the builder returns.
LEMMA PruneRemoveStep == ASSUME CacheInv, NEW b \in Builders, PruneRemove(b) PROVE CacheInv'
<1> USE DEF CacheInv
<1>1. CASE builder[b].listed = {}
  <2>0. builder[b].at = "remove" /\ builder' = [builder EXCEPT ![b].at = "returned"]
        /\ UNCHANGED <<product, tmp, written, clock, asks>>
    BY <1>1 DEF PruneRemove, Goes
  <2>1. CacheShape'  BY <2>0 DEF CacheShape, BuildPoints
  <2>2. LiveTempUntouched'  BY <2>0 DEF CacheShape, LiveTempUntouched
  <2>3. Present' = Present /\ Stamped'  BY <2>0 DEF Present, Stamped
  <2>d. Dated'
    <3>1. Renaming' = Renaming  BY <2>0 DEF Renaming, CacheShape
    <3>. QED  BY <2>0, <2>3, <3>1 DEF Dated
  <2>4. Going' = Going  BY <2>0, <1>1 DEF CacheShape, Going
  <2>5. Owing => Owing'  BY <2>0 DEF CacheShape, Owing
  <2>. QED  BY <2>1, <2>2, <2>3, <2>4, <2>5, <2>d, BoundKept
<1>2. CASE builder[b].listed # {}
  <2>0. PICK k \in builder[b].listed :
          /\ product' = [product EXCEPT ![k] = NoFile]
          /\ builder' = [builder EXCEPT ![b].listed = @ \ {k}]
    BY <1>2 DEF PruneRemove
  <2>u. builder[b].at = "remove" /\ UNCHANGED <<tmp, written, clock, asks>> /\ k \in Keys
    BY <2>0 DEF PruneRemove, CacheShape
  <2>1. CacheShape'  BY <2>0, <2>u DEF CacheShape, NoFile
  <2>2. \A c \in Builders : builder'[c].at = builder[c].at  BY <2>0 DEF CacheShape
  <2>3. LiveTempUntouched' /\ (Owing => Owing')  BY <2>2, <2>u DEF LiveTempUntouched, Owing
  <2>4. Present' = Present \ {k}  BY <2>0, <2>u DEF Present, NoFile, CacheShape
  <2>5. \A j \in Present' : product'[j] = product[j]  BY <2>0, <2>u, <2>4 DEF CacheShape
  <2>6. Stamped'  BY <2>4, <2>5, <2>u DEF Stamped
  <2>d. Dated'
    <3>1. Renaming' = Renaming  BY <2>2 DEF Renaming
    <3>. QED  BY <2>4, <2>5, <2>u, <3>1 DEF Dated
  <2>7. Present' \ Going' \subseteq Present \ Going
    <3>1. ASSUME NEW j \in Going, j # k PROVE j \in Going'
      <4>1. PICK c \in Builders : builder[c].at = "remove" /\ j \in builder[c].listed
        BY <3>1 DEF Going
      <4>2. j \in builder'[c].listed  BY <2>0, <3>1, <4>1 DEF CacheShape
      <4>3. j \in Keys  BY <3>1 DEF Going
      <4>. QED  BY <2>2, <4>1, <4>2, <4>3 DEF Going
    <3>. QED  BY <2>4, <3>1
  <2>. QED  BY <2>1, <2>3, <2>6, <2>7, <2>d, BoundKept
<1>. QED  BY <1>1, <1>2

\* A process is killed, or what it left grows old.
LEMMA CrashStep == ASSUME CacheInv, NEW b \in Builders, Crash(b) \/ GrowsOld(b) PROVE CacheInv'
<1> USE DEF CacheInv
<1>1. CacheShape'
  <2>1. builder' \in [Builders -> [at : BuildPoints, key : Keys, listed : SUBSET Keys]]
    <3>1. CASE Crash(b)
      <4>1. builder' = [builder EXCEPT ![b].at = "dead"]  BY <3>1 DEF Crash, Goes
      <4>2. "dead" \in BuildPoints  BY DEF BuildPoints
      <4>. QED  BY <4>1, <4>2 DEF CacheShape
    <3>2. CASE GrowsOld(b)  BY <3>2 DEF GrowsOld, CacheShape
    <3>. QED  BY <3>1, <3>2
  <2>2. tmp' \in [Builders -> {"none", "part", "whole", "stale"}]
    BY DEF CacheShape, Crash, GrowsOld
  <2>. QED  BY <2>1, <2>2 DEF CacheShape, Crash, GrowsOld
<1>2. LiveTempUntouched'  BY DEF CacheShape, Crash, GrowsOld, Goes, LiveTempUntouched
<1>3. Present' = Present /\ Stamped'  BY DEF Crash, GrowsOld, Present, Stamped
<1>d. Dated'
  <2>1. Renaming' \subseteq Renaming /\ UNCHANGED <<written, product, clock>>
    BY DEF Renaming, Crash, GrowsOld, Goes, CacheShape
  <2>. QED  BY <1>3, <2>1 DEF Dated
<1>4. CASE Crash(b)
  <2>1. Owing'  BY <1>4 DEF CacheShape, Crash, Goes, Owing
  <2>. QED  BY <1>1, <1>2, <1>3, <1>d, <2>1 DEF Bounded
<1>5. CASE GrowsOld(b)
  <2>1. Going' = Going /\ (Owing => Owing')  BY <1>5 DEF GrowsOld, Going, Owing
  <2>. QED  BY <1>1, <1>2, <1>3, <1>d, <2>1, BoundKept
<1>. QED  BY <1>4, <1>5

\* The cache begins empty.
LEMMA CacheStart == ASSUME CacheInit PROVE CacheInv
<1>1. (CHOOSE k \in Keys : TRUE) \in Keys
  <2>1. \E k \in Keys : TRUE  BY CacheAssumption
  <2>. QED  BY <2>1
<1>2. CacheShape  BY <1>1, CacheAssumption DEF CacheInit, CacheShape, BuildPoints, NoFile
<1>3. Present = {}  BY DEF CacheInit, Present, NoFile
<1>4. LiveTempUntouched /\ Stamped /\ Dated
  BY <1>3 DEF CacheInit, LiveTempUntouched, Stamped, Dated, Renaming
<1>5. Cardinality(Present \ Going) = 0
  <2>1. Present \ Going = {}  BY <1>3
  <2>. QED  BY <2>1, FS_EmptySet
<1>. QED  BY <1>2, <1>4, <1>5, CacheAssumption DEF CacheInv, Bounded

\* The invariant is what CacheIsSafe says.
LEMMA CacheSaysSo == ASSUME CacheInv PROVE CacheIsSafe
<1> USE DEF CacheInv
<1>1. CacheTypeOK /\ NeverHalfWritten  BY DEF CacheShape, CacheTypeOK, NeverHalfWritten
<1>2. CacheIsBounded
  <2>1. SUFFICES ASSUME \A b \in Builders : builder[b].at \in {"idle", "returned"}
                 PROVE  Cardinality(Present) <= Keep
    BY DEF CacheIsBounded
  <2>2. ~Owing /\ Going = {}  BY <2>1 DEF Owing, Going
  <2>3. Present \ Going = Present  BY <2>2
  <2>. QED  BY <2>2, <2>3 DEF Bounded
<1>. QED  BY <1>1, <1>2 DEF CacheIsSafe

-----------------------------------------------------------------------------
\* A process knows the parts of its key as they were when it loaded them, or was edited under
\* before it first asked.
KeyPartsInv ==
    /\ onDisk \in 0 .. MaxEdits /\ findable \in BOOLEAN
    /\ process \in [Processes -> [loaded : {-1} \cup 0 .. MaxEdits,
                                  parts : {Unasked, Null} \cup 0 .. MaxEdits, raced : BOOLEAN]]
    /\ \A p \in Processes :
         process[p].parts \in 0 .. MaxEdits => process[p].parts = process[p].loaded \/ process[p].raced
    /\ KeyNamesItsCompiler

\* Every step keeps what a process knows, and files what it says under it.
LEMMA KeyPartsStep == ASSUME KeyPartsInv, KeyPartsNext PROVE KeyPartsInv'
<1> USE KeyPartsAssumption DEF KeyPartsInv, Unasked, Null
<1>1. CASE EditSources  BY <1>1 DEF EditSources, KeyNamesItsCompiler
<1>2. CASE Hide  BY <1>2 DEF Hide, KeyNamesItsCompiler
<1>3. ASSUME NEW p \in Processes, StartProcess(p) PROVE KeyPartsInv'
  <2> DEFINE fresh == [NotRunning EXCEPT !.loaded = onDisk]
  <2>1. process' = [process EXCEPT ![p] = fresh] /\ UNCHANGED <<onDisk, findable, filed>>
    BY <1>3 DEF StartProcess
  <2>2. fresh.parts = Unasked /\ fresh \in [loaded : {-1} \cup 0 .. MaxEdits,
              parts : {Unasked, Null} \cup 0 .. MaxEdits, raced : BOOLEAN]
    BY DEF NotRunning
  <2> HIDE DEF fresh
  <2>3. \A q \in Processes : process'[q] = IF q = p THEN fresh ELSE process[q]  BY <2>1
  <2>. QED  BY <2>1, <2>2, <2>3 DEF KeyNamesItsCompiler
<1>4. ASSUME NEW p \in Processes, Build(p) PROVE KeyPartsInv'
  <2> DEFINE parts == PartsOf(p)
             first == process[p].parts = Unasked
             raced == process[p].raced \/ (first /\ onDisk # process[p].loaded)
  <2>1. parts \in {Unasked, Null} \cup 0 .. MaxEdits  BY DEF PartsOf
  <2>2. raced \in BOOLEAN  OBVIOUS
  <2>3. parts \in 0 .. MaxEdits => parts = process[p].loaded \/ raced  BY DEF PartsOf
  <2>4. parts # Unasked  BY DEF PartsOf
  <2>5. process' = [process EXCEPT ![p].parts = parts, ![p].raced = raced]
        /\ UNCHANGED <<onDisk, findable>>
    BY <1>4 DEF Build
  <2>6. filed' = IF parts = Null THEN filed
                 ELSE filed \cup {[key |-> parts, by |-> process[p].loaded, raced |-> raced]}
    BY <1>4 DEF Build
  <2> HIDE DEF parts, raced
  <2>7. KeyNamesItsCompiler'  BY <2>1, <2>3, <2>4, <2>6 DEF KeyNamesItsCompiler
  <2>. QED  BY <2>1, <2>2, <2>3, <2>5, <2>7
<1>. QED  BY <1>1, <1>2, <1>3, <1>4 DEF KeyPartsNext

\* A product taken from the cache is whole and was built by the compiler its key names, and the
\* directory is within its limit, for any processes, keys, limit and edits.
THEOREM CacheStaysTrue == CacheSpec /\ KeyPartsSpec => []CacheTellsTheTruth
<1>1. CacheInit => CacheInv  BY CacheStart
<1>2. CacheInv /\ [CacheNext]_cacheVars => CacheInv'
  <2>1. ASSUME CacheInv, UNCHANGED cacheVars PROVE CacheInv'
    BY <2>1 DEF cacheVars, CacheInv, CacheShape, LiveTempUntouched, Stamped, Dated, Renaming, Present,
                Bounded, Owing, Going
  <2>. QED  BY <2>1, LookupStep, ProduceStep, RenameStep, PruneListStep, PruneRemoveStep, CrashStep
            DEF CacheNext
<1>3. CacheInv => CacheIsSafe  BY CacheSaysSo
<1>4. KeyPartsInit => KeyPartsInv
  BY KeyPartsAssumption DEF KeyPartsInit, KeyPartsInv, NotRunning, Unasked, Null, KeyNamesItsCompiler
<1>5. KeyPartsInv /\ [KeyPartsNext]_keyPartVars => KeyPartsInv'
  <2>1. ASSUME KeyPartsInv, UNCHANGED keyPartVars PROVE KeyPartsInv'
    BY <2>1 DEF keyPartVars, KeyPartsInv, KeyNamesItsCompiler
  <2>. QED  BY <2>1, KeyPartsStep
<1>6. KeyPartsInv => KeyPartsTypeOK /\ KeyNamesItsCompiler  BY DEF KeyPartsInv, KeyPartsTypeOK
<1>. QED  BY <1>1, <1>2, <1>3, <1>4, <1>5, <1>6, PTL DEF CacheSpec, KeyPartsSpec, CacheTellsTheTruth

-----------------------------------------------------------------------------
(* The profile that narrows a mutant's tests (Profile) *)

\* Dumps that are being written, or were when they were looked for.
DumpRecords == [of : ProfTests \cup {"none", "between"}, lines : SUBSET Points]
ProfShape ==
    /\ current \in ProfTests \cup {"none", "between"}
    /\ counts \in [Known -> Nat] /\ before \in [Known -> Nat]
    /\ dumps \subseteq Points /\ baseline \subseteq Known /\ profiled \subseteq ProfTests
    /\ half \subseteq DumpRecords /\ late \subseteq DumpRecords
    /\ perTest \in [ProfTests -> SUBSET Known] /\ truth \in [ProfTests -> SUBSET Lines]
\* Before the first test nothing has been settled, and what has run is in the counters or a dump.
Loading ==
    ~started => /\ current = "none" /\ profiled = {} /\ late = {}
                /\ \A t \in ProfTests : \A l \in truth[t] \cap Points :
                     l \in Hit(counts) \cup dumps \/ l \in LateOf(t, half)
\* After it, what a test that has not begun executed is what ran at load.
Unbegun ==
    started => /\ current # "none" /\ \A d \in half : d.of = "none" => d \in late
               /\ \A t \in ProfTests \ profiled : t # current =>
                    \A l \in truth[t] \cap Points : l \in baseline \/ l \in LateOf(t, late)
\* What the running test executed will be credited to it, or is in a dump being written.
Crediting ==
    current \in ProfTests =>
      /\ current \notin profiled /\ \A l \in Known : before[l] <= counts[l]
      /\ \A l \in truth[current] \cap Points :
           l \in Credited \/ l \in LateOf(current, half) \/ l \in LateOf(current, late)
\* What has been credited, and what is owed to those who come later.
Settled ==
    /\ \A t \in profiled : \A l \in truth[t] \cap Points : l \in perTest[t] \/ l \in LateOf(t, late)
    /\ \A d \in late : \/ d \in half \/ d.lines \subseteq dumps
                       \/ \E u \in profiled : d.lines \subseteq perTest[u]
\* Control enters by the entry.
Entered == \A t \in ProfTests : truth[t] # {} => Entry \in truth[t]
\* A mutant is asked about when the tests are over.
Asked ==
    /\ plan.kind \in {"none", "narrow", "widen", "unhit"}
    /\ plan.kind # "none" => current = "between"
ProfInv ==
    /\ ProfShape /\ Loading /\ Unbegun /\ Crediting /\ Settled /\ Entered /\ Asked
    /\ NarrowKeepsWhatReaches

\* A line is late for a test when a dump of its, or one of the load, has it; more dumps make no
\* line less late.
LEMMA LateIs ==
    ASSUME NEW t, NEW ds, NEW l
    PROVE  l \in LateOf(t, ds) <=> \E d \in ds : d.of \in {t, "none"} /\ l \in d.lines
  BY DEF LateOf
LEMMA LateGrows ==
    ASSUME NEW t, NEW ds, NEW es, \A d \in ds : d.of \in {t, "none"} => d \in es,
           NEW l \in LateOf(t, ds)
    PROVE  l \in LateOf(t, es)
  BY LateIs

\* Counting a line leaves the others' counters alone and raises its own.
LEMMA CountedRises ==
    ASSUME ProfShape, NEW l \in Lines, Counted(l)
    PROVE  /\ counts' \in [Known -> Nat]
           /\ \A k \in Known : counts'[k] = IF k = l /\ l \in Points THEN counts[k] + 1 ELSE counts[k]
<1>1. CASE l \in Points  BY <1>1 DEF Counted, ProfShape, Points
<1>2. CASE l \notin Points  BY <1>2 DEF Counted, ProfShape
<1>. QED  BY <1>1, <1>2

\* A line runs as the module loads.
LEMMA LoadRunsStep == ASSUME ProfInv, NEW l \in Lines, LoadRuns(l) PROVE ProfInv'
<1> USE ProfileAssumption DEF ProfInv
<1>u. UNCHANGED <<current, before, dumps, half, late, baseline, started, perTest, profiled, plan>> /\ ~started
  BY DEF LoadRuns, dumpVars
<1>k. current = "none" /\ profiled = {} /\ current \notin ProfTests /\ late = {}  BY <1>u DEF Loading
<1>c. /\ counts' \in [Known -> Nat]
      /\ \A k \in Known : counts'[k] = IF k = l /\ l \in Points THEN counts[k] + 1 ELSE counts[k]
  BY CountedRises DEF LoadRuns
<1>t. truth' = [t \in ProfTests |-> truth[t] \cup {l}]  BY DEF LoadRuns
<1>1. ProfShape'  BY <1>u, <1>c, <1>t DEF ProfShape
<1>2. Loading'
  <2>1. ASSUME NEW t \in ProfTests, NEW k \in truth'[t] \cap Points
        PROVE  k \in Hit(counts)' \cup dumps' \/ k \in LateOf(t, half')
    <3>0. k \in Known /\ counts[k] \in Nat  BY <2>1 DEF Points, ProfShape
    <3>1. CASE k = l  BY <1>c, <2>1, <3>0, <3>1 DEF Hit
    <3>2. CASE k # l
      <4>1. k \in truth[t] \cap Points  BY <1>t, <2>1, <3>2
      <4>2. k \in Hit(counts) => k \in Hit(counts)'  BY <1>c, <3>0, <3>2 DEF Hit
      <4>. QED  BY <1>u, <4>1, <4>2 DEF Loading
    <3>. QED  BY <3>1, <3>2
  <2>. QED  BY <1>u, <1>k, <2>1 DEF Loading
<1>3. Unbegun' /\ Crediting'  BY <1>u, <1>k DEF Unbegun, Crediting
<1>4. Entered'
  <2>1. ASSUME NEW t \in ProfTests PROVE Entry \in truth'[t]
    <3>1. CASE l = Entry  BY <1>t, <3>1
    <3>2. CASE l # Entry
      <4>1. Entry \in truth[t]  BY <3>2 DEF LoadRuns
      <4>. QED  BY <1>t, <4>1
    <3>. QED  BY <3>1, <3>2
  <2>. QED  BY <2>1 DEF Entered
<1>5. Asked' /\ Settled' /\ NarrowKeepsWhatReaches'
  BY <1>u, <1>k DEF Asked, Settled, NarrowKeepsWhatReaches
<1>. QED  BY <1>1, <1>2, <1>3, <1>4, <1>5

\* A test begins.
LEMMA BeginTestStep == ASSUME ProfInv, NEW t \in ProfTests, BeginTest(t) PROVE ProfInv'
<1> USE ProfileAssumption DEF ProfInv
<1>u. /\ UNCHANGED <<counts, half, perTest, profiled, truth, plan>>
      /\ current' = t /\ before' = counts /\ t \notin profiled /\ current \notin ProfTests
      /\ plan = NoPlan
  BY DEF BeginTest
<1>s. started'  BY Zenon DEF BeginTest
<1>b. /\ \A u \in ProfTests \ profiled : \A l \in truth[u] \cap Points :
           l \in baseline' \/ l \in LateOf(u, late')
      /\ \A d \in half : d.of = "none" => d \in late'
      /\ baseline' \subseteq Known /\ dumps' \subseteq Points /\ late' \subseteq DumpRecords
      /\ \A d \in late' : \/ d \in half \/ d.lines \subseteq dumps'
                          \/ \E u \in profiled : d.lines \subseteq perTest[u]
  <2>1. CASE started
    <3>1. baseline' = baseline /\ late' = late /\ dumps' = dumps  BY <2>1 DEF BeginTest
    <3>. QED  BY <1>u, <2>1, <3>1 DEF Unbegun, Settled, ProfShape
  <2>2. CASE ~started
    <3>1. baseline' = Hit(counts) \cup dumps /\ late' = half /\ dumps' = {}  BY <2>2 DEF BeginTest
    <3>. QED  BY <2>2, <3>1 DEF Loading, ProfShape, Hit, Points
  <2>. QED  BY <2>1, <2>2
<1>1. ProfShape'  BY <1>u, <1>b DEF ProfShape
<1>2. Loading'  BY <1>s DEF Loading
<1>3. Unbegun'  BY <1>u, <1>b DEF Unbegun
<1>4. Crediting'
  <2>1. \A l \in truth[t] \cap Points : l \in Credited' \/ l \in LateOf(t, late')
    BY <1>u, <1>b DEF Credited
  <2>2. \A l \in Known : before'[l] <= counts'[l]  BY <1>u DEF ProfShape
  <2>. QED  BY <1>u, <2>1, <2>2 DEF Crediting
<1>5. Entered'  BY <1>u DEF Entered
<1>6. Settled'
  <2>1. ASSUME NEW u \in profiled, NEW l \in truth[u] \cap Points
        PROVE  l \in perTest[u] \/ l \in LateOf(u, late')
    <3>1. started  BY <2>1 DEF Loading
    <3>2. late' = late  BY <3>1 DEF BeginTest
    <3>. QED  BY <2>1, <3>2 DEF Settled
  <2>. QED  BY <1>u, <1>b, <2>1 DEF Settled
<1>7. Asked' /\ NarrowKeepsWhatReaches'  BY <1>u DEF Asked, NarrowKeepsWhatReaches, NoPlan
<1>. QED  BY <1>1, <1>2, <1>3, <1>4, <1>5, <1>6, <1>7

\* The running test executes a line.
LEMMA ExecutesStep == ASSUME ProfInv, NEW l \in Lines, Executes(l) PROVE ProfInv'
<1> USE ProfileAssumption DEF ProfInv
<1>u. UNCHANGED <<current, before, dumps, half, late, baseline, started, perTest, profiled, plan>>
      /\ current \in ProfTests
  BY DEF Executes, dumpVars
<1>s. started  BY <1>u DEF Loading
<1>c. /\ counts' \in [Known -> Nat]
      /\ \A k \in Known : counts'[k] >= counts[k] /\ (k = l /\ l \in Points => counts'[k] > counts[k])
  <2>1. Counted(l)  BY DEF Executes
  <2>2. \A k \in Known : counts[k] \in Nat  BY DEF ProfShape
  <2>. QED  BY <2>1, <2>2, CountedRises
<1>t. /\ truth' \in [ProfTests -> SUBSET Lines] /\ truth'[current] = truth[current] \cup {l}
      /\ \A t \in ProfTests : t # current => truth'[t] = truth[t]
      /\ Entry \in truth'[current]
  BY DEF Executes, ProfShape
<1>1. ProfShape'  BY <1>u, <1>c, <1>t DEF ProfShape
<1>2. Loading'  BY <1>u, <1>s DEF Loading
<1>3. Unbegun'  BY <1>u, <1>t DEF Unbegun
<1>4. Crediting'
  <2>1. \A k \in Known : before[k] \in Nat /\ counts[k] \in Nat /\ counts'[k] \in Nat
    BY <1>c DEF ProfShape
  <2>2. \A k \in Known : before[k] <= counts[k] /\ before[k] <= counts'[k]
    BY <1>u, <1>c, <2>1 DEF Crediting
  <2>3. Credited \subseteq Credited'  BY <1>u, <1>c, <2>1 DEF Credited
  <2>4. l \in Points => l \in Credited'  BY <1>u, <1>c, <2>1, <2>2 DEF Credited, Points
  <2>5. ASSUME NEW k \in truth'[current] \cap Points
        PROVE  k \in Credited' \/ k \in LateOf(current, half) \/ k \in LateOf(current, late)
    <3>1. CASE k = l  BY <2>4, <2>5, <3>1
    <3>2. CASE k # l  BY <1>u, <1>t, <2>3, <2>5, <3>2 DEF Crediting
    <3>. QED  BY <3>1, <3>2
  <2>. QED  BY <1>u, <2>2, <2>5 DEF Crediting
<1>5. Entered'  BY <1>u, <1>t DEF Entered
<1>6. Settled'  BY <1>u, <1>t DEF Settled, Crediting, ProfShape
<1>7. Asked' /\ NarrowKeepsWhatReaches'  BY <1>u DEF Asked, NarrowKeepsWhatReaches
<1>. QED  BY <1>1, <1>2, <1>3, <1>4, <1>5, <1>6, <1>7

\* A program leaves a dump, whole or still being written.
LEMMA ProgramRunsStep == ASSUME ProfInv, NEW l \in Lines, ProgramRuns(l) PROVE ProfInv'
<1> USE ProfileAssumption DEF ProfInv
<1> DEFINE lines == {Entry, l} \cap Points
           new == [of |-> current, lines |-> lines]
<1>u. UNCHANGED <<current, counts, before, late, baseline, started, perTest, profiled, plan>>
      /\ (current \in ProfTests \/ ~started)
  BY DEF ProgramRuns
<1>r. \/ current \in ProfTests /\ started
      \/ current = "none" /\ ~started
  BY <1>u DEF Loading
<1>n. new \in DumpRecords /\ new.of = current /\ new.lines = lines  BY <1>r DEF DumpRecords
<1>d. /\ dumps' \subseteq Points /\ half' \subseteq DumpRecords /\ dumps \subseteq dumps' /\ half \subseteq half'
      /\ \A k \in lines : k \in dumps' \/ new \in half'
      /\ \A d \in half' : d \in half \/ d.of = current
  BY <1>n DEF ProgramRuns, ProfShape
<1>l. \A t : t = current \/ current = "none" => \A k \in lines : k \in dumps' \/ k \in LateOf(t, half')
  <2>1. SUFFICES ASSUME NEW t, t = current \/ current = "none", NEW k \in lines, k \notin dumps'
                 PROVE  k \in LateOf(t, half')
    OBVIOUS
  <2>2. new \in half' /\ new.of \in {t, "none"} /\ k \in new.lines  BY <1>d, <1>n, <2>1
  <2>. QED  BY <2>2, LateIs
<1>g. \A t : \A k \in LateOf(t, half) : k \in LateOf(t, half')  BY <1>d, LateGrows
<1>t. /\ truth' \in [ProfTests -> SUBSET Lines]
      /\ \A t \in ProfTests : truth'[t] = IF t = current \/ current = "none" THEN truth[t] \cup {Entry, l} ELSE truth[t]
  BY DEF ProgramRuns, ProfShape
<1>1. ProfShape'  BY <1>u, <1>d, <1>t DEF ProfShape
<1>2. Loading'
  <2>1. SUFFICES ASSUME ~started PROVE Loading'  BY <1>u DEF Loading
  <2>2. current = "none" /\ profiled = {} /\ late = {}  BY <2>1 DEF Loading
  <2>3. ASSUME NEW t \in ProfTests, NEW k \in truth'[t] \cap Points
        PROVE  k \in Hit(counts) \cup dumps' \/ k \in LateOf(t, half')
    <3>1. CASE k \in lines  BY <1>l, <2>2, <3>1
    <3>2. CASE k \notin lines
      <4>1. k \in truth[t] \cap Points  BY <1>t, <2>3, <3>2
      <4>. QED  BY <1>d, <1>g, <2>1, <4>1 DEF Loading
    <3>. QED  BY <3>1, <3>2
  <2>4. Hit(counts)' = Hit(counts)  BY <1>u DEF Hit
  <2>. QED  BY <1>u, <2>2, <2>3, <2>4 DEF Loading
<1>3. Unbegun'
  <2>1. SUFFICES ASSUME started PROVE Unbegun'  BY <1>u DEF Unbegun
  <2>2. current \in ProfTests /\ current # "none"  BY <1>r, <2>1
  <2>. QED  BY <1>u, <1>d, <1>t, <2>1, <2>2 DEF Unbegun
<1>4. Crediting'
  <2>1. SUFFICES ASSUME current \in ProfTests PROVE Crediting'  BY <1>u DEF Crediting
  <2>2. Credited \subseteq Credited' /\ dumps' \subseteq Credited'  BY <1>u, <1>d DEF Credited
  <2>3. ASSUME NEW k \in truth'[current] \cap Points
        PROVE  k \in Credited' \/ k \in LateOf(current, half') \/ k \in LateOf(current, late)
    <3>1. CASE k \in lines  BY <1>l, <2>2, <3>1
    <3>2. CASE k \notin lines
      <4>1. k \in truth[current] \cap Points  BY <1>t, <2>1, <2>3, <3>2
      <4>. QED  BY <1>g, <2>1, <2>2, <4>1 DEF Crediting
    <3>. QED  BY <3>1, <3>2
  <2>. QED  BY <1>u, <2>1, <2>3 DEF Crediting
<1>5. Entered'  BY <1>t DEF Entered
<1>6. Settled'
  <2>1. ASSUME NEW t \in profiled PROVE truth'[t] = truth[t]
    <3>1. t # current /\ current # "none"  BY <1>r, <2>1 DEF Crediting, Loading
    <3>. QED  BY <1>t, <2>1, <3>1 DEF ProfShape
  <2>. QED  BY <1>u, <1>d, <2>1 DEF Settled
<1>7. Asked' /\ NarrowKeepsWhatReaches'
  <2>1. plan.kind = "none"  BY <1>u, <1>r DEF Asked, Unbegun
  <2>. QED  BY <1>u, <2>1 DEF Asked, NarrowKeepsWhatReaches
<1>. QED  BY <1>1, <1>2, <1>3, <1>4, <1>5, <1>6, <1>7

\* A dump has been written.
LEMMA DumpStep == ASSUME ProfInv, NEW d \in half, DumpIsWhole(d) PROVE ProfInv'
<1> USE ProfileAssumption DEF ProfInv
<1>u. UNCHANGED <<current, counts, before, late, baseline, started, perTest, profiled, truth, plan>>
      /\ half' = half \ {d} /\ dumps' = dumps \cup d.lines
  BY DEF DumpIsWhole
<1>d. d.lines \subseteq Points  BY DEF ProfShape, DumpRecords
<1>l. \A t : \A k \in LateOf(t, half) : k \in LateOf(t, half') \/ k \in dumps'
  <2>1. SUFFICES ASSUME NEW t, NEW k \in LateOf(t, half), k \notin dumps' PROVE k \in LateOf(t, half')
    OBVIOUS
  <2>2. PICK e \in half : e.of \in {t, "none"} /\ k \in e.lines  BY <2>1, LateIs
  <2>3. e # d  BY <1>u, <2>1, <2>2
  <2>. QED  BY <1>u, <2>2, <2>3, LateIs
<1>1. ProfShape'  BY <1>u, <1>d DEF ProfShape
<1>2. Loading'
  <2>1. Hit(counts)' = Hit(counts) /\ dumps \subseteq dumps'  BY <1>u DEF Hit
  <2>. QED  BY <1>u, <1>l, <2>1 DEF Loading
<1>3. Unbegun'  BY <1>u DEF Unbegun
<1>4. Crediting'
  <2>1. Credited \subseteq Credited' /\ dumps' \subseteq Credited'  BY <1>u DEF Credited
  <2>. QED  BY <1>u, <1>l, <2>1 DEF Crediting
<1>5. Entered' /\ Asked'  BY <1>u DEF Entered, Asked
<1>6. Settled'
  <2>1. ASSUME NEW e \in late
        PROVE  \/ e \in half' \/ e.lines \subseteq dumps' \/ \E u \in profiled : e.lines \subseteq perTest[u]
    BY <1>u DEF Settled
  <2>. QED  BY <1>u, <2>1 DEF Settled
<1>7. NarrowKeepsWhatReaches'  BY <1>u DEF NarrowKeepsWhatReaches, Reaches, LateOf
<1>. QED  BY <1>1, <1>2, <1>3, <1>4, <1>5, <1>6, <1>7

\* A test ends and is credited; its dumps that are not whole are late.
LEMMA EndTestStep == ASSUME ProfInv, EndTest PROVE ProfInv'
<1> USE ProfileAssumption DEF ProfInv
<1>u. /\ UNCHANGED <<counts, before, half, baseline, started, truth, plan>>
      /\ current \in ProfTests /\ current' = "between" /\ dumps' = {}
      /\ late' = late \cup {d \in half : d.of = current}
      /\ perTest' = [perTest EXCEPT ![current] = Credited] /\ profiled' = profiled \cup {current}
  BY DEF EndTest
<1>s. started /\ current \notin profiled  BY <1>u DEF Loading, Crediting
<1>c. Credited \subseteq Known /\ dumps \subseteq Credited  BY DEF Credited, ProfShape, Points
<1>p. \A t \in ProfTests : perTest'[t] = IF t = current THEN Credited ELSE perTest[t]
  BY <1>u DEF ProfShape
<1>g. \A t : \A k \in LateOf(t, late) : k \in LateOf(t, late')  BY <1>u, LateGrows
<1>1. ProfShape'  BY <1>u, <1>c DEF ProfShape
<1>2. Loading' /\ Entered'  BY <1>u, <1>s DEF Loading, Entered
<1>3. Unbegun'  BY <1>u, <1>s, <1>g DEF Unbegun
<1>4. Crediting'  BY <1>u DEF Crediting
<1>5. Settled'
  <2>1. ASSUME NEW t \in profiled', NEW l \in truth[t] \cap Points
        PROVE  l \in perTest'[t] \/ l \in LateOf(t, late')
    <3>1. CASE t = current
      <4>1. ASSUME l \in LateOf(current, half) PROVE l \in LateOf(current, late')
        <5>1. PICK d \in half : d.of \in {current, "none"} /\ l \in d.lines  BY <4>1, LateIs
        <5>2. d \in late'  BY <1>u, <1>s, <5>1 DEF Unbegun
        <5>. QED  BY <5>1, <5>2, LateIs
      <4>. QED  BY <1>u, <1>p, <1>g, <2>1, <3>1, <4>1 DEF Crediting
    <3>2. CASE t # current
      <4>1. t \in profiled /\ t \in ProfTests  BY <1>u, <2>1, <3>2 DEF ProfShape
      <4>. QED  BY <1>p, <1>g, <2>1, <3>2, <4>1 DEF Settled
    <3>. QED  BY <3>1, <3>2
  <2>2. ASSUME NEW d \in late'
        PROVE  \/ d \in half \/ d.lines \subseteq {} \/ \E u \in profiled' : d.lines \subseteq perTest'[u]
    <3>1. CASE d \in late /\ d \notin half /\ d.lines \subseteq dumps  BY <1>u, <1>p, <1>c, <3>1
    <3>2. CASE d \in late /\ d \notin half /\ ~(d.lines \subseteq dumps)
      <4>1. PICK u \in profiled : d.lines \subseteq perTest[u]  BY <3>2 DEF Settled
      <4>2. u # current /\ u \in ProfTests  BY <1>s DEF ProfShape
      <4>. QED  BY <1>u, <1>p, <4>1, <4>2
    <3>. QED  BY <1>u, <3>1, <3>2
  <2>. QED  BY <1>u, <2>1, <2>2 DEF Settled
<1>6. Asked' /\ NarrowKeepsWhatReaches'
  <2>1. plan.kind = "none"  BY <1>u DEF Asked
  <2>. QED  BY <1>u, <2>1 DEF Asked, NarrowKeepsWhatReaches
<1>. QED  BY <1>1, <1>2, <1>3, <1>4, <1>5, <1>6

\* A mutant is asked about: a test left out reaches its span only by what does not count or came late.
LEMMA AskStep == ASSUME ProfInv, NEW span \in Spans, Ask(span) PROVE ProfInv'
<1> USE ProfileAssumption DEF ProfInv
<1>u. /\ UNCHANGED <<current, counts, before, dumps, half, late, baseline, started, perTest, profiled, truth>>
      /\ profiled = ProfTests /\ current = "between"
      /\ plan' = [kind |-> PlanFor(span), tests |-> Picked(span), span |-> span]
  BY DEF Ask, dumpVars
<1>1. ProfShape' /\ Loading' /\ Unbegun' /\ Settled' /\ Entered'
  BY <1>u DEF ProfShape, Loading, Unbegun, Settled, Entered, Hit
<1>2. Crediting'  BY <1>u DEF Crediting
<1>3. PlanFor(span) \in {"narrow", "widen", "unhit"}  BY DEF PlanFor
<1>4. Asked'  BY <1>u, <1>3 DEF Asked
<1>5. ASSUME NEW t \in ProfTests, NEW k \in truth[t] \cap span \cap Points
      PROVE  t \in Picked(span) \/ k \in LateOf(t, late)
  <2>1. k \in perTest[t] \/ k \in LateOf(t, late)  BY <1>u DEF Settled
  <2>. QED  BY <2>1 DEF Picked, Points
<1>6. plan'.kind = PlanFor(span) /\ plan'.tests = Picked(span) /\ plan'.span = span  BY <1>u
<1>7. ASSUME Entry \in span \cap Points, NEW t \in ProfTests, truth[t] \cap span # {}
      PROVE  t \in Picked(span) \/ Entry \in LateOf(t, late)
  <2>1. Entry \in truth[t]  BY <1>7 DEF Entered
  <2>. QED  BY <1>5, <1>7, <2>1
<1>8. PlanFor(span) = "unhit" => Picked(span) = {} /\ span \subseteq Known  BY DEF PlanFor
<1>9. ASSUME PlanFor(span) = "unhit", NEW t \in ProfTests, NEW k \in truth[t] \cap span
      PROVE  k \in Inlined \/ k \in LateOf(t, late)
  <2>1. k \in Points \/ k \in Inlined  BY <1>8, <1>9 DEF Points
  <2>. QED  BY <1>5, <1>8, <1>9, <2>1
<1>10. \A t \in ProfTests : Reaches(t)' <=> truth[t] \cap span # {}  BY <1>6, <1>u DEF Reaches
<1>11. NarrowKeepsWhatReaches'
  <2>0. \A t : LateOf(t, late)' = LateOf(t, late)  BY <1>u DEF LateOf
  <2>1. ASSUME plan'.kind = "narrow", Entry \in plan'.span \cap Points, NEW t \in ProfTests, Reaches(t)'
        PROVE  t \in plan'.tests \/ Entry \in LateOf(t, late)'
    BY <1>6, <1>7, <1>10, <2>0, <2>1
  <2>2. ASSUME plan'.kind = "unhit", NEW t \in ProfTests
        PROVE  truth'[t] \cap plan'.span \subseteq Inlined \cup LateOf(t, late)'
    BY <1>6, <1>9, <1>u, <2>0, <2>2
  <2>. QED  BY <2>1, <2>2 DEF NarrowKeepsWhatReaches
<1>. QED  BY <1>1, <1>2, <1>4, <1>11

\* For any tests, lines, points, folded lines and spans, and dumps written as late as they like: a
\* test is credited with every line it executed that counts and was dumped in time, a late dump goes
\* to a later test, and narrowing a mutant's tests by those credits leaves out no test that reaches
\* its span by them (wacProfile.ts, selectTests and planFor of profile.ts).
THEOREM CreditsStaySafe == ProfSpec => []CreditsAreSafe
<1>1. ProfInit => ProfInv
  <2>1. SUFFICES ASSUME ProfInit PROVE ProfInv  OBVIOUS
  <2>2. ~started  BY <2>1, Zenon DEF ProfInit
  <2>3. ProfShape /\ Entered /\ Settled /\ Asked /\ NarrowKeepsWhatReaches
    BY <2>1, ProfileAssumption
       DEF ProfInit, ProfShape, Entered, Settled, Asked, NarrowKeepsWhatReaches, NoPlan
  <2>4. Loading /\ Unbegun /\ Crediting
    BY <2>1, <2>2, ProfileAssumption DEF ProfInit, Loading, Unbegun, Crediting
  <2>. QED  BY <2>3, <2>4 DEF ProfInv
<1>2. ProfInv /\ [ProfNext]_profVars => ProfInv'
  <2>1. ASSUME ProfInv, UNCHANGED profVars PROVE ProfInv'
    BY <2>1 DEF profVars, ProfInv, ProfShape, Loading, Unbegun, Crediting, Entered, Asked,
                Settled, NarrowKeepsWhatReaches, Reaches, Credited, Hit
  <2>. QED  BY <2>1, LoadRunsStep, BeginTestStep, ExecutesStep, ProgramRunsStep, DumpStep, EndTestStep,
               AskStep DEF ProfNext
<1>3. ProfInv => CreditsAreSafe
  <2>1. SUFFICES ASSUME ProfInv PROVE CreditsAreSafe  OBVIOUS
  <2>2. ProfTypeOK  BY <2>1 DEF ProfInv, ProfShape, Asked, ProfTypeOK, Points
  <2>3. CreditIsWhole  BY <2>1 DEF ProfInv, Settled, CreditIsWhole
  <2>. QED  BY <2>1, <2>2, <2>3 DEF ProfInv, CreditsAreSafe
<1>. QED  BY <1>1, <1>2, <1>3, PTL DEF ProfSpec

-----------------------------------------------------------------------------
(* A mutation sweep (Sweep) *)

\* A sequence that lists a set of numbers in order.
Lists(s, S) == s \in [1 .. Cardinality(S) -> S] /\ \A i, j \in DOMAIN s : i < j => s[i] < s[j]

\* A set of numbers with an upper bound has a greatest.
LEMMA GreatestOne ==
    ASSUME NEW n \in Nat, NEW S \in SUBSET (1 .. n), S # {}
    PROVE  \E m \in S : \A x \in S : x <= m
<1> DEFINE B == {b \in Nat : \A x \in S : x <= b}
<1>1. n \in B  OBVIOUS
<1>2. PICK b \in B : \A c \in B : b <= c
  <2>1. B \in SUBSET Nat /\ B # {}  BY <1>1
  <2> HIDE DEF B
  <2>. QED  BY <2>1, LeastOne
<1>3. b \in S
  <2>1. SUFFICES ASSUME b \notin S PROVE FALSE  OBVIOUS
  <2>2. PICK x \in S : TRUE  OBVIOUS
  <2>3. x <= b /\ x >= 1 /\ b \in Nat  OBVIOUS
  <2>4. b - 1 \in Nat  BY <2>3
  <2>5. \A y \in S : y <= b - 1
    <3>1. ASSUME NEW y \in S PROVE y <= b - 1
      <4>1. y <= b /\ y # b /\ y \in Nat  BY <2>1
      <4>. QED  BY <4>1, <2>3
    <3>. QED  BY <3>1
  <2>6. b - 1 \in B  BY <2>4, <2>5
  <2>7. b <= b - 1  BY <1>2, <2>6
  <2>. QED  BY <2>3, <2>7
<1>. QED  BY <1>3

\* Every finite set of numbers can be listed in order.
LEMMA ListExists ==
    ASSUME NEW n \in Nat, NEW S \in SUBSET (1 .. n)
    PROVE  \E s : Lists(s, S)
<1> DEFINE P(c) == \A T \in SUBSET (1 .. n) : Cardinality(T) = c => \E s : Lists(s, T)
           N == {c \in Nat : P(c)}
<1>f. \A T \in SUBSET (1 .. n) : IsFiniteSet(T) /\ Cardinality(T) \in Nat
  <2>1. IsFiniteSet(1 .. n)  BY FS_Interval
  <2>. QED  BY <2>1, FS_Subset, FS_CardinalityType
<1>1. 0 \in N
  <2>1. ASSUME NEW T \in SUBSET (1 .. n), Cardinality(T) = 0 PROVE \E s : Lists(s, T)
    <3>1. T = {}  BY <1>f, <2>1, FS_EmptySet
    <3>2. [i \in 1 .. Cardinality(T) |-> i] \in [1 .. Cardinality(T) -> T]  BY <2>1
    <3>3. Lists([i \in 1 .. Cardinality(T) |-> i], T)  BY <3>2 DEF Lists
    <3>. QED  BY <3>3
  <2>. QED  BY <2>1
<1>2. ASSUME NEW c \in Nat, c \in N PROVE c + 1 \in N
  <2>1. ASSUME NEW T \in SUBSET (1 .. n), Cardinality(T) = c + 1 PROVE \E s : Lists(s, T)
    <3>1. T # {}
      <4>1. Cardinality({}) = 0  BY FS_EmptySet
      <4>2. c + 1 # 0  OBVIOUS
      <4> HIDE DEF N, P
      <4>. QED  BY <4>1, <4>2, <2>1
    <3>2. PICK m \in T : \A x \in T : x <= m  BY <3>1, GreatestOne
    <3>3. IsFiniteSet(T)  BY <1>f
    <3>4. Cardinality(T \ {m}) = c  BY <3>2, <3>3, <2>1, FS_RemoveElement
    <3>5. T \ {m} \in SUBSET (1 .. n)  OBVIOUS
    <3>6. PICK r : Lists(r, T \ {m})  BY <1>2, <3>4, <3>5
    <3>7. r \in [1 .. c -> T \ {m}] /\ \A i, j \in 1 .. c : i < j => r[i] < r[j]
      BY <3>4, <3>6 DEF Lists
    <3> DEFINE s == [i \in 1 .. c + 1 |-> IF i = c + 1 THEN m ELSE r[i]]
    <3>8. s \in [1 .. c + 1 -> T]
      <4>1. ASSUME NEW i \in 1 .. c + 1 PROVE (IF i = c + 1 THEN m ELSE r[i]) \in T
        <5>1. i = c + 1 \/ i \in 1 .. c  OBVIOUS
        <5>. QED  BY <5>1, <3>7
      <4>. QED  BY <4>1
    <3>9. ASSUME NEW i \in 1 .. c + 1, NEW j \in 1 .. c + 1, i < j PROVE s[i] < s[j]
      <4>1. i \in 1 .. c /\ s[i] = r[i]  BY <3>9
      <4>2. CASE j = c + 1
        <5>1. s[j] = m /\ r[i] \in T /\ r[i] # m  BY <4>1, <4>2, <3>7
        <5>2. r[i] <= m  BY <3>2, <5>1
        <5>3. r[i] \in 1 .. n /\ m \in 1 .. n
          <6> HIDE DEF N, P, s
          <6>. QED  BY <5>1
        <5>. QED  BY <4>1, <5>1, <5>2, <5>3
      <4>3. CASE j # c + 1
        <5>1. j \in 1 .. c /\ s[j] = r[j]  BY <4>3
        <5>. QED  BY <4>1, <5>1, <3>7, <3>9
      <4>. QED  BY <4>2, <4>3
    <3>10. Lists(s, T)
      <4>1. DOMAIN s = 1 .. c + 1  OBVIOUS
      <4> HIDE DEF s
      <4>. QED  BY <2>1, <3>8, <3>9, <4>1 DEF Lists
    <3>. QED  BY <3>10
  <2>. QED  BY <2>1
<1>3. Nat \subseteq N
  <2> HIDE DEF N
  <2>. QED  BY <1>1, <1>2, SetInduction
<1>4. Cardinality(S) \in N  BY <1>3, <1>f
<1>. QED  BY <1>4

\* A list that has each member once.
Whole1(s, S, c) ==
    /\ c \in Nat /\ s \in [1 .. c -> S]
    /\ \A i, j \in 1 .. c : s[i] = s[j] => i = j
    /\ \A x \in S : \E i \in 1 .. c : s[i] = x

\* A list in order has each member once.
LEMMA ListIsWhole ==
    ASSUME NEW n \in Nat, NEW S \in SUBSET (1 .. n), NEW s, Lists(s, S)
    PROVE  Whole1(s, S, Cardinality(S))
<1>f. IsFiniteSet(S) /\ Cardinality(S) \in Nat
  <2>1. IsFiniteSet(1 .. n)  BY FS_Interval
  <2>. QED  BY <2>1, FS_Subset, FS_CardinalityType
<1>1. s \in [1 .. Cardinality(S) -> S] /\ DOMAIN s = 1 .. Cardinality(S)  BY DEF Lists
<1>2. ASSUME NEW i \in 1 .. Cardinality(S), NEW j \in 1 .. Cardinality(S), s[i] = s[j] PROVE i = j
  <2>0. s[i] \in 1 .. n /\ s[j] \in 1 .. n
    <3>1. s[i] \in S /\ s[j] \in S  BY <1>1
    <3>. QED  BY <3>1
  <2>1. ~(i < j)
    <3>1. i < j => s[i] < s[j]  BY <1>1 DEF Lists
    <3>. QED  BY <2>0, <3>1, <1>2
  <2>2. ~(j < i)
    <3>1. j < i => s[j] < s[i]  BY <1>1 DEF Lists
    <3>. QED  BY <2>0, <3>1, <1>2
  <2>. QED  BY <2>1, <2>2, <1>f
<1>3. ASSUME NEW x \in S PROVE \E i \in 1 .. Cardinality(S) : s[i] = x
  <2>1. IsFiniteSet(1 .. Cardinality(S)) /\ Cardinality(1 .. Cardinality(S)) = Cardinality(S)
    <3>1. 1 \in Int /\ Cardinality(S) \in Int  BY <1>f
    <3>. QED  BY <3>1, <1>f, FS_Interval
  <2>2. s \in Injection(1 .. Cardinality(S), S)  BY <1>1, <1>2 DEF Injection, IsInjective
  <2>3. s \in Surjection(1 .. Cardinality(S), S)  BY <1>f, <2>1, <2>2, FS_Injection
  <2>. QED  BY <2>3 DEF Surjection
<1>. QED  BY <1>f, <1>1, <1>2, <1>3 DEF Whole1

-----------------------------------------------------------------------------
Workers2 == [at : {"yield", "write", "test", "restore", "done"}, index : Nat, todo : SUBSET Files,
             timedOut : BOOLEAN]
Entries2 == [index : Nat, killed : BOOLEAN, notCovered : BOOLEAN]
Early == {"start", "stage", "baseline", "trees"}
\* How many mutants are measured.
Many == Cardinality(Measured)

\* Every mutant has its verdict.
Judged == verdict = [i \in DOMAIN mutants |-> Triage(mutants, i)]
SweepShape ==
    /\ mutants \in Rosters /\ broken \in 0 .. 1
    /\ step \in Early \cup {"run", "finally", "report", "exited"} /\ exit \in {-1, 0, 1, 2, 130}
    /\ \E k \in 0 .. Jobs : trees \in [1 .. k -> [Files -> 0 .. Len(mutants)]]
    /\ \E k \in 0 .. Jobs : worker \in [1 .. k -> Workers2]
    /\ next \in Nat /\ results \in Seq(Entries2)
    /\ verdict = <<>> \/ Judged
\* How far the sweep is: before the workers begin there is nothing of theirs, and it is over
\* without an exception only when they are.
SweepStages ==
    /\ step \in Early => worker = <<>> /\ results = <<>> /\ next = 0
    /\ step \in {"stage", "baseline", "trees", "run", "finally", "report"} => Judged
    /\ step \in Early \cup {"run", "report"} => ~thrown
    /\ step \in {"run", "finally", "report"} /\ ~thrown => worker # <<>>
    /\ step \in {"finally", "report"} /\ ~thrown => \A w \in DOMAIN worker : worker[w].at = "done"
    /\ step # "exited" => exit = -1
\* A worker's mutant is one that was handed out.
Holds(x) == x.at \in {"write", "test"}
Handed ==
    /\ \A w \in DOMAIN worker :
         worker[w].at \in {"write", "test", "restore"} => worker[w].index \in 1 .. Many /\ worker[w].index <= next
    /\ \A i \in DOMAIN results : results[i].index \in 1 .. Many /\ results[i].index <= next
\* No two hold the same, and what has a result is held by nobody and has but one.
Apart ==
    /\ \A v, w \in DOMAIN worker :
         Holds(worker[v]) /\ Holds(worker[w]) /\ worker[v].index = worker[w].index => v = w
    /\ \A w \in DOMAIN worker : \A i \in DOMAIN results :
         Holds(worker[w]) => results[i].index # worker[w].index
    /\ \A i, j \in DOMAIN results : results[i].index = results[j].index => i = j
\* Nothing that was handed out is lost while no write fails.
InResults(k) == \E i \in DOMAIN results : results[i].index = k
InHand(k) == \E w \in DOMAIN worker : Holds(worker[w]) /\ worker[w].index = k
Covered ==
    ~thrown =>
      /\ \A k \in 1 .. Many : k <= next => InResults(k) \/ InHand(k)
      /\ \A w \in DOMAIN worker : worker[w].at = "done" => next > Many
\* What a worker's copy of the project holds.
TreeOf(x, t, m, i) ==
    /\ x.at = "yield" => \A f \in Files : t[f] = 0
    /\ x.at = "write" => x.todo \subseteq m.files
    /\ x.at = "write" => \A f \in Files : t[f] = IF f \in m.files /\ f \notin x.todo THEN i ELSE 0
    /\ x.at = "test" => \A f \in Files : t[f] = IF f \in m.files THEN i ELSE 0
    /\ x.at = "restore" => \A f \in Files : f \notin x.todo => t[f] = 0
Grown ==
    Running => \A w \in DOMAIN worker :
      w \in DOMAIN trees /\ TreeOf(worker[w], trees[w], Mutant(w), Measurable[worker[w].index])
\* Unless a timer fired on tests that would have ended, what is killed is what its tests notice.
Timed ==
    ~hurried =>
      /\ \A w \in DOMAIN worker :
           worker[w].timedOut => (worker[w].at # "write" /\ (worker[w].at = "test" => Mutant(w).fate = "hangs"))
      /\ \A i \in DOMAIN results : results[i].killed <=> Of(results[i]).fate # "passes"
SweepInv ==
    SweepShape /\ SweepStages /\ Handed /\ Apart /\ Covered /\ Grown /\ Timed /\ CleanExitTellsTruth

\* The list of what is measured has each of it once.
LEMMA MeasurableIs ==
    ASSUME SweepShape
    PROVE  /\ Many \in Nat /\ Measurable \in [1 .. Many -> Measured] /\ Len(Measurable) = Many
           /\ Measured \subseteq 1 .. Len(mutants)
           /\ Len(mutants) \in Nat /\ DOMAIN mutants = 1 .. Len(mutants) /\ Many <= Len(mutants)
           /\ \A i, j \in 1 .. Many : Measurable[i] = Measurable[j] => i = j
           /\ \A x \in Measured : \E i \in 1 .. Many : Measurable[i] = x
<1>1. Len(mutants) \in Nat /\ DOMAIN mutants = 1 .. Len(mutants)
  BY SweepAssumption DEF SweepShape
<1>2. Measured \in SUBSET (1 .. Len(mutants))  BY <1>1 DEF Measured, ToRun
<1>3. \E s : Lists(s, Measured)  BY <1>1, <1>2, ListExists
<1>4. Lists(Measurable, Measured)
  <2>1. \E s \in [1 .. Cardinality(Measured) -> Measured] : \A i, j \in DOMAIN s : i < j => s[i] < s[j]
    BY <1>3 DEF Lists
  <2>. QED  BY <2>1 DEF Lists, Measurable
<1>5. Many <= Len(mutants)
  <2>0. PICK n \in Nat : n = Len(mutants)  BY <1>1
  <2>1. IsFiniteSet(1 .. n) /\ Cardinality(1 .. n) = n
    <3>1. 1 \in Int /\ n \in Int  OBVIOUS
    <3>. QED  BY <3>1, FS_Interval
  <2>2. Measured \in SUBSET (1 .. n)  BY <1>2, <2>0
  <2>. QED  BY <2>0, <2>1, <2>2, FS_Subset DEF Many
<1>6. PICK n \in Nat : n = Len(mutants)  BY <1>1
<1>7. Measured \in SUBSET (1 .. n)  BY <1>2, <1>6
<1>8. /\ Many \in Nat /\ Measurable \in [1 .. Many -> Measured]
      /\ \A i, j \in 1 .. Many : Measurable[i] = Measurable[j] => i = j
      /\ \A x \in Measured : \E i \in 1 .. Many : Measurable[i] = x
  <2>1. Whole1(Measurable, Measured, Cardinality(Measured))  BY <1>4, <1>7, ListIsWhole
  <2>. QED  BY <2>1 DEF Whole1, Many
<1>9. Len(Measurable) = Many
  <2>1. Measurable \in Seq(Measured) /\ DOMAIN Measurable = 1 .. Many  BY <1>8, SeqDef
  <2>2. Len(Measurable) \in Nat /\ DOMAIN Measurable = 1 .. Len(Measurable)  BY <2>1, LenProperties
  <2>. QED  BY <1>8, <2>1, <2>2
<1>. QED  BY <1>1, <1>2, <1>5, <1>8, <1>9

\* What is measured is settled before the workers begin.
LEMMA MeasuredIsSettled ==
    ASSUME UNCHANGED <<mutants, verdict, red>>
    PROVE  Measured' = Measured /\ Measurable' = Measurable /\ Many' = Many
<1>1. Measured' = Measured  BY DEF Measured, ToRun
<1>2. Measurable' = Measurable
  <2>1. Measurable' = CHOOSE s \in [1 .. Cardinality(Measured') -> Measured'] :
                        \A i, j \in DOMAIN s : i < j => s[i] < s[j]
    BY DEF Measurable
  <2>. QED  BY <1>1, <2>1 DEF Measurable
<1>. QED  BY <1>1, <1>2 DEF Many

\* So are the verdicts.
LEMMA JudgedIsSettled == ASSUME UNCHANGED <<mutants, verdict>> PROVE Judged' <=> Judged
BY DEF Judged, Triage, Signature, Base

\* Both, of a result and of a worker.
LEMMA IndicesAreNumbers ==
    ASSUME SweepShape
    PROVE  /\ \A v \in DOMAIN worker : worker[v] \in Workers2 /\ worker[v].index \in Nat
           /\ \A i \in DOMAIN results : results[i] \in Entries2 /\ results[i].index \in Nat
<1>1. PICK k \in 0 .. Jobs : worker \in [1 .. k -> Workers2]  BY DEF SweepShape
<1>2. \A v \in DOMAIN worker : worker[v] \in Workers2  BY <1>1
<1>3. results \in Seq(Entries2)  BY DEF SweepShape
<1>4. \A i \in DOMAIN results : results[i] \in Entries2  BY <1>3
<1>. QED  BY <1>2, <1>4 DEF Workers2, Entries2

\* One worker is now x, and the others are what they were.
Moves(w, x) ==
    /\ x \in Workers2 /\ DOMAIN worker' = DOMAIN worker
    /\ \A v \in DOMAIN worker : worker'[v] = IF v = w THEN x ELSE worker[v]
\* What a worker's step leaves alone.
Onward ==
    /\ UNCHANGED <<mutants, broken, dryRun, verdict, red, exit>>
    /\ step' = step /\ thrown' = thrown /\ Running

\* The workers that are there are moved within their range.
LEMMA MoveShape ==
    ASSUME SweepShape, NEW w \in DOMAIN worker, NEW x \in Workers2, worker' = [worker EXCEPT ![w] = x]
    PROVE  Moves(w, x) /\ \E k \in 0 .. Jobs : worker' \in [1 .. k -> Workers2]
<1>1. PICK k \in 0 .. Jobs : worker \in [1 .. k -> Workers2]  BY DEF SweepShape
<1>2. worker' \in [1 .. k -> Workers2]  BY <1>1
<1>. QED  BY <1>1, <1>2 DEF Moves

\* A worker that moves means the sweep is under way: nothing is over, and nobody has exited.
LEMMA UnderWay ==
    ASSUME SweepInv, Onward, NEW w \in DOMAIN worker, worker[w].at # "done", DOMAIN worker' = DOMAIN worker
    PROVE  SweepStages' /\ CleanExitTellsTruth' /\ (step = "run" \/ (step = "finally" /\ thrown))
<1>1. step \in {"run", "finally"}  BY DEF Onward, Running
<1>2. step = "run" \/ (step = "finally" /\ thrown)  BY <1>1 DEF SweepInv, SweepStages
<1>3. worker # <<>> /\ worker' # <<>>  OBVIOUS
<1>4. exit' = -1  BY <1>1 DEF SweepInv, SweepStages, Onward
<1>j. Judged' <=> Judged  BY JudgedIsSettled DEF Onward
<1>5. SweepStages'
  BY <1>1, <1>2, <1>3, <1>4, <1>j DEF SweepInv, SweepStages, Onward, Early
<1>6. CleanExitTellsTruth'  BY <1>4 DEF CleanExitTellsTruth
<1>. QED  BY <1>2, <1>5, <1>6

\* The shapes a worker's step keeps.
LEMMA OnwardShape ==
    ASSUME SweepShape, Onward, \E k \in 0 .. Jobs : worker' \in [1 .. k -> Workers2],
           \E k \in 0 .. Jobs : trees' \in [1 .. k -> [Files -> 0 .. Len(mutants)]],
           next' \in Nat, results' \in Seq(Entries2)
    PROVE  SweepShape'
<1>1. Judged' <=> Judged  BY JudgedIsSettled DEF Onward
<1>. QED  BY <1>1 DEF SweepShape, Onward

\* The next mutant is taken, or there is none.
LEMMA TakeStep == ASSUME SweepInv, NEW w \in DOMAIN worker, Take(w) PROVE SweepInv'
<1>0. PICK k \in 0 .. Jobs : worker \in [1 .. k -> Workers2]  BY DEF SweepInv, SweepShape
<1>w. worker[w] \in Workers2 /\ worker[w].at = "yield"  BY <1>0 DEF Take
<1>o. Onward /\ trees' = trees /\ results' = results /\ next' = next + 1 /\ hurried' = hurried
  BY DEF Take, Onward, inputVars
<1>m. /\ Many \in Nat /\ Measurable \in [1 .. Many -> Measured] /\ Len(Measurable) = Many
      /\ Measured \subseteq DOMAIN mutants
  BY MeasurableIs DEF SweepInv
<1>s. Measured' = Measured /\ Measurable' = Measurable /\ Many' = Many /\ mutants' = mutants
  BY <1>o, MeasuredIsSettled DEF Onward
<1>n. next \in Nat  BY DEF SweepInv, SweepShape
<1>h. /\ \A v \in DOMAIN worker : worker[v].index \in Nat
      /\ \A i \in DOMAIN results : results[i].index \in Nat
  BY IndicesAreNumbers DEF SweepInv
<1>1. CASE next + 1 > Many
  <2> DEFINE x == [worker[w] EXCEPT !.at = "done"]
  <2>1. x \in Workers2 /\ x.at = "done"  BY <1>w DEF Workers2
  <2>2. worker' = [worker EXCEPT ![w] = x]  BY <1>1, <1>m DEF Take, Set
  <2> HIDE DEF x
  <2>3. Moves(w, x) /\ \E j \in 0 .. Jobs : worker' \in [1 .. j -> Workers2]
    BY <2>1, <2>2, MoveShape DEF SweepInv
  <2>4. SweepStages' /\ CleanExitTellsTruth'  BY <1>o, <1>w, <2>3, UnderWay DEF Moves
  <2>5. SweepShape'
    <3>1. next' \in Nat  BY <1>o, <1>n
    <3>. QED  BY <1>o, <2>3, <3>1, OnwardShape DEF SweepInv, SweepShape
  <2>6. Handed'
    <3>1. ASSUME NEW v \in DOMAIN worker, worker'[v].at \in {"write", "test", "restore"}
          PROVE  worker'[v].index \in 1 .. Many /\ worker'[v].index <= next'
      <4>1. v # w /\ worker'[v] = worker[v]  BY <2>1, <2>3, <3>1 DEF Moves
      <4>2. worker[v].index \in 1 .. Many /\ worker[v].index <= next
        BY <3>1, <4>1 DEF SweepInv, Handed
      <4>. QED  BY <1>h, <1>n, <1>o, <4>1, <4>2
    <3>2. \A i \in DOMAIN results : results[i].index \in 1 .. Many /\ results[i].index <= next'
      BY <1>h, <1>n, <1>o DEF SweepInv, Handed
    <3>. QED  BY <1>o, <1>s, <2>3, <3>1, <3>2 DEF Handed, Moves
  <2>7. Apart'  BY <1>o, <2>1, <2>3 DEF SweepInv, Apart, Moves, Holds
  <2>8. Covered'
    <3>1. SUFFICES ASSUME ~thrown PROVE Covered'  BY <1>o DEF Covered, Onward
    <3>2. \A j \in 1 .. Many : j <= next' => j <= next  BY <1>1, <1>o, <1>m, <1>n
    <3>3. \A j : InResults(j) => InResults(j)'  BY <1>o DEF InResults
    <3>4. \A j : InHand(j) => InHand(j)'  BY <1>w, <2>3 DEF InHand, Moves, Holds
    <3>5. next' > Many  BY <1>1, <1>o
    <3>. QED  BY <3>1, <3>2, <3>3, <3>4, <3>5, <1>s DEF SweepInv, Covered
  <2>9. Grown'  BY <1>o, <1>s, <2>1, <2>3 DEF SweepInv, Grown, Moves, TreeOf, Mutant, Running, Onward
  <2>10. Timed'
    BY <1>o, <1>s, <2>1, <2>3 DEF SweepInv, Timed, Moves, Mutant, Of, Onward
  <2>. QED  BY <2>4, <2>5, <2>6, <2>7, <2>8, <2>9, <2>10 DEF SweepInv
<1>2. CASE ~(next + 1 > Many)
  <2> DEFINE m == mutants[Measurable[next + 1]]
             x == [worker[w] EXCEPT !.at = "write", !.index = next + 1, !.timedOut = FALSE, !.todo = m.files]
  <2>0. next + 1 \in 1 .. Many /\ m.files \subseteq Files
    <3>1. next + 1 \in 1 .. Many  BY <1>2, <1>m, <1>n
    <3>2. Measurable[next + 1] \in DOMAIN mutants  BY <1>m, <3>1
    <3>. QED  BY <3>1, <3>2, SweepAssumption DEF SweepInv, SweepShape, Files
  <2>1. x \in Workers2 /\ x.at = "write" /\ x.index = next + 1 /\ ~x.timedOut /\ x.todo = m.files
    <3>1. x \in Workers2
      <4>1. PICK fs \in SUBSET Files : fs = m.files  BY <2>0
      <4>2. x = [worker[w] EXCEPT !.at = "write", !.index = next + 1, !.timedOut = FALSE, !.todo = fs]
        BY <4>1
      <4>3. next + 1 \in Nat  BY <1>n
      <4> HIDE DEF x, m
      <4>. QED  BY <1>w, <4>2, <4>3 DEF Workers2
    <3>2. x.at = "write" /\ x.index = next + 1 /\ x.todo = m.files  BY <1>w DEF Workers2
    <3>3. x.timedOut = FALSE  BY <1>w DEF Workers2
    <3>. QED  BY <3>1, <3>2, <3>3, Zenon
  <2>2. worker' = [worker EXCEPT ![w] = x]  BY <1>2, <1>m DEF Take, Set
  <2> HIDE DEF x
  <2>3. Moves(w, x) /\ \E j \in 0 .. Jobs : worker' \in [1 .. j -> Workers2]
    BY <2>1, <2>2, MoveShape DEF SweepInv
  <2>4. SweepStages' /\ CleanExitTellsTruth'  BY <1>o, <1>w, <2>3, UnderWay DEF Moves
  <2>5. SweepShape'
    <3>1. next' \in Nat  BY <1>o, <1>n
    <3>. QED  BY <1>o, <2>3, <3>1, OnwardShape DEF SweepInv, SweepShape
  <2>6. Handed'  BY <1>o, <1>n, <1>m, <1>s, <2>0, <2>1, <2>3, <1>h DEF SweepInv, Handed, Moves
  <2>7. Apart'
    <3>1. \A v \in DOMAIN worker : Holds(worker[v]) => worker[v].index # next + 1
      BY <1>n, <1>h DEF SweepInv, Handed, Holds
    <3>2. \A i \in DOMAIN results : results[i].index # next + 1  BY <1>n, <1>h DEF SweepInv, Handed
    <3>. QED  BY <1>o, <2>1, <2>3, <3>1, <3>2 DEF SweepInv, Apart, Moves
  <2>8. Covered'
    <3>1. SUFFICES ASSUME ~thrown PROVE Covered'  BY <1>o DEF Covered, Onward
    <3>0. PICK n \in Nat : n = next + 1  BY <1>n
    <3>2. \A j \in 1 .. Many : j <= next' => j <= next \/ j = n  BY <1>o, <1>m, <1>n, <3>0
    <3>3. \A j : InResults(j) => InResults(j)'  BY <1>o DEF InResults
    <3>4. \A j : InHand(j) => InHand(j)'  BY <1>w, <2>3 DEF InHand, Moves, Holds
    <3>5. InHand(n)'  BY <2>1, <2>3, <3>0 DEF InHand, Moves, Holds
    <3>6. \A j \in 1 .. Many : j <= next' => InResults(j)' \/ InHand(j)'
      <4>1. \A j \in 1 .. Many : j <= next => InResults(j) \/ InHand(j)  BY <3>1 DEF SweepInv, Covered
      <4>. QED  BY <3>2, <3>3, <3>4, <3>5, <4>1
    <3>7. \A v \in DOMAIN worker : worker'[v].at = "done" => next' > Many
      BY <3>1, <1>n, <1>m, <1>o, <2>1, <2>3 DEF SweepInv, Covered, Moves
    <3>. QED  BY <3>6, <3>7, <2>3, <1>s DEF Covered, Moves
  <2>9. Grown'
    <3>1. TreeOf(x, trees[w], m, Measurable[next + 1])
      BY <1>o, <1>w, <2>1 DEF SweepInv, Grown, TreeOf, Onward
    <3>. QED  BY <1>o, <1>s, <2>1, <2>3, <3>1 DEF SweepInv, Grown, Moves, Mutant, Running, Onward
  <2>10. Timed'
    BY <1>o, <1>s, <2>1, <2>3 DEF SweepInv, Timed, Moves, Mutant, Of, Onward
  <2>. QED  BY <2>4, <2>5, <2>6, <2>7, <2>8, <2>9, <2>10 DEF SweepInv
<1>. QED  BY <1>1, <1>2

\* What every step of a worker starts from.
LEMMA AtWork ==
    ASSUME SweepInv, NEW w \in DOMAIN worker,
           UNCHANGED <<mutants, verdict, red>>, worker[w].at \in {"write", "test", "restore"}
    PROVE  /\ worker[w] \in Workers2 /\ worker[w].index \in 1 .. Many /\ worker[w].index \in Nat
           /\ Measurable[worker[w].index] \in 1 .. Len(mutants) /\ Mutant(w).files \subseteq Files
           /\ Mutant(w).fate \in {"passes", "fails", "hangs"}
           /\ Measured' = Measured /\ Measurable' = Measurable /\ Many' = Many /\ Len(mutants) \in Nat
<1>m. /\ Many \in Nat /\ Measurable \in [1 .. Many -> Measured] /\ Measured \subseteq 1 .. Len(mutants)
      /\ Len(mutants) \in Nat /\ DOMAIN mutants = 1 .. Len(mutants)
  BY MeasurableIs DEF SweepInv
<1>1. worker[w] \in Workers2 /\ worker[w].index \in Nat  BY IndicesAreNumbers DEF SweepInv
<1>2. worker[w].index \in 1 .. Many  BY DEF SweepInv, Handed
<1>3. Measurable[worker[w].index] \in 1 .. Len(mutants)  BY <1>m, <1>2
<1>4. Mutant(w).files \subseteq Files /\ Mutant(w).fate \in {"passes", "fails", "hangs"}
  BY <1>m, <1>3, SweepAssumption DEF SweepInv, SweepShape, Mutant, Files
<1>. QED  BY <1>m, <1>1, <1>2, <1>3, <1>4, MeasuredIsSettled

\* A step that changes neither what its worker holds nor the results keeps the account of who has what.
LEMMA HoldsOn ==
    ASSUME SweepInv, Onward, NEW w \in DOMAIN worker, NEW x, Moves(w, x),
           x.index = worker[w].index, Holds(x) <=> Holds(worker[w]), x.at # "done",
           x.at \in {"write", "test", "restore"} => worker[w].at \in {"write", "test", "restore"},
           results' = results, next' = next
    PROVE  Handed' /\ Apart' /\ Covered'
<1>s. Measured' = Measured /\ Measurable' = Measurable /\ Many' = Many
  BY MeasuredIsSettled DEF Onward
<1>1. Handed'  BY <1>s DEF SweepInv, Handed, Moves
<1>2. Apart'  BY DEF SweepInv, Apart, Moves
<1>3. Covered'
  <2>1. SUFFICES ASSUME ~thrown PROVE Covered'  BY DEF Covered, Onward
  <2>2. \A j : InResults(j) => InResults(j)'  BY DEF InResults
  <2>3. \A j : InHand(j) => InHand(j)'  BY DEF InHand, Moves
  <2>4. \A j \in 1 .. Many : j <= next => InResults(j) \/ InHand(j)  BY <2>1 DEF SweepInv, Covered
  <2>5. \A v \in DOMAIN worker : worker'[v].at = "done" => next' > Many
    BY <2>1 DEF SweepInv, Covered, Moves
  <2>. QED  BY <1>s, <2>2, <2>3, <2>4, <2>5 DEF Covered, Moves
<1>. QED  BY <1>1, <1>2, <1>3

\* A file of the mutant is written.
LEMMA WriteFileStep == ASSUME SweepInv, NEW w \in DOMAIN worker, WriteFile(w) PROVE SweepInv'
<1>o. Onward /\ results' = results /\ next' = next /\ hurried' = hurried /\ worker[w].at = "write"
  BY DEF WriteFile, Onward, inputVars
<1>a. /\ worker[w] \in Workers2 /\ worker[w].index \in 1 .. Many /\ worker[w].index \in Nat
      /\ Measurable[worker[w].index] \in 1 .. Len(mutants)
      /\ Measured' = Measured /\ Measurable' = Measurable /\ Many' = Many /\ Len(mutants) \in Nat
  BY <1>o, AtWork DEF Onward
<1>1. PICK f \in worker[w].todo :
        /\ trees' = [trees EXCEPT ![w][f] = Measurable[worker[w].index]]
        /\ worker' = [worker EXCEPT ![w].todo = @ \ {f},
                        ![w].at = IF worker[w].todo = {f} THEN "test" ELSE "write"]
  BY DEF WriteFile
<1> DEFINE x == [worker[w] EXCEPT !.todo = @ \ {f}, !.at = IF worker[w].todo = {f} THEN "test" ELSE "write"]
<1>f. f \in Files  BY <1>a, <1>1 DEF Workers2
<1>2. /\ x \in Workers2 /\ x.at = (IF worker[w].todo = {f} THEN "test" ELSE "write")
      /\ x.index = worker[w].index /\ x.todo = worker[w].todo \ {f}
  BY <1>a DEF Workers2
<1>t. x.timedOut = worker[w].timedOut  BY <1>a DEF Workers2
<1>3. worker' = [worker EXCEPT ![w] = x]  BY <1>1
<1> HIDE DEF x
<1>4. Moves(w, x) /\ \E j \in 0 .. Jobs : worker' \in [1 .. j -> Workers2]
  BY <1>2, <1>3, MoveShape DEF SweepInv
<1>5. SweepStages' /\ CleanExitTellsTruth'  BY <1>o, <1>4, UnderWay DEF Moves
<1>6. Handed' /\ Apart' /\ Covered'
  <2>1. x.at \in {"write", "test"}  BY <1>2
  <2>. QED  BY <1>o, <1>2, <1>4, <2>1, HoldsOn DEF Holds
<1>7. PICK k \in 0 .. Jobs : trees \in [1 .. k -> [Files -> 0 .. Len(mutants)]]
  BY DEF SweepInv, SweepShape
<1>8. w \in DOMAIN trees /\ TreeOf(worker[w], trees[w], Mutant(w), Measurable[worker[w].index])
  BY <1>o DEF SweepInv, Grown, Onward
<1>i. PICK i \in 1 .. Len(mutants) : i = Measurable[worker[w].index]  BY <1>a
<1>9. /\ trees' \in [1 .. k -> [Files -> 0 .. Len(mutants)]]
      /\ \A g \in Files : trees'[w][g] = IF g = f THEN i ELSE trees[w][g]
      /\ \A v \in 1 .. k : v # w => trees'[v] = trees[v]
  <2>1. trees' = [trees EXCEPT ![w][f] = i]  BY <1>1, <1>i
  <2>2. i \in 0 .. Len(mutants) /\ w \in 1 .. k  BY <1>7, <1>8, <1>a
  <2>. QED  BY <1>7, <1>f, <2>1, <2>2
<1>10. SweepShape'
  <2>1. next' \in Nat /\ results' \in Seq(Entries2)  BY <1>o DEF SweepInv, SweepShape
  <2>. QED  BY <1>o, <1>4, <1>9, <2>1, OnwardShape DEF SweepInv
<1>11. Grown'
  <2>1. \A g \in Files : trees[w][g] = IF g \in Mutant(w).files /\ g \notin worker[w].todo THEN i ELSE 0
    BY <1>o, <1>8, <1>i DEF TreeOf
  <2>d. worker[w].todo \subseteq Mutant(w).files  BY <1>o, <1>8 DEF TreeOf
  <2>2. TreeOf(x, trees'[w], Mutant(w), i)  BY <1>2, <1>9, <2>1, <2>d DEF TreeOf
  <2>. QED
    BY <1>o, <1>a, <1>2, <1>4, <1>7, <1>9, <1>i, <2>2 DEF SweepInv, Grown, Moves, Mutant, Running, Onward
<1>12. Timed'
  <2>1. ~hurried => ~x.timedOut  BY <1>o, <1>t DEF SweepInv, Timed
  <2>. QED  BY <1>o, <1>a, <1>2, <1>4, <2>1 DEF SweepInv, Timed, Moves, Mutant, Of, Onward
<1>. QED  BY <1>5, <1>6, <1>10, <1>11, <1>12 DEF SweepInv

\* The deadline passes: only tests that would never end are not hurried by it.
LEMMA TimesOutStep == ASSUME SweepInv, NEW w \in DOMAIN worker, TimesOut(w) PROVE SweepInv'
<1>o. Onward /\ results' = results /\ next' = next /\ trees' = trees /\ worker[w].at = "test"
  BY DEF TimesOut, Deadline, Onward, inputVars
<1>a. /\ worker[w] \in Workers2 /\ worker[w].index \in 1 .. Many
      /\ Measured' = Measured /\ Measurable' = Measurable /\ Many' = Many
  BY <1>o, AtWork DEF Onward
<1> DEFINE x == [worker[w] EXCEPT !.timedOut = TRUE]
<1>2. x \in Workers2 /\ x.at = "test" /\ x.index = worker[w].index /\ x.todo = worker[w].todo
  BY <1>a, <1>o DEF Workers2
<1>3. worker' = [worker EXCEPT ![w] = x]  BY DEF TimesOut
<1> HIDE DEF x
<1>4. Moves(w, x) /\ \E j \in 0 .. Jobs : worker' \in [1 .. j -> Workers2]
  BY <1>2, <1>3, MoveShape DEF SweepInv
<1>5. SweepStages' /\ CleanExitTellsTruth'  BY <1>o, <1>4, UnderWay DEF Moves
<1>6. Handed' /\ Apart' /\ Covered'  BY <1>o, <1>2, <1>4, HoldsOn DEF Holds
<1>7. SweepShape'
  <2>1. next' \in Nat /\ results' \in Seq(Entries2)  BY <1>o DEF SweepInv, SweepShape
  <2>. QED  BY <1>o, <1>4, <2>1, OnwardShape DEF SweepInv, SweepShape
<1>8. Grown'
  <2>1. TreeOf(x, trees[w], Mutant(w), Measurable[worker[w].index])
    BY <1>o, <1>2 DEF SweepInv, Grown, TreeOf, Onward
  <2>. QED  BY <1>o, <1>a, <1>2, <1>4, <2>1 DEF SweepInv, Grown, Moves, Mutant, Running, Onward
<1>9. Timed'
  <2>1. ~hurried' => ~hurried /\ Mutant(w).fate = "hangs"  BY Zenon DEF TimesOut
  <2>. QED  BY <1>o, <1>a, <1>2, <1>4, <2>1 DEF SweepInv, Timed, Moves, Mutant, Of, Onward
<1>. QED  BY <1>5, <1>6, <1>7, <1>8, <1>9 DEF SweepInv

\* A file of the mutant is put back.
LEMMA RestoreStep == ASSUME SweepInv, NEW w \in DOMAIN worker, Restore(w) PROVE SweepInv'
<1>o. Onward /\ results' = results /\ next' = next /\ hurried' = hurried /\ worker[w].at = "restore"
  BY DEF Restore, Onward, inputVars
<1>a. /\ worker[w] \in Workers2 /\ worker[w].index \in 1 .. Many
      /\ Measured' = Measured /\ Measurable' = Measurable /\ Many' = Many /\ Len(mutants) \in Nat
  BY <1>o, AtWork DEF Onward
<1>1. PICK f \in worker[w].todo :
        /\ trees' = [trees EXCEPT ![w][f] = 0]
        /\ worker' = [worker EXCEPT ![w].todo = @ \ {f},
                        ![w].at = IF worker[w].todo = {f} THEN "yield" ELSE "restore"]
  BY DEF Restore
<1> DEFINE x == [worker[w] EXCEPT !.todo = @ \ {f}, !.at = IF worker[w].todo = {f} THEN "yield" ELSE "restore"]
<1>f. f \in Files  BY <1>a, <1>1 DEF Workers2
<1>2. /\ x \in Workers2 /\ x.at = (IF worker[w].todo = {f} THEN "yield" ELSE "restore")
      /\ x.index = worker[w].index /\ x.todo = worker[w].todo \ {f}
  BY <1>a DEF Workers2
<1>t. x.timedOut = worker[w].timedOut  BY <1>a DEF Workers2
<1>3. worker' = [worker EXCEPT ![w] = x]  BY <1>1
<1> HIDE DEF x
<1>4. Moves(w, x) /\ \E j \in 0 .. Jobs : worker' \in [1 .. j -> Workers2]
  BY <1>2, <1>3, MoveShape DEF SweepInv
<1>5. SweepStages' /\ CleanExitTellsTruth'  BY <1>o, <1>4, UnderWay DEF Moves
<1>6. Handed' /\ Apart' /\ Covered'
  <2>1. x.at \in {"yield", "restore"}  BY <1>2
  <2>. QED  BY <1>o, <1>2, <1>4, <2>1, HoldsOn DEF Holds
<1>7. PICK k \in 0 .. Jobs : trees \in [1 .. k -> [Files -> 0 .. Len(mutants)]]
  BY DEF SweepInv, SweepShape
<1>8. w \in DOMAIN trees /\ TreeOf(worker[w], trees[w], Mutant(w), Measurable[worker[w].index])
  BY <1>o DEF SweepInv, Grown, Onward
<1>9. /\ trees' \in [1 .. k -> [Files -> 0 .. Len(mutants)]]
      /\ \A g \in Files : trees'[w][g] = IF g = f THEN 0 ELSE trees[w][g]
      /\ \A v \in 1 .. k : v # w => trees'[v] = trees[v]
  <2>2. 0 \in 0 .. Len(mutants) /\ w \in 1 .. k  BY <1>7, <1>8, <1>a
  <2>. QED  BY <1>7, <1>f, <1>1, <2>2
<1>10. SweepShape'
  <2>1. next' \in Nat /\ results' \in Seq(Entries2)  BY <1>o DEF SweepInv, SweepShape
  <2>. QED  BY <1>o, <1>4, <1>9, <2>1, OnwardShape DEF SweepInv
<1>11. Grown'
  <2>1. \A g \in Files : g \notin worker[w].todo => trees[w][g] = 0  BY <1>o, <1>8 DEF TreeOf
  <2>2. TreeOf(x, trees'[w], Mutant(w), Measurable[worker[w].index])  BY <1>2, <1>9, <2>1 DEF TreeOf
  <2>. QED
    BY <1>o, <1>a, <1>2, <1>4, <1>7, <1>9, <2>2 DEF SweepInv, Grown, Moves, Mutant, Running, Onward
<1>12. Timed'
  <2>1. x.at # "write" /\ x.at # "test"  BY <1>2
  <2>. QED  BY <1>o, <1>a, <1>2, <1>4, <2>1 DEF SweepInv, Timed, Moves, Mutant, Of, Onward
<1>. QED  BY <1>5, <1>6, <1>10, <1>11, <1>12 DEF SweepInv

\* The tests end: what the worker held has its result.
LEMMA TestsEndStep == ASSUME SweepInv, NEW w \in DOMAIN worker, TestsEnd(w) PROVE SweepInv'
<1>o. Onward /\ next' = next /\ hurried' = hurried /\ trees' = trees /\ worker[w].at = "test"
  BY DEF TestsEnd, Onward, inputVars
<1>a. /\ worker[w] \in Workers2 /\ worker[w].index \in 1 .. Many /\ worker[w].index \in Nat
      /\ Mutant(w).files \subseteq Files /\ Mutant(w).fate \in {"passes", "fails", "hangs"}
      /\ Measured' = Measured /\ Measurable' = Measurable /\ Many' = Many
  BY <1>o, AtWork DEF Onward
<1> DEFINE x == [worker[w] EXCEPT !.at = "restore", !.todo = Mutant(w).files]
<1>2. x \in Workers2 /\ x.at = "restore" /\ x.index = worker[w].index
  <2>1. PICK fs \in SUBSET Files : fs = Mutant(w).files  BY <1>a
  <2>2. x = [worker[w] EXCEPT !.at = "restore", !.todo = fs]  BY <2>1
  <2> HIDE DEF x
  <2>. QED  BY <1>a, <2>2 DEF Workers2
<1>3. worker' = [worker EXCEPT ![w] = x]  BY DEF TestsEnd
<1>x. x.todo = Mutant(w).files  BY <1>a DEF Workers2
<1> HIDE DEF x
<1>4. Moves(w, x) /\ \E j \in 0 .. Jobs : worker' \in [1 .. j -> Workers2]
  BY <1>2, <1>3, MoveShape DEF SweepInv
<1>5. SweepStages' /\ CleanExitTellsTruth'  BY <1>o, <1>4, UnderWay DEF Moves
<1>r. PICK e \in Entries2 : e = Record1(w, Mutant(w))
  <2>1. Killed(w) \in BOOLEAN  BY Zenon DEF Killed
  <2>2. (Mutant(w).plan = "unhit" /\ ~Killed(w)) \in BOOLEAN  BY Zenon
  <2>. QED  BY <1>a, <2>1, <2>2 DEF Record1, Entries2
<1>e. e.index = worker[w].index /\ (e.killed <=> Killed(w))  BY <1>r DEF Record1
<1>q. results \in Seq(Entries2) /\ results' = Append(results, e)
  BY <1>r DEF SweepInv, SweepShape, TestsEnd
<1>n. /\ results' \in Seq(Entries2) /\ DOMAIN results = 1 .. Len(results) /\ Len(results) \in Nat
      /\ DOMAIN results' = 1 .. Len(results) + 1
      /\ \A i \in 1 .. Len(results) : results'[i] = results[i]
      /\ results'[Len(results) + 1] = e
  BY <1>q
<1>d. \A i \in DOMAIN results' : i \in DOMAIN results \/ i = Len(results) + 1  BY <1>n
<1>v. \A i \in DOMAIN results : i \in DOMAIN results' /\ results'[i] = results[i]  BY <1>n
<1>l. Len(results) + 1 \in DOMAIN results' /\ Len(results) + 1 \notin DOMAIN results  BY <1>n
<1>7. SweepShape'
  <2>1. next' \in Nat  BY <1>o DEF SweepInv, SweepShape
  <2>. QED  BY <1>o, <1>4, <1>n, <2>1, OnwardShape DEF SweepInv, SweepShape
<1>8. Handed'
  <2>1. \A v \in DOMAIN worker :
          worker'[v].at \in {"write", "test", "restore"} => worker'[v].index \in 1 .. Many /\ worker'[v].index <= next
    BY <1>o, <1>2, <1>4 DEF SweepInv, Handed, Moves
  <2>2. e.index \in 1 .. Many /\ e.index <= next  BY <1>e, <1>a, <1>o DEF SweepInv, Handed
  <2>3. \A i \in DOMAIN results' : results'[i].index \in 1 .. Many /\ results'[i].index <= next
    BY <1>d, <1>v, <1>n, <2>2 DEF SweepInv, Handed
  <2>. QED  BY <1>a, <1>o, <1>4, <2>1, <2>3 DEF Handed, Moves
<1>9. Apart'
  <2>1. \A v, u \in DOMAIN worker :
          Holds(worker'[v]) /\ Holds(worker'[u]) /\ worker'[v].index = worker'[u].index => v = u
    BY <1>2, <1>4 DEF SweepInv, Apart, Moves, Holds
  <2>2. \A v \in DOMAIN worker : Holds(worker'[v]) => v # w /\ worker'[v] = worker[v]
    BY <1>2, <1>4 DEF Moves, Holds
  <2>3. \A v \in DOMAIN worker : Holds(worker'[v]) => worker'[v].index # e.index
    BY <2>2, <1>e, <1>o DEF SweepInv, Apart, Holds
  <2>4. \A v \in DOMAIN worker : \A i \in DOMAIN results' :
          Holds(worker'[v]) => results'[i].index # worker'[v].index
    BY <2>2, <2>3, <1>d, <1>v, <1>n DEF SweepInv, Apart
  <2>5. \A i \in DOMAIN results : results[i].index # e.index  BY <1>e, <1>o DEF SweepInv, Apart, Holds
  <2>6. \A i, j \in DOMAIN results' : results'[i].index = results'[j].index => i = j
    BY <2>5, <1>d, <1>v, <1>n DEF SweepInv, Apart
  <2>. QED  BY <1>4, <2>1, <2>4, <2>6 DEF Apart, Moves
<1>10. Covered'
  <2>1. SUFFICES ASSUME ~thrown PROVE Covered'  BY <1>o DEF Covered, Onward
  <2>2. \A j : InResults(j) => InResults(j)'  BY <1>v DEF InResults
  <2>3. \A j : InHand(j) => InHand(j)' \/ j = e.index  BY <1>2, <1>4, <1>e DEF InHand, Moves
  <2>4. InResults(e.index)'  BY <1>l, <1>n DEF InResults
  <2>5. \A j \in 1 .. Many : j <= next => InResults(j) \/ InHand(j)  BY <2>1 DEF SweepInv, Covered
  <2>6. \A v \in DOMAIN worker : worker'[v].at = "done" => next' > Many
    BY <2>1, <1>o, <1>2, <1>4 DEF SweepInv, Covered, Moves
  <2>. QED  BY <1>a, <1>o, <1>4, <2>2, <2>3, <2>4, <2>5, <2>6 DEF Covered, Moves
<1>11. Grown'
  <2>1. \A g \in Files : trees[w][g] = IF g \in Mutant(w).files THEN Measurable[worker[w].index] ELSE 0
    BY <1>o DEF SweepInv, Grown, TreeOf, Onward
  <2>2. TreeOf(x, trees[w], Mutant(w), Measurable[worker[w].index])  BY <1>2, <1>x, <2>1 DEF TreeOf
  <2>. QED  BY <1>o, <1>a, <1>2, <1>4, <2>2 DEF SweepInv, Grown, Moves, Mutant, Running, Onward
<1>12. Timed'
  <2>1. SUFFICES ASSUME ~hurried PROVE Timed'  BY <1>o DEF Timed
  <2>2. e.killed <=> Mutant(w).fate # "passes"
    <3>1. worker[w].timedOut => Mutant(w).fate = "hangs"  BY <1>o, <2>1 DEF SweepInv, Timed
    <3>2. Mutant(w).fate = "hangs" => worker[w].timedOut  BY DEF TestsEnd
    <3>. QED  BY <1>e, <1>a, <3>1, <3>2 DEF Killed
  <2>3. Of(e)' = Mutant(w)  BY <1>e, <1>a, <1>o DEF Of, Mutant, Onward
  <2>4. \A i \in DOMAIN results' : results'[i].killed <=> (mutants[Measurable[results'[i].index]]).fate # "passes"
    BY <1>d, <1>v, <1>n, <1>e, <2>1, <2>2 DEF SweepInv, Timed, Of, Mutant
  <2>5. \A v \in DOMAIN worker : worker'[v].timedOut =>
          (worker'[v].at # "write" /\ (worker'[v].at = "test" => (mutants[Measurable[worker'[v].index]]).fate = "hangs"))
    BY <1>2, <1>4, <2>1 DEF SweepInv, Timed, Moves, Mutant
  <2>. QED  BY <1>o, <1>a, <1>4, <2>4, <2>5 DEF Timed, Moves, Mutant, Of, Onward
<1>. QED  BY <1>5, <1>7, <1>8, <1>9, <1>10, <1>11, <1>12 DEF SweepInv

\* A write fails and the run is over for its worker, and for the report.
LEMMA NotWrittenStep == ASSUME SweepInv, NEW w \in DOMAIN worker, MutantNotWritten(w) PROVE SweepInv'
<1>o. /\ UNCHANGED <<mutants, broken, dryRun, verdict, red, exit, trees, next, results, hurried>>
      /\ step = "run" /\ step' = "finally" /\ worker[w].at \in {"write", "restore"}
      /\ worker' = [worker EXCEPT ![w].at = "done"]
  BY DEF MutantNotWritten, inputVars, Set
<1>t. thrown'  BY Zenon DEF MutantNotWritten
<1>a. /\ worker[w] \in Workers2 /\ Measured' = Measured /\ Measurable' = Measurable /\ Many' = Many
  BY <1>o, AtWork
<1> DEFINE x == [worker[w] EXCEPT !.at = "done"]
<1>2. x \in Workers2 /\ x.at = "done"  BY <1>a DEF Workers2
<1>3. worker' = [worker EXCEPT ![w] = x]  BY <1>o
<1> HIDE DEF x
<1>4. Moves(w, x) /\ \E j \in 0 .. Jobs : worker' \in [1 .. j -> Workers2]
  BY <1>2, <1>3, MoveShape DEF SweepInv
<1>j. Judged' <=> Judged  BY <1>o, JudgedIsSettled
<1>5. SweepStages'  BY <1>o, <1>t, <1>j DEF SweepInv, SweepStages, Early
<1>6. CleanExitTellsTruth'
  <2>1. exit' = -1  BY <1>o DEF SweepInv, SweepStages
  <2>. QED  BY <2>1 DEF CleanExitTellsTruth
<1>7. SweepShape'  BY <1>o, <1>j, <1>4 DEF SweepInv, SweepShape
<1>8. Handed'  BY <1>o, <1>a, <1>2, <1>4 DEF SweepInv, Handed, Moves
<1>9. Apart'  BY <1>o, <1>2, <1>4 DEF SweepInv, Apart, Moves, Holds
<1>10. Covered'  BY <1>t DEF Covered
<1>11. Grown'
  <2>1. TreeOf(x, trees[w], Mutant(w), Measurable[worker[w].index])  BY <1>2 DEF TreeOf
  <2>2. Running' => Running  BY <1>o DEF Running
  <2>. QED  BY <1>o, <1>a, <1>2, <1>4, <2>2 DEF SweepInv, Grown, Moves, Mutant, TreeOf
<1>12. Timed'  BY <1>o, <1>a, <1>2, <1>4 DEF SweepInv, Timed, Moves, Mutant, Of
<1>. QED  BY <1>5, <1>6, <1>7, <1>8, <1>9, <1>10, <1>11, <1>12 DEF SweepInv

\* Where no worker has begun there is nothing to keep.
LEMMA NothingYet ==
    ASSUME worker' = <<>>, results' = <<>>, next' = 0
    PROVE  Handed' /\ Apart' /\ Covered' /\ Grown' /\ Timed'
<1>1. DOMAIN worker' = {} /\ DOMAIN results' = {}  OBVIOUS
<1>2. \A k \in 1 .. Many' : ~(k <= next')  OBVIOUS
<1>. QED  BY <1>1, <1>2 DEF Handed, Apart, Covered, Grown, Timed

\* A step of the sweep itself that leaves the workers' affairs alone keeps them.
LEMMA StandStill ==
    ASSUME SweepInv, UNCHANGED <<mutants, verdict, red, next, worker, results, hurried, thrown>>
    PROVE  Handed' /\ Apart' /\ Covered' /\ Timed' /\ (UNCHANGED trees /\ (Running' => Running) => Grown')
<1>s. Measured' = Measured /\ Measurable' = Measurable /\ Many' = Many  BY MeasuredIsSettled
<1>. QED
  BY <1>s DEF SweepInv, Handed, Apart, Covered, InResults, InHand, Timed, Grown, Mutant, Of

\* The mutants are compiled and judged.
LEMMA CompileStep == ASSUME SweepInv, Compile PROVE SweepInv'
<1>o. /\ UNCHANGED <<mutants, broken, dryRun, red, trees, next, worker, results, hurried, thrown>>
      /\ step = "start"
  BY DEF Compile, inputVars, runVars
<1>w. worker' = <<>> /\ results' = <<>> /\ next' = 0 /\ ~thrown /\ exit = -1
  BY <1>o DEF SweepInv, SweepStages, Early
<1>1. \/ step' = "exited" /\ exit' \in {1, 2} /\ verdict' = verdict
      \/ step' = "exited" /\ exit' = 0 /\ dryRun /\ Judged'
      \/ step' = "stage" /\ exit' = exit /\ Judged'
  <2>1. verdict' = verdict \/ Judged'  BY <1>o DEF Compile, Judged, Exits
  <2>2. CASE mutants = <<>>  BY <2>2 DEF Compile, Exits
  <2>3. CASE mutants # <<>> /\ Exits(1) /\ UNCHANGED verdict  BY <2>3 DEF Exits
  <2>4. CASE /\ mutants # <<>> /\ verdict' = [i \in DOMAIN mutants |-> Triage(mutants, i)]
             /\ IF dryRun THEN Exits(0) ELSE step' = "stage" /\ UNCHANGED exit
    BY <1>o, <2>4 DEF Exits, Judged
  <2>. QED  BY <2>2, <2>3, <2>4 DEF Compile
<1>2. Judged' <=> Judged \/ verdict' # verdict  BY <1>1, <1>o, JudgedIsSettled
<1>3. SweepShape'
  <2>1. verdict' = <<>> \/ Judged'
    <3>1. CASE verdict' = verdict  BY <3>1, <1>o, JudgedIsSettled DEF SweepInv, SweepShape
    <3>2. CASE verdict' # verdict  BY <3>2, <1>1
    <3>. QED  BY <3>1, <3>2
  <2>. QED  BY <1>o, <1>1, <2>1 DEF SweepInv, SweepShape, Early
<1>4. SweepStages'  BY <1>o, <1>w, <1>1 DEF SweepStages, Early
<1>5. CleanExitTellsTruth'  BY <1>o, <1>w, <1>1 DEF CleanExitTellsTruth
<1>6. Handed' /\ Apart' /\ Covered' /\ Grown' /\ Timed'  BY <1>w, NothingYet
<1>. QED  BY <1>3, <1>4, <1>5, <1>6 DEF SweepInv

\* The first copy is staged, and the tests run without any mutant.
LEMMA BeginStep == ASSUME SweepInv, StageFirst \/ Baseline PROVE SweepInv'
<1>o. /\ UNCHANGED <<mutants, broken, dryRun, verdict, next, worker, results, hurried>>
      /\ step \in {"stage", "baseline"}
  BY DEF StageFirst, Baseline, inputVars, runVars
<1>w. worker' = <<>> /\ results' = <<>> /\ next' = 0 /\ exit = -1 /\ Judged /\ ~thrown
  BY <1>o DEF SweepInv, SweepStages, Early
<1>j. Judged'  BY <1>o, <1>w, JudgedIsSettled
<1>1. \/ step' = "baseline" /\ exit' = exit /\ thrown' = thrown
      \/ step' = "finally" /\ exit' = exit /\ thrown'
      \/ step' = "exited" /\ exit' = 2 /\ thrown' = thrown
      \/ step' = "trees" /\ exit' = exit /\ thrown' = thrown
  <2>1. CASE StageFirst
    <3>1. step' = "finally" => thrown' \/ thrown' = thrown  BY <2>1, Zenon DEF StageFirst
    <3>2. \/ step' = "baseline" /\ thrown' = thrown
          \/ step' = "finally" /\ thrown'
      BY <2>1, Zenon DEF StageFirst
    <3>. QED  BY <2>1, <3>2 DEF StageFirst
  <2>2. CASE Baseline  BY <2>2 DEF Baseline, Exits
  <2>. QED  BY <2>1, <2>2
<1>2. \E k \in 0 .. Jobs : trees' \in [1 .. k -> [Files -> 0 .. Len(mutants)]]
  <2>1. CASE StageFirst
    <3>1. Len(mutants) \in Nat  BY MeasurableIs DEF SweepInv
    <3>2. None \in [Files -> 0 .. Len(mutants)]  BY <3>1 DEF None
    <3>3. trees' = <<None>>  BY <2>1 DEF StageFirst
    <3>4. trees' \in [1 .. 1 -> [Files -> 0 .. Len(mutants)]]  BY <3>2, <3>3
    <3>5. 1 \in 0 .. Jobs  BY SweepAssumption
    <3>. QED  BY <3>4, <3>5
  <2>2. CASE Baseline  BY <2>2 DEF Baseline, SweepInv, SweepShape
  <2>. QED  BY <2>1, <2>2
<1>3. SweepShape'  BY <1>o, <1>1, <1>2, <1>j DEF SweepInv, SweepShape, Early
<1>4. SweepStages'  BY <1>w, <1>1, <1>j DEF SweepStages, Early
<1>5. CleanExitTellsTruth'  BY <1>w, <1>1 DEF CleanExitTellsTruth
<1>6. Handed' /\ Apart' /\ Covered' /\ Grown' /\ Timed'  BY <1>w, NothingYet
<1>. QED  BY <1>3, <1>4, <1>5, <1>6 DEF SweepInv

\* Each job has its copy and its worker.
LEMMA StageRestStep == ASSUME SweepInv, StageRest PROVE SweepInv'
<1>o. /\ UNCHANGED <<mutants, broken, dryRun, verdict, red, next, results, hurried, thrown, exit>>
      /\ step = "trees" /\ step' = "run"
  BY DEF StageRest, inputVars
<1>w. results' = <<>> /\ next' = 0 /\ exit = -1 /\ Judged /\ ~thrown
  BY <1>o DEF SweepInv, SweepStages, Early
<1>j. Judged'  BY <1>o, <1>w, JudgedIsSettled
<1>1. PICK jobs \in {1, Jobs} :
        /\ trees' = [w \in 1 .. jobs |-> None]
        /\ worker' = [w \in 1 .. jobs |-> [at |-> "yield", index |-> 0, todo |-> {}, timedOut |-> FALSE]]
  BY DEF StageRest
<1>2. jobs \in 1 .. Jobs  BY SweepAssumption
<1>3. PICK x \in Workers2 : x = [at |-> "yield", index |-> 0, todo |-> {}, timedOut |-> FALSE]
  BY DEF Workers2
<1>4. x.at = "yield"  BY <1>3
<1>t. ~x.timedOut
  <2>1. x.timedOut = FALSE  BY <1>3
  <2>. QED  BY <2>1, Zenon
<1>5. worker' \in [1 .. jobs -> Workers2] /\ \A w \in 1 .. jobs : worker'[w] = x  BY <1>1, <1>3
<1>6. trees' \in [1 .. jobs -> [Files -> 0 .. Len(mutants)]]
  <2>1. Len(mutants) \in Nat  BY MeasurableIs DEF SweepInv
  <2>2. None \in [Files -> 0 .. Len(mutants)]  BY <2>1 DEF None
  <2>. QED  BY <1>1, <2>2
<1>7. SweepShape'  BY <1>o, <1>2, <1>5, <1>6, <1>j DEF SweepInv, SweepShape, Early
<1>8. SweepStages'
  <2>1. worker' # <<>>  BY <1>2, <1>5
  <2>. QED  BY <1>o, <1>w, <1>j, <2>1 DEF SweepStages, Early
<1>9. CleanExitTellsTruth'  BY <1>o, <1>w DEF CleanExitTellsTruth
<1>10. DOMAIN results' = {} /\ \A k \in 1 .. Many' : ~(k <= next')  BY <1>w
<1>11. Handed' /\ Apart' /\ Covered'
  BY <1>4, <1>5, <1>10 DEF Handed, Apart, Covered, Holds
<1>12. Timed'  BY <1>t, <1>5, <1>10 DEF Timed
<1>13. Grown'
  <2>1. \A w \in 1 .. jobs : \A f \in Files : trees'[w][f] = 0  BY <1>1 DEF None
  <2>2. \A w \in 1 .. jobs : TreeOf(x, trees'[w], Mutant(w)', Measurable'[worker'[w].index])
    BY <1>4, <2>1 DEF TreeOf
  <2>. QED  BY <1>5, <1>6, <2>2 DEF Grown
<1>. QED  BY <1>7, <1>8, <1>9, <1>11, <1>12, <1>13 DEF SweepInv

\* The workers are done, the copies go, or a signal comes.
LEMMA OverStep == ASSUME SweepInv, AllDone \/ Finally \/ Signal PROVE SweepInv'
<1>o. UNCHANGED <<mutants, broken, dryRun, verdict, red, next, worker, results, hurried, thrown>>
  BY DEF AllDone, Finally, Signal, inputVars, runVars
<1>j. Judged' <=> Judged  BY <1>o, JudgedIsSettled
<1>1. Handed' /\ Apart' /\ Covered' /\ Timed' /\ (UNCHANGED trees /\ (Running' => Running) => Grown')
  BY <1>o, StandStill
<1>2. Grown'
  <2>1. CASE AllDone
    <3>1. trees' = trees /\ (Running' => Running)  BY <2>1 DEF AllDone, Running
    <3>. QED  BY <1>1, <3>1
  <2>2. CASE Finally \/ Signal
    <3>1. ~Running'  BY <2>2 DEF Finally, Signal, Running, Exits
    <3>. QED  BY <3>1 DEF Grown
  <2>. QED  BY <2>1, <2>2
<1>3. SweepShape'
  <2>1. \E k \in 0 .. Jobs : trees' \in [1 .. k -> [Files -> 0 .. Len(mutants)]]
    <3>1. CASE Finally
      <4>1. trees' = <<>>  BY <3>1 DEF Finally
      <4>2. trees' \in [1 .. 0 -> [Files -> 0 .. Len(mutants)]]  BY <4>1
      <4>3. 0 \in 0 .. Jobs  BY SweepAssumption
      <4>. QED  BY <4>2, <4>3
    <3>2. CASE AllDone \/ Signal
      <4>1. trees' = trees  BY <3>2 DEF AllDone, Signal
      <4>. QED  BY <4>1 DEF SweepInv, SweepShape
    <3>. QED  BY <3>1, <3>2
  <2>2. step' \in {"finally", "report", "exited"} /\ exit' \in {-1, 0, 1, 2, 130}
    BY DEF AllDone, Finally, Signal, Exits, SweepInv, SweepShape
  <2>. QED  BY <1>o, <1>j, <2>1, <2>2 DEF SweepInv, SweepShape
<1>4. SweepStages'  BY <1>o, <1>j DEF SweepInv, SweepStages, AllDone, Finally, Signal, Exits, Early
<1>5. CleanExitTellsTruth'
  <2>1. exit' # 0  BY DEF AllDone, Finally, Signal, Exits, SweepInv, SweepStages
  <2>. QED  BY <2>1 DEF CleanExitTellsTruth
<1>. QED  BY <1>1, <1>2, <1>3, <1>4, <1>5 DEF SweepInv

\* Every mutant that is measured has a result when the report is made.
LEMMA AllReported ==
    ASSUME SweepInv, step = "report", NEW k \in 1 .. Many PROVE \E i \in DOMAIN results : results[i].index = k
<1>1. ~thrown /\ worker # <<>> /\ \A w \in DOMAIN worker : worker[w].at = "done"
  BY DEF SweepInv, SweepStages
<1>2. PICK w \in DOMAIN worker : TRUE
  <2>1. PICK n \in 0 .. Jobs : worker \in [1 .. n -> Workers2]  BY DEF SweepInv, SweepShape
  <2>2. n # 0
    <3>1. SUFFICES ASSUME n = 0 PROVE FALSE  OBVIOUS
    <3>2. DOMAIN worker = {} /\ worker = [i \in {} |-> 0]  BY <2>1, <3>1
    <3>. QED  BY <1>1, <3>2
  <2>3. 1 \in 1 .. n /\ DOMAIN worker = 1 .. n  BY <2>1, <2>2
  <2>. QED  BY <2>3
<1>3. next > Many  BY <1>1, <1>2 DEF SweepInv, Covered
<1>4. Many \in Nat /\ next \in Nat  BY MeasurableIs DEF SweepInv, SweepShape
<1>5. k <= next  BY <1>3, <1>4
<1>6. ~InHand(k)  BY <1>1 DEF InHand, Holds
<1>. QED  BY <1>1, <1>5, <1>6 DEF SweepInv, Covered, InResults

\* The packages whose tests could notice a mutant are its files' own and those that include one.
LEMMA TestDirsAre ==
    ASSUME NEW m
    PROVE  TestDirs(m) = {Owner[f] : f \in m.files}
                           \cup {Owner[e] : e \in {e \in Entries : Includes[e] \cap m.files # {}}}
BY DEF TestDirs, Dependents

\* A report that exits clean says what CleanExitTellsTruth says.
LEMMA ReportStep == ASSUME SweepInv, Report PROVE SweepInv'
<1>o. /\ UNCHANGED <<mutants, broken, dryRun, verdict, red, next, worker, results, hurried, thrown, trees>>
      /\ step = "report" /\ step' = "exited"
  BY DEF Report, Exits, inputVars, runVars
<1>j. Judged' <=> Judged  BY <1>o, JudgedIsSettled
<1>s. Measured' = Measured /\ Measurable' = Measurable /\ Many' = Many  BY <1>o, MeasuredIsSettled
<1>m. /\ Many \in Nat /\ Measurable \in [1 .. Many -> Measured]
      /\ \A x \in Measured : \E i \in 1 .. Many : Measurable[i] = x
  BY MeasurableIs DEF SweepInv
<1>1. Handed' /\ Apart' /\ Covered' /\ Timed'  BY <1>o, StandStill
<1>2. Grown'
  <2>1. ~Running'  BY <1>o DEF Running
  <2>. QED  BY <2>1 DEF Grown
<1>3. exit' \in {0, 1, 2}  BY DEF Report, Exits
<1>4. SweepShape'  BY <1>o, <1>j, <1>3 DEF SweepInv, SweepShape
<1>5. SweepStages'  BY <1>o DEF SweepStages, Early
<1>6. CleanExitTellsTruth'
  <2>1. SUFFICES ASSUME exit' = 0, ~hurried PROVE CleanExitTellsTruth'
    BY <1>o DEF CleanExitTellsTruth
  <2>2. ControlsVerdict = 0 /\ RealSurvivors = {} /\ ~(broken > 0)  BY <2>1 DEF Report, Exits
  <2>3. NotNoop = {} /\ \A r \in Controls : ~r.killed  BY <2>2 DEF ControlsVerdict
  <2>4. broken = 0  BY <2>2 DEF SweepInv, SweepShape
  <2>5. ASSUME NEW i \in ToRun, TestDirs(mutants[i]) \notin red
        PROVE  IF mutants[i].control
               THEN mutants[i].fate = "passes" /\ Signature(mutants[i]) = Base(mutants[i])
               ELSE mutants[i].excused \/ mutants[i].fate # "passes"
    <3>1. i \in Measured  BY <2>5 DEF Measured
    <3>2. PICK k \in 1 .. Many : Measurable[k] = i  BY <1>m, <3>1
    <3>3. PICK n \in DOMAIN results : results[n].index = k  BY <1>o, AllReported
    <3> DEFINE r == results[n]
    <3>4. r \in All /\ Of(r) = mutants[i]  BY <3>2, <3>3 DEF All, Of
    <3>5. r.killed <=> mutants[i].fate # "passes"  BY <2>1, <3>4 DEF SweepInv, Timed
    <3> HIDE DEF r
    <3>6. CASE mutants[i].control
      <4>1. r \in Controls  BY <3>4, <3>6 DEF Controls
      <4>2. Signature(mutants[i]) = Base(mutants[i])  BY <2>3, <3>4, <4>1 DEF NotNoop
      <4>. QED  BY <2>3, <3>5, <3>6, <4>1, <4>2
    <3>7. CASE ~mutants[i].control
      <4>1. r \in Real  BY <3>4, <3>7 DEF Controls, Real
      <4>2. r.killed \/ mutants[i].excused  BY <2>2, <3>4, <4>1 DEF RealSurvivors
      <4>. QED  BY <3>5, <3>7, <4>2
    <3>. QED  BY <3>6, <3>7
  <2>6. ToRun' = ToRun  BY <1>o DEF ToRun
  <2>. QED  BY <1>o, <2>4, <2>5, <2>6, TestDirsAre DEF CleanExitTellsTruth
<1>. QED  BY <1>1, <1>2, <1>4, <1>5, <1>6 DEF SweepInv

\* A mutant judged to run compiles, is not what was there, and is the first of its kind.
LEMMA RunIsFirst ==
    ASSUME SweepShape, Judged, NEW i \in DOMAIN mutants, verdict[i] = "run"
    PROVE  /\ \A f \in mutants[i].files : mutants[i].hash[f] # "none"
           /\ ~mutants[i].control =>
                /\ Signature(mutants[i]) # Base(mutants[i])
                /\ \A j \in 1 .. i - 1 :
                     ~mutants[j].control => Signature(mutants[j]) # Signature(mutants[i])
<1>1. Triage(mutants, i) = "run"  BY DEF Judged
<1>. QED  BY <1>1 DEF Triage

\* The score counts only what counts.
LEMMA HonestScore == ASSUME SweepInv PROVE ScoreIsHonest
<1>1. SUFFICES ASSUME step = "report", NEW r \in Real
      PROVE  /\ \E f \in Of(r).files : Of(r).hash[f] # "base"
             /\ \A f \in Of(r).files : Of(r).hash[f] # "none"
             /\ TestDirs(Of(r)) \notin red
             /\ \A q \in Real : Signature(Of(q)) = Signature(Of(r)) => q = r
  BY DEF ScoreIsHonest
<1>m. /\ Many \in Nat /\ Measurable \in [1 .. Many -> Measured]
      /\ Measured \subseteq 1 .. Len(mutants) /\ DOMAIN mutants = 1 .. Len(mutants) /\ Len(mutants) \in Nat
      /\ \A i, j \in 1 .. Many : Measurable[i] = Measurable[j] => i = j
  BY MeasurableIs DEF SweepInv
<1>j. Judged /\ SweepShape  BY <1>1 DEF SweepInv, SweepStages
<1>2. ASSUME NEW q \in Real
      PROVE  /\ ~Of(q).control /\ q.index \in 1 .. Many /\ Measurable[q.index] \in Measured
             /\ \E n \in DOMAIN results : q = results[n]
  <2>1. q \in All /\ ~Of(q).control  BY DEF Real, Controls
  <2>2. PICK n \in DOMAIN results : q = results[n]  BY <2>1 DEF All
  <2>3. q.index \in 1 .. Many  BY <2>2 DEF SweepInv, Handed
  <2>. QED  BY <1>m, <2>1, <2>2, <2>3
<1>3. ASSUME NEW q \in Real
      PROVE  /\ \A f \in Of(q).files : Of(q).hash[f] # "none"
             /\ Signature(Of(q)) # Base(Of(q)) /\ TestDirs(Of(q)) \notin red
             /\ \A i \in 1 .. Measurable[q.index] - 1 :
                  ~mutants[i].control => Signature(mutants[i]) # Signature(Of(q))
  <2>1. PICK i \in Measured : i = Measurable[q.index]  BY <1>2
  <2>2. Of(q) = mutants[i] /\ ~mutants[i].control  BY <1>2, <2>1 DEF Of
  <2>3. i \in DOMAIN mutants /\ verdict[i] = "run" /\ TestDirs(mutants[i]) \notin red
    BY DEF Measured, ToRun
  <2>. QED  BY <1>j, <2>1, <2>2, <2>3, RunIsFirst
<1>4. \E f \in Of(r).files : Of(r).hash[f] # "base"
  <2>1. SUFFICES ASSUME \A f \in Of(r).files : Of(r).hash[f] = "base" PROVE FALSE  OBVIOUS
  <2>2. Signature(Of(r)) = Base(Of(r))  BY <2>1 DEF Signature, Base
  <2>. QED  BY <1>3, <2>2
<1>5. ASSUME NEW q \in Real, Signature(Of(q)) = Signature(Of(r)) PROVE q = r
  <2>1. PICK i \in 1 .. Len(mutants) : i = Measurable[q.index]  BY <1>2, <1>m
  <2>2. PICK j \in 1 .. Len(mutants) : j = Measurable[r.index]  BY <1>2, <1>m
  <2>3. Of(q) = mutants[i] /\ Of(r) = mutants[j]  BY <2>1, <2>2 DEF Of
  <2>4. ~mutants[i].control /\ ~mutants[j].control  BY <1>2, <2>3
  <2>5. ~(i < j)
    <3>1. i < j => i \in 1 .. j - 1  BY <1>m
    <3>. QED  BY <1>3, <1>5, <2>2, <2>3, <2>4, <3>1
  <2>6. ~(j < i)
    <3>1. j < i => j \in 1 .. i - 1  BY <1>m
    <3>. QED  BY <1>3, <1>5, <2>1, <2>3, <2>4, <3>1
  <2>7. i = j  BY <1>m, <2>5, <2>6
  <2>8. q.index = r.index  BY <1>2, <1>m, <2>1, <2>2, <2>7
  <2>. QED  BY <1>2, <2>8 DEF SweepInv, Apart
<1>. QED  BY <1>3, <1>4, <1>5

\* What is set aside as a duplicate has an original: the first that compiles to the same.
LEMMA HasOriginal == ASSUME SweepInv PROVE DuplicateHasOriginal
<1>1. SUFFICES ASSUME NEW i \in DOMAIN verdict, verdict[i] = "duplicate"
      PROVE  \E j \in 1 .. i - 1 : /\ verdict[j] = "run" /\ ~mutants[j].control
                                   /\ Signature(mutants[j]) = Signature(mutants[i])
  BY DEF DuplicateHasOriginal
<1>2. Judged /\ DOMAIN verdict = DOMAIN mutants
  <2>1. verdict # <<>>  BY <1>1
  <2>. QED  BY <2>1 DEF SweepInv, SweepShape, Judged
<1>m. DOMAIN mutants = 1 .. Len(mutants) /\ Len(mutants) \in Nat  BY MeasurableIs DEF SweepInv
<1>3. Triage(mutants, i) = "duplicate"  BY <1>1, <1>2 DEF Judged
<1> DEFINE D == {j \in 1 .. i - 1 : ~mutants[j].control /\ Signature(mutants[j]) = Signature(mutants[i])}
<1>4. /\ ~(\E f \in mutants[i].files : mutants[i].hash[f] = "none")
      /\ Signature(mutants[i]) # Base(mutants[i]) /\ D # {}
  BY <1>3 DEF Triage
<1>5. PICK j \in D : \A k \in D : j <= k
  <2>1. D \in SUBSET Nat  OBVIOUS
  <2> HIDE DEF D
  <2>. QED  BY <1>4, <2>1, LeastOne
<1>6. j \in 1 .. i - 1 /\ ~mutants[j].control /\ Signature(mutants[j]) = Signature(mutants[i])
      /\ j \in DOMAIN mutants
  BY <1>m, <1>2, <1>1
<1>7. mutants[j].files = mutants[i].files /\ \A f \in mutants[i].files : mutants[j].hash[f] = mutants[i].hash[f]
  <2>1. Signature(mutants[j]) = Signature(mutants[i])  BY <1>6
  <2>2. /\ DOMAIN Signature(mutants[j]) = mutants[j].files /\ DOMAIN Signature(mutants[i]) = mutants[i].files
        /\ \A f \in mutants[j].files : Signature(mutants[j])[f] = mutants[j].hash[f]
        /\ \A f \in mutants[i].files : Signature(mutants[i])[f] = mutants[i].hash[f]
    BY DEF Signature
  <2>. QED  BY <2>1, <2>2
<1>8. Base(mutants[j]) = Base(mutants[i])  BY <1>7 DEF Base
<1>9. ~(\E k \in 1 .. j - 1 : ~mutants[k].control /\ Signature(mutants[k]) = Signature(mutants[j]))
  <2>1. SUFFICES ASSUME NEW k \in 1 .. j - 1, ~mutants[k].control,
                        Signature(mutants[k]) = Signature(mutants[j])
                 PROVE  FALSE
    OBVIOUS
  <2>2. i \in 1 .. Len(mutants)  BY <1>m, <1>2
  <2>3. k \in 1 .. i - 1 /\ k < j  BY <1>6, <2>2, <1>m
  <2>4. k \in D  BY <2>1, <2>3, <1>6
  <2>5. j <= k  BY <1>5, <2>4
  <2>. QED  BY <2>2, <2>3, <2>5, <1>6, <1>m
<1>10. Triage(mutants, j) = "run"  BY <1>4, <1>6, <1>7, <1>8, <1>9 DEF Triage
<1>. QED  BY <1>2, <1>6, <1>10 DEF Judged

\* The invariant is what SweepTellsTheTruth says.
LEMMA SweepSaysSo == ASSUME SweepInv PROVE SweepTellsTheTruth
<1>m. /\ Many \in Nat /\ Measurable \in [1 .. Many -> Measured] /\ Many <= Len(mutants)
      /\ DOMAIN mutants = 1 .. Len(mutants) /\ Len(mutants) \in Nat
  BY MeasurableIs DEF SweepInv
<1>1. SweepTypeOK
  <2>1. ASSUME NEW k \in 0 .. Jobs, NEW S, NEW t \in [1 .. k -> S] PROVE Len(t) <= Jobs
    <3>1. t \in Seq(S) /\ DOMAIN t = 1 .. k  BY SeqDef
    <3>2. Len(t) \in Nat /\ DOMAIN t = 1 .. Len(t)  BY <3>1, LenProperties
    <3>3. Len(t) = k  BY <3>1, <3>2
    <3>. QED  BY <3>3, SweepAssumption
  <2>2. Len(trees) <= Jobs
    <3>1. PICK k \in 0 .. Jobs : trees \in [1 .. k -> [Files -> 0 .. Len(mutants)]]
      BY DEF SweepInv, SweepShape
    <3>. QED  BY <2>1, <3>1
  <2>3. Len(worker) <= Jobs
    <3>1. PICK k \in 0 .. Jobs : worker \in [1 .. k -> Workers2]  BY DEF SweepInv, SweepShape
    <3>. QED  BY <2>1, <3>1
  <2>4. \A r \in All : r.index \in DOMAIN mutants
    <3>1. ASSUME NEW i \in DOMAIN results PROVE results[i].index \in DOMAIN mutants
      <4>1. results[i].index \in 1 .. Many  BY DEF SweepInv, Handed
      <4>. QED  BY <1>m, <4>1
    <3>. QED  BY <3>1 DEF All
  <2>5. \A w \in DOMAIN trees : trees[w] \in [Files -> 0 .. Len(mutants)]
    BY DEF SweepInv, SweepShape
  <2>. QED  BY <2>2, <2>3, <2>4, <2>5 DEF SweepTypeOK, SweepInv, SweepShape, Early
<1>2. TreeHoldsItsMutant  BY DEF TreeHoldsItsMutant, SweepInv, Grown, TreeOf
<1>3. EveryMutantOnce
  <2>1. ASSUME step = "report" PROVE {r.index : r \in All} = DOMAIN Measurable
    <3>1. DOMAIN Measurable = 1 .. Many  BY <1>m
    <3>2. ASSUME NEW r \in All PROVE r.index \in 1 .. Many  BY DEF All, SweepInv, Handed
    <3>3. ASSUME NEW k \in 1 .. Many PROVE \E r \in All : r.index = k
      <4>1. PICK i \in DOMAIN results : results[i].index = k  BY <2>1, AllReported
      <4>. QED  BY <4>1 DEF All
    <3>. QED  BY <3>1, <3>2, <3>3
  <2>. QED  BY <2>1 DEF EveryMutantOnce, SweepInv, Apart
<1>. QED  BY <1>1, <1>2, <1>3, HonestScore, HasOriginal DEF SweepTellsTheTruth, SweepInv

\* A sweep begins with nothing done.
LEMMA SweepStart == ASSUME SweepInit PROVE SweepInv
<1>1. worker = <<>> /\ results = <<>> /\ next = 0 /\ trees = <<>> /\ step = "start" /\ exit = -1
      /\ verdict = <<>>
  BY DEF SweepInit
<1>2. ~thrown  BY Zenon DEF SweepInit
<1>3. DOMAIN worker = {} /\ DOMAIN results = {} /\ \A k \in 1 .. Many : ~(k <= next)  BY <1>1
<1>4. SweepShape
  <2>1. 0 \in 0 .. Jobs  BY SweepAssumption
  <2>2. trees \in [1 .. 0 -> [Files -> 0 .. Len(mutants)]] /\ worker \in [1 .. 0 -> Workers2]
    BY <1>1
  <2>3. results \in Seq(Entries2)  BY <1>1
  <2>. QED  BY <1>1, <2>1, <2>2, <2>3 DEF SweepInit, SweepShape, Early
<1>5. SweepStages  BY <1>1, <1>2 DEF SweepStages
<1>6. Handed /\ Apart /\ Covered /\ Grown /\ Timed  BY <1>3 DEF Handed, Apart, Covered, Grown, Timed
<1>7. CleanExitTellsTruth  BY <1>1 DEF CleanExitTellsTruth
<1>. QED  BY <1>4, <1>5, <1>6, <1>7 DEF SweepInv

\* A sweep over any mutants, files, packages and jobs tells the truth: each measurable mutant runs
\* once and alone in its tree, the score counts only what counts, a duplicate has an original that is
\* scored, and a clean exit means that no control was killed and no mutant survived unexcused
\* (mutate.ts: triage, the workers' loop, the report).
THEOREM SweepStaysTrue == SweepSpec => []SweepTellsTheTruth
<1>1. SweepInit => SweepInv  BY SweepStart
<1>2. SweepInv /\ [SweepNext]_sweepVars => SweepInv'
  <2>1. ASSUME SweepInv, UNCHANGED sweepVars PROVE SweepInv'
    <3>1. UNCHANGED <<mutants, broken, dryRun, verdict, red, next, worker, results, hurried, thrown, trees, step, exit>>
      BY <2>1 DEF sweepVars
    <3>2. Handed' /\ Apart' /\ Covered' /\ Timed' /\ Grown'
      BY <2>1, <3>1, StandStill DEF Running
    <3>j. Judged' <=> Judged  BY <3>1, JudgedIsSettled
    <3>3. SweepShape' /\ SweepStages'  BY <2>1, <3>1, <3>j DEF SweepInv, SweepShape, SweepStages
    <3>4. CleanExitTellsTruth'  BY <2>1, <3>1 DEF SweepInv, CleanExitTellsTruth, ToRun, Signature, Base
    <3>. QED  BY <3>2, <3>3, <3>4 DEF SweepInv
  <2>. QED
    BY <2>1, TakeStep, WriteFileStep, TestsEndStep, RestoreStep, NotWrittenStep, TimesOutStep, CompileStep,
       BeginStep, StageRestStep, OverStep, ReportStep
    DEF SweepNext, WorkerStep
<1>3. SweepInv => SweepTellsTheTruth  BY SweepSaysSo
<1>. QED  BY <1>1, <1>2, <1>3, PTL DEF SweepSpec

-----------------------------------------------------------------------------
(* Attribution *)

\* s lists the set S, each member once, by what c says they cost.
ByCosts(s, S, c) ==
    /\ s \in [1 .. Cardinality(S) -> S] /\ IsInjective(s)
    /\ \A i, j \in 1 .. Cardinality(S) : i < j => c[s[i]] <= c[s[j]]

\* A list of as many as there are, without repetition, has them all.
LEMMA ListHasAll ==
    ASSUME NEW S, IsFiniteSet(S), NEW s \in [1 .. Cardinality(S) -> S], IsInjective(s)
    PROVE  Range(s) = S /\ Cardinality(S) \in Nat
<1>1. Cardinality(S) \in Nat  BY FS_CardinalityType
<1>2. IsFiniteSet(1 .. Cardinality(S)) /\ Cardinality(1 .. Cardinality(S)) = Cardinality(S)
  <2>1. 1 \in Int /\ Cardinality(S) \in Int  BY <1>1
  <2>. QED  BY <2>1, <1>1, FS_Interval
<1>3. s \in Injection(1 .. Cardinality(S), S)  BY DEF Injection, IsInjective
<1>4. s \in Surjection(1 .. Cardinality(S), S)  BY <1>2, <1>3, FS_Injection
<1>5. \A x \in S : \E i \in 1 .. Cardinality(S) : s[i] = x  BY <1>4 DEF Surjection
<1>. QED  BY <1>1, <1>5 DEF Range

\* The sets of n members that can be listed by cost.
Listable(S, c) == {n \in Nat : \A T \in SUBSET S : Cardinality(T) = n => \E s : ByCosts(s, T, c)}
\* One more can be listed: the cheapest goes first.
LEMMA OneMoreListed ==
    ASSUME NEW S, IsFiniteSet(S), NEW c, \A x \in S : c[x] \in Nat,
           NEW n \in Nat, n \in Listable(S, c), NEW T \in SUBSET S, Cardinality(T) = n + 1
    PROVE  \E s : ByCosts(s, T, c)
<1>1. IsFiniteSet(T)  BY FS_Subset
<1>2. T # {}
  <2>1. Cardinality({}) = 0  BY FS_EmptySet
  <2>. QED  BY <2>1
<1>3. PICK x \in T : \A y \in T : c[x] <= c[y]
  <2> DEFINE C == {c[y] : y \in T}
  <2>1. C \in SUBSET Nat /\ C # {}  BY <1>2
  <2>2. PICK m \in C : \A k \in C : m <= k  BY <2>1, LeastOne
  <2>. QED  BY <2>2
<1>4. PICK R \in SUBSET S : R = T \ {x}  OBVIOUS
<1>5. Cardinality(R) = n
  <2>1. Cardinality(T \ {x}) = Cardinality(T) - 1  BY <1>1, FS_RemoveElement
  <2>. QED  BY <1>4, <2>1
<1>6. PICK s : ByCosts(s, R, c)  BY <1>5 DEF Listable
<1>7. /\ s \in [1 .. n -> R] /\ \A i, j \in 1 .. n : s[i] = s[j] => i = j
      /\ \A i, j \in 1 .. n : i < j => c[s[i]] <= c[s[j]]
  BY <1>5, <1>6 DEF ByCosts, IsInjective
<1>8. PICK z : z = [i \in 1 .. n + 1 |-> IF i = 1 THEN x ELSE s[i - 1]]  OBVIOUS
<1>9. \A i \in 1 .. n + 1 : i = 1 \/ i - 1 \in 1 .. n  OBVIOUS
<1>10. \A i \in 1 .. n + 1 : z[i] = (IF i = 1 THEN x ELSE s[i - 1]) /\ z[i] \in T
  BY <1>4, <1>7, <1>8, <1>9
<1>11. ASSUME NEW i \in 1 .. n + 1, NEW j \in 1 .. n + 1, z[i] = z[j] PROVE i = j
  <2>1. CASE i = 1 /\ j = 1  BY <2>1
  <2>2. CASE i = 1 /\ j # 1
    <3>1. z[i] = x /\ z[j] \in R  BY <1>7, <1>9, <1>10, <2>2
    <3>. QED  BY <1>4, <1>11, <3>1
  <2>3. CASE i # 1 /\ j = 1
    <3>1. z[j] = x /\ z[i] \in R  BY <1>7, <1>9, <1>10, <2>3
    <3>. QED  BY <1>4, <1>11, <3>1
  <2>4. CASE i # 1 /\ j # 1
    <3>1. PICK a \in 1 .. n, b \in 1 .. n : a = i - 1 /\ b = j - 1  BY <1>9, <2>4
    <3>2. s[a] = s[b]  BY <1>10, <1>11, <2>4, <3>1
    <3>. QED  BY <1>7, <3>1, <3>2
  <2>. QED  BY <2>1, <2>2, <2>3, <2>4
<1>12. ASSUME NEW i \in 1 .. n + 1, NEW j \in 1 .. n + 1, i < j PROVE c[z[i]] <= c[z[j]]
  <2>1. CASE i = 1  BY <1>3, <1>10, <2>1
  <2>2. CASE i # 1
    <3>1. PICK a \in 1 .. n, b \in 1 .. n : a = i - 1 /\ b = j - 1 /\ a < b  BY <1>9, <1>12, <2>2
    <3>2. z[i] = s[a] /\ z[j] = s[b]  BY <1>10, <1>12, <2>2, <3>1
    <3>. QED  BY <1>7, <3>1, <3>2
  <2>. QED  BY <2>1, <2>2
<1>13. z \in [1 .. n + 1 -> T] /\ DOMAIN z = 1 .. n + 1  BY <1>8, <1>10
<1>14. IsInjective(z)  BY <1>11, <1>13 DEF IsInjective
<1>. QED  BY <1>12, <1>13, <1>14 DEF ByCosts

\* Files can be put in order of what they cost, however many there are.
LEMMA OrderExists ==
    ASSUME NEW S, IsFiniteSet(S), NEW c, \A x \in S : c[x] \in Nat
    PROVE  \E s : ByCosts(s, S, c)
<1>1. 0 \in Listable(S, c)
  <2>1. ASSUME NEW T \in SUBSET S, Cardinality(T) = 0 PROVE \E s : ByCosts(s, T, c)
    <3>1. 1 .. Cardinality(T) = {}  BY <2>1
    <3>2. PICK s : s = [i \in {} |-> i]  OBVIOUS
    <3>3. s \in [1 .. Cardinality(T) -> T] /\ DOMAIN s = {}  BY <3>1, <3>2
    <3>4. IsInjective(s)  BY <3>3 DEF IsInjective
    <3>. QED  BY <3>1, <3>3, <3>4 DEF ByCosts
  <2>. QED  BY <2>1 DEF Listable
<1>2. ASSUME NEW n \in Nat, n \in Listable(S, c) PROVE n + 1 \in Listable(S, c)
  <2>1. \A T \in SUBSET S : Cardinality(T) = n + 1 => \E s : ByCosts(s, T, c)  BY <1>2, OneMoreListed
  <2>. QED  BY <2>1 DEF Listable
<1>3. Nat \subseteq Listable(S, c)  BY <1>1, <1>2, SetInduction
<1>4. Cardinality(S) \in Listable(S, c)  BY <1>3, FS_CardinalityType
<1>. QED  BY <1>4 DEF Listable

\* byCost lists what it is given, cheapest first, when all of it was measured.
LEMMA ByCostLists ==
    ASSUME NEW S, IsFiniteSet(S), S \subseteq DOMAIN costOf, \A f \in S : costOf[f] \in Nat
    PROVE  /\ IsInjective(ByCost(S)) /\ Range(ByCost(S)) = S
           /\ \A i, j \in DOMAIN ByCost(S) : i < j => costOf[ByCost(S)[i]] <= costOf[ByCost(S)[j]]
<1> DEFINE P(s) == IsInjective(s) /\ \A i, j \in DOMAIN s : i < j => ~Before(s[j], s[i])
           N == 1 .. Cardinality(S)
<1>1. ASSUME NEW s \in [N -> S], NEW i \in N, NEW j \in N
      PROVE  ~Before(s[j], s[i]) <=> costOf[s[i]] <= costOf[s[j]]
  <2>1. PICK x \in S, y \in S : x = s[i] /\ y = s[j]  OBVIOUS
  <2>2. x \in DOMAIN costOf /\ y \in DOMAIN costOf /\ costOf[x] \in Nat /\ costOf[y] \in Nat  OBVIOUS
  <2>3. ~Before(y, x) <=> costOf[x] <= costOf[y]  BY <2>2 DEF Before
  <2>. QED  BY <2>1, <2>3
<1>2. \E s \in [N -> S] : P(s)
  <2>1. PICK s : ByCosts(s, S, costOf)  BY OrderExists
  <2>2. s \in [N -> S] /\ DOMAIN s = N /\ IsInjective(s)  BY <2>1 DEF ByCosts
  <2>3. \A i, j \in N : i < j => ~Before(s[j], s[i])  BY <1>1, <2>1, <2>2 DEF ByCosts
  <2>. QED  BY <2>2, <2>3
<1>3. PICK z : z = ByCost(S)  OBVIOUS
<1>4. z = CHOOSE s \in [N -> S] : P(s)  BY <1>3 DEF ByCost
<1>5. z \in [N -> S] /\ P(z)
  <2> HIDE DEF P, N
  <2>. QED  BY <1>2, <1>4
<1>6. DOMAIN z = N  BY <1>5
<1>7. \A i, j \in N : i < j => costOf[z[i]] <= costOf[z[j]]  BY <1>1, <1>5, <1>6
<1>8. Range(z) = S  BY <1>5, ListHasAll
<1>. QED  BY <1>3, <1>5, <1>6, <1>7, <1>8

\* Every file has been timed or is still to be run.
Timed1 ==
    /\ toRunFiles \in Seq(TestFiles1) /\ DOMAIN costOf \subseteq TestFiles1
    /\ \A f \in DOMAIN costOf : costOf[f] \in Nat
    /\ \A f \in TestFiles1 : f \in DOMAIN costOf \/ \E i \in 1 .. Len(toRunFiles) : toRunFiles[i] = f
\* What a file left is of the lines it loaded, and has what a finished test executed that counts
\* unless the test's dump came late.
LeftIs(f) ==
    /\ DOMAIN left[f].tests \subseteq DOMAIN suite1[f] /\ left[f].all \subseteq Instrumented
    /\ \A t \in DOMAIN left[f].tests : /\ left[f].tests[t] \subseteq left[f].all
                                       /\ t \notin left[f].behind => Own(f, t) \subseteq left[f].tests[t]
\* Whoever reached line l, by the files that have been read.
Reached(t, l) == \E f \in merged : t \in DOMAIN left[f].tests /\ l \in left[f].tests[t]
\* The profile is what was read, all of it and nothing else.
Merging ==
    /\ merged \subseteq DOMAIN left /\ DOMAIN left \subseteq TestFiles1 /\ \A f \in DOMAIN left : LeftIs(f)
    /\ merged # {} => toRunFiles = <<>>
    /\ knownLines = UNION {left[f].all : f \in merged}
    /\ DOMAIN linesTo = Instrumented
    /\ \A l \in Instrumented : \A t : t \in linesTo[l] <=> Reached(t, l)
    /\ DOMAIN homeOf = UNION {DOMAIN left[f].tests : f \in merged}
    /\ \A t \in DOMAIN homeOf : homeOf[t] \in merged /\ t \in DOMAIN left[homeOf[t]].tests
\* A run is chosen once all is read.
Chosen ==
    selected # <<>> =>
       toRunFiles = <<>> /\ merged = DOMAIN left /\ \E span \in Touched : selected = <<SelectRun(span)>>
AttInv == suite1 \in Suites /\ IsFiniteSet(TestFiles1) /\ Timed1 /\ Merging /\ Chosen

LEMMA AttStart == ASSUME AttInit PROVE AttInv
<1>1. suite1 \in Suites /\ IsFiniteSet(TestFiles1)  BY AttributionAssumption DEF AttInit, TestFiles1
<1>2. PICK z : z = toRunFiles  OBVIOUS
<1>3. z \in [1 .. Cardinality(TestFiles1) -> TestFiles1] /\ IsInjective(z)
  <2> DEFINE N == 1 .. Cardinality(TestFiles1)
  <2>1. z = CHOOSE f \in [N -> TestFiles1] : IsInjective(f)
    BY <1>2 DEF AttInit, TestFilesIn, SetToSeq
  <2>2. \E f \in [N -> TestFiles1] : IsInjective(f)
    <3>1. PICK f : ByCosts(f, TestFiles1, [x \in TestFiles1 |-> 0])  BY <1>1, OrderExists
    <3>. QED  BY <3>1 DEF ByCosts
  <2>. QED  BY <2>1, <2>2
<1>4. Range(z) = TestFiles1 /\ Cardinality(TestFiles1) \in Nat  BY <1>1, <1>3, ListHasAll
<1>5. z \in Seq(TestFiles1) /\ Len(z) = Cardinality(TestFiles1)  BY <1>3, <1>4
<1>6. \A f \in TestFiles1 : \E i \in 1 .. Len(z) : z[i] = f  BY <1>3, <1>4, <1>5 DEF Range
<1>7. Timed1
  <2>1. DOMAIN costOf = {}  BY DEF AttInit
  <2>. QED  BY <1>2, <1>5, <1>6, <2>1 DEF Timed1
<1>8. Merging  BY DEF AttInit, Merging, Reached
<1>9. Chosen  BY DEF AttInit, Chosen
<1>. QED  BY <1>1, <1>7, <1>8, <1>9 DEF AttInv

\* A test is credited with lines that count, and with its own unless its dump came late.
LEMMA CreditsAre ==
    ASSUME NEW f, NEW fin, NEW behind, NEW to
    PROVE  LET credits == Credits(f, fin, behind, to) IN
           /\ DOMAIN credits = fin /\ \A t \in fin : credits[t] \subseteq Counting
           /\ \A t \in fin : t \notin behind => Own(f, t) \subseteq credits[t]
<1> DEFINE credits == Credits(f, fin, behind, to)
           mine(t) == {x \in fin : IF x \in behind THEN to[x] = t ELSE x = t}
<1>1. DOMAIN credits = fin /\ \A t \in fin : credits[t] = UNION {Own(f, u) : u \in mine(t)}
  BY DEF Credits
<1>2. \A u : Own(f, u) \subseteq Counting  BY DEF Own
<1>3. ASSUME NEW t \in fin PROVE credits[t] \subseteq Counting
  <2>1. UNION {Own(f, u) : u \in mine(t)} \subseteq Counting  BY <1>2
  <2>. QED  BY <1>1, <2>1
<1>4. ASSUME NEW t \in fin, t \notin behind PROVE Own(f, t) \subseteq credits[t]
  <2>1. t \in mine(t)  BY <1>4
  <2>. QED  BY <1>1, <2>1
<1>. QED  BY <1>1, <1>3, <1>4

\* What file f, in which fin finished, wrote: an existential in parts.
Wrote(f, fin, behind, to, all) ==
    left' = IF fin = {} THEN left ELSE Put(left, f, Unload(Credits(f, fin, behind, to), behind, all))

WroteSome(f) ==
    \E fin \in SUBSET DOMAIN suite1[f] : \E behind \in SUBSET fin : \E to \in [behind -> fin \cup {"nobody"}] :
    \E all \in {Instrumented, UNION {Credits(f, fin, behind, to)[t] : t \in fin}} : Wrote(f, fin, behind, to, all)

\* One more file has run.
LEMMA ProfileKeeps == ASSUME AttInv, ProfileFile PROVE AttInv'
<1>0. /\ suite1' = suite1 /\ TestFiles1' = TestFiles1 /\ linesTo' = linesTo /\ homeOf' = homeOf
      /\ knownLines' = knownLines /\ merged' = merged /\ selected' = selected
  BY DEF ProfileFile, TestFiles1
<1>1. toRunFiles # <<>> /\ toRunFiles' = Tail(toRunFiles)  BY DEF ProfileFile
<1>2. PICK q \in Seq(TestFiles1) : q = toRunFiles  BY DEF AttInv, Timed1
<1>3. PICK f : f = Head(q)  OBVIOUS
<1>4. q # <<>> /\ f = q[1] /\ f \in TestFiles1 /\ Len(q) \in Nat  BY <1>1, <1>2, <1>3
<1>h. Head(toRunFiles) = f  BY <1>2, <1>3
<1>p. WroteSome(f)
  <2>1. WroteSome(Head(toRunFiles))  BY Zenon DEF ProfileFile, Wrote, WroteSome
  <2>. QED  BY <1>h, <2>1
<1>q. PICK fin \in SUBSET DOMAIN suite1[f] : \E behind \in SUBSET fin : \E to \in [behind -> fin \cup {"nobody"}] :
      \E all \in {Instrumented, UNION {Credits(f, fin, behind, to)[t] : t \in fin}} : Wrote(f, fin, behind, to, all)
  BY <1>p DEF WroteSome
<1>b. PICK behind \in SUBSET fin : \E to \in [behind -> fin \cup {"nobody"}] :
      \E all \in {Instrumented, UNION {Credits(f, fin, behind, to)[t] : t \in fin}} : Wrote(f, fin, behind, to, all)
  BY <1>q
<1>r. PICK to \in [behind -> fin \cup {"nobody"}] :
        \E all \in {Instrumented, UNION {Credits(f, fin, behind, to)[t] : t \in fin}} : Wrote(f, fin, behind, to, all)
  BY <1>b
<1>a. PICK credits : credits = Credits(f, fin, behind, to)  OBVIOUS
<1>5. PICK all \in {Instrumented, UNION {credits[t] : t \in fin}} :
        left' = IF fin = {} THEN left ELSE Put(left, f, Unload(credits, behind, all))
  BY <1>r, <1>a, Zenon DEF Wrote
<1>c. /\ DOMAIN credits = fin /\ \A t \in fin : credits[t] \subseteq Instrumented
      /\ \A t \in fin : t \notin behind => Own(f, t) \subseteq credits[t]
  BY <1>a, CreditsAre, AttributionAssumption
<1>6. PICK c \in Costs : costOf' = Put(costOf, f, c)  BY <1>2, <1>3 DEF ProfileFile
<1>7. merged = {} /\ selected = <<>>  BY <1>1 DEF AttInv, Merging, Chosen
<1>8. Timed1'
  <2>1. /\ DOMAIN costOf' = DOMAIN costOf \cup {f}
        /\ \A g \in DOMAIN costOf' : costOf'[g] = IF g = f THEN c ELSE costOf[g]
    BY <1>6 DEF Put
  <2>2. c \in Nat  BY AttributionAssumption
  <2>3. DOMAIN costOf' \subseteq TestFiles1 /\ \A g \in DOMAIN costOf' : costOf'[g] \in Nat
    BY <1>4, <2>1, <2>2 DEF AttInv, Timed1
  <2>4. PICK r \in Seq(TestFiles1) : r = Tail(q) /\ Len(r) = Len(q) - 1 /\ \A i \in 1 .. Len(q) - 1 : r[i] = q[i + 1]
    <3>1. q \in Seq(TestFiles1) /\ q # <<>>  BY <1>4
    <3>2. Tail(q) \in Seq(TestFiles1)  BY <3>1
    <3>3. Len(Tail(q)) = Len(q) - 1 /\ \A i \in 1 .. Len(q) - 1 : Tail(q)[i] = q[i + 1]  BY <3>1
    <3>. QED  BY <3>2, <3>3
  <2>5. ASSUME NEW g \in TestFiles1 PROVE g \in DOMAIN costOf' \/ \E i \in 1 .. Len(r) : r[i] = g
    <3>1. g \in DOMAIN costOf \/ \E i \in 1 .. Len(q) : q[i] = g  BY <1>2 DEF AttInv, Timed1
    <3>2. SUFFICES ASSUME NEW i \in 1 .. Len(q), q[i] = g, i # 1 PROVE \E k \in 1 .. Len(r) : r[k] = g
      BY <1>4, <2>1, <3>1
    <3>3. i - 1 \in 1 .. Len(q) - 1 /\ (i - 1) + 1 = i  BY <1>4, <3>2
    <3>. QED  BY <2>4, <3>2, <3>3
  <2>. QED  BY <1>0, <1>1, <1>2, <2>3, <2>4, <2>5 DEF Timed1
<1>9. ASSUME NEW g \in DOMAIN left' PROVE g \in TestFiles1 /\ LeftIs(g)'
  <2>1. CASE g = f /\ fin # {}
    <3>1. left'[g] = Unload(credits, behind, all)  BY <1>5, <2>1 DEF Put
    <3>2. left'[g].all = all /\ left'[g].tests = credits /\ left'[g].behind = behind
      BY <3>1 DEF Unload
    <3>3. all \subseteq Instrumented /\ \A t \in fin : credits[t] \subseteq all
      <4>1. CASE all = Instrumented  BY <1>c, <4>1
      <4>2. CASE all = UNION {credits[t] : t \in fin}  BY <1>c, <4>2
      <4>. QED  BY <4>1, <4>2
    <3>4. fin \subseteq DOMAIN suite1[f]  BY <1>q
    <3>5. \A t : Own(f, t)' = Own(f, t)  BY <1>0 DEF Own
    <3>. QED  BY <1>0, <1>4, <1>c, <2>1, <3>2, <3>3, <3>4, <3>5 DEF LeftIs
  <2>2. CASE g # f \/ fin = {}
    <3>1. g \in DOMAIN left /\ left'[g] = left[g]  BY <1>5, <2>2 DEF Put
    <3>. QED  BY <1>0, <3>1 DEF AttInv, Merging, LeftIs, Own
  <2>. QED  BY <2>1, <2>2
<1>10. Merging'
  <2>1. knownLines = {} /\ DOMAIN homeOf = {} /\ \A l \in Instrumented : \A t : t \notin linesTo[l]
    BY <1>7 DEF AttInv, Merging, Reached
  <2>2. DOMAIN linesTo = Instrumented  BY DEF AttInv, Merging
  <2>. QED  BY <1>0, <1>7, <1>9, <2>1, <2>2 DEF Merging, Reached
<1>11. Chosen'  BY <1>0, <1>7 DEF Chosen
<1>. QED  BY <1>0, <1>8, <1>10, <1>11 DEF AttInv

\* One more file's output is read.
LEMMA MergeKeeps == ASSUME AttInv, NEW f, MergeFile(f) PROVE AttInv'
<1>0. /\ suite1' = suite1 /\ TestFiles1' = TestFiles1 /\ toRunFiles' = toRunFiles /\ left' = left
      /\ costOf' = costOf /\ selected' = selected
  BY DEF MergeFile, TestFiles1
<1>1. toRunFiles = <<>> /\ f \in DOMAIN left \ merged /\ merged' = merged \cup {f}  BY DEF MergeFile
<1>2. PICK raw : raw = left[f]  OBVIOUS
<1>3. knownLines' = knownLines \cup raw.all /\ linesTo' = LinesWith(raw)  BY <1>2 DEF MergeFile
<1>4. homeOf' = [t \in DOMAIN raw.tests \cup DOMAIN homeOf |-> IF t \in DOMAIN raw.tests THEN f ELSE homeOf[t]]
  BY <1>2 DEF MergeFile
<1>5. Timed1'  BY <1>0 DEF AttInv, Timed1
<1>6. LeftIs(f) /\ Merging  BY <1>1 DEF AttInv, Merging
<1>7. ASSUME NEW l \in Instrumented, NEW t PROVE t \in linesTo'[l] <=> Reached(t, l)'
  <2>1. t \in linesTo[l] <=> Reached(t, l)  BY <1>6 DEF Merging
  <2>2. linesTo'[l] = linesTo[l] \cup {u \in DOMAIN raw.tests : l \in raw.tests[u]}  BY <1>3 DEF LinesWith
  <2>3. Reached(t, l)' <=> Reached(t, l) \/ (t \in DOMAIN raw.tests /\ l \in raw.tests[t])
    BY <1>0, <1>1, <1>2 DEF Reached
  <2>. QED  BY <2>1, <2>2, <2>3
<1>8. DOMAIN linesTo' = Instrumented  BY <1>3 DEF LinesWith
<1>9. knownLines' = UNION {left'[g].all : g \in merged'}
  BY <1>0, <1>1, <1>2, <1>3, <1>6 DEF Merging
<1>10. DOMAIN homeOf' = UNION {DOMAIN left'[g].tests : g \in merged'}
  <2>1. DOMAIN homeOf' = DOMAIN raw.tests \cup DOMAIN homeOf  BY <1>4
  <2>2. DOMAIN homeOf = UNION {DOMAIN left[g].tests : g \in merged}  BY <1>6 DEF Merging
  <2>. QED  BY <1>0, <1>1, <1>2, <2>1, <2>2
<1>11. ASSUME NEW t \in DOMAIN homeOf' PROVE homeOf'[t] \in merged' /\ t \in DOMAIN left'[homeOf'[t]].tests
  <2>1. CASE t \in DOMAIN raw.tests
    <3>1. homeOf'[t] = f  BY <1>4, <2>1
    <3>. QED  BY <1>0, <1>1, <1>2, <2>1, <3>1
  <2>2. CASE t \notin DOMAIN raw.tests
    <3>1. t \in DOMAIN homeOf /\ homeOf'[t] = homeOf[t]  BY <1>4, <2>2
    <3>. QED  BY <1>0, <1>1, <1>6, <3>1 DEF Merging
  <2>. QED  BY <2>1, <2>2
<1>12. Merging'
  <2>1. merged' \subseteq DOMAIN left' /\ DOMAIN left' \subseteq TestFiles1' /\ \A g \in DOMAIN left' : LeftIs(g)'
    BY <1>0, <1>1, <1>6 DEF Merging, LeftIs, Own
  <2>2. merged' # {} => toRunFiles' = <<>>  BY <1>0, <1>1
  <2>. QED  BY <1>7, <1>8, <1>9, <1>10, <1>11, <2>1, <2>2 DEF Merging
<1>13. Chosen'
  <2>1. selected = <<>>  BY <1>1 DEF AttInv, Chosen
  <2>. QED  BY <1>0, <2>1 DEF Chosen
<1>. QED  BY <1>0, <1>5, <1>12, <1>13 DEF AttInv

\* A run is chosen.
LEMMA ChooseKeeps == ASSUME AttInv, RunMutant PROVE AttInv'
<1>0. /\ suite1' = suite1 /\ TestFiles1' = TestFiles1 /\ toRunFiles' = toRunFiles /\ left' = left
      /\ costOf' = costOf /\ linesTo' = linesTo /\ homeOf' = homeOf /\ knownLines' = knownLines /\ merged' = merged
  BY DEF RunMutant, TestFiles1
<1>1. toRunFiles = <<>> /\ merged = DOMAIN left  BY DEF RunMutant
<1>2. PICK span \in Touched : selected' = <<SelectRun(span)>>  BY DEF RunMutant
<1>3. SelectRun(span)' = SelectRun(span)
  BY <1>0 DEF SelectRun, SelectTests, ByCost, Before, TestFiles1
<1>4. Timed1' /\ Merging'  BY <1>0 DEF AttInv, Timed1, Merging, LeftIs, Own, Reached
<1>5. Chosen'  BY <1>0, <1>1, <1>2, <1>3 DEF Chosen
<1>. QED  BY <1>0, <1>4, <1>5 DEF AttInv

LEMMA AttStep == ASSUME AttInv, [AttNext]_attributionVars PROVE AttInv'
<1>1. ASSUME UNCHANGED attributionVars PROVE AttInv'
  <2>1. TestFiles1' = TestFiles1  BY <1>1 DEF attributionVars, TestFiles1
  <2>2. Timed1' /\ Merging'  BY <1>1, <2>1 DEF attributionVars, AttInv, Timed1, Merging, LeftIs, Own, Reached
  <2>3. ASSUME NEW span PROVE SelectRun(span)' = SelectRun(span)
    BY <1>1, <2>1 DEF attributionVars, SelectRun, SelectTests, ByCost, Before
  <2>4. Chosen'  BY <1>1, <2>3 DEF attributionVars, AttInv, Chosen
  <2>. QED  BY <1>1, <2>1, <2>2, <2>4 DEF attributionVars, AttInv
<1>. QED  BY <1>1, ProfileKeeps, MergeKeeps, ChooseKeeps DEF AttNext

\* What a chosen run is made of.
LEMMA RunIs ==
    ASSUME AttInv, NEW span, SelectRun(span) = selected[1], toRunFiles = <<>>, merged = DOMAIN left
    PROVE  /\ selected[1].span = span
           /\ Range(selected[1].files) = IF SelectTests(span) # {} THEN {homeOf[t] : t \in SelectTests(span)}
                                         ELSE TestFiles1
           /\ selected[1].filter = IF SelectTests(span) # {} THEN SelectTests(span)
                                   ELSE UNION {DOMAIN suite1[f] : f \in TestFiles1}
           /\ IsInjective(selected[1].files)
           /\ \A i, j \in DOMAIN selected[1].files :
                 i < j => costOf[selected[1].files[i]] <= costOf[selected[1].files[j]]
<1> DEFINE tests == SelectTests(span)
           files == {homeOf[t] : t \in tests}
<1>1. TestFiles1 \subseteq DOMAIN costOf /\ \A f \in DOMAIN costOf : costOf[f] \in Nat
  <2>1. Len(toRunFiles) = 0  OBVIOUS
  <2>. QED  BY <2>1 DEF AttInv, Timed1
<1>2. Merging  BY DEF AttInv
<1>3. \A t \in tests : t \in DOMAIN homeOf
  <2>1. ASSUME NEW t \in tests PROVE t \in DOMAIN homeOf
    <3>1. PICK l \in span \cap knownLines : t \in linesTo[l]  BY DEF SelectTests
    <3>2. l \in Instrumented  BY <1>2, <3>1 DEF Merging, LeftIs
    <3>3. Reached(t, l)  BY <1>2, <3>1, <3>2 DEF Merging
    <3>. QED  BY <1>2, <3>3 DEF Merging, Reached
  <2>. QED  BY <2>1
<1>4. files \subseteq TestFiles1  BY <1>2, <1>3 DEF Merging
<1>5. tests # {} => span \cap knownLines # {}  BY DEF SelectTests
<1>6. ASSUME NEW S, S \subseteq TestFiles1
      PROVE  /\ IsInjective(ByCost(S)) /\ Range(ByCost(S)) = S
             /\ \A i, j \in DOMAIN ByCost(S) : i < j => costOf[ByCost(S)[i]] <= costOf[ByCost(S)[j]]
  <2>1. IsFiniteSet(S)  BY <1>6, FS_Subset DEF AttInv
  <2>. QED  BY <1>1, <1>6, <2>1, ByCostLists
<1>7. CASE tests # {}
  <2>1. SelectRun(span) = [files |-> ByCost(files), filter |-> tests, span |-> span]
    BY <1>5, <1>7 DEF SelectRun
  <2>2. selected[1].files = ByCost(files) /\ selected[1].filter = tests /\ selected[1].span = span  BY <2>1
  <2>. QED  BY <1>4, <1>6, <1>7, <2>2
<1>8. CASE tests = {}
  <2>1. /\ selected[1].files = ByCost(TestFiles1) /\ selected[1].span = span
        /\ selected[1].filter = UNION {DOMAIN suite1[f] : f \in TestFiles1}
    BY <1>8 DEF SelectRun
  <2>. QED  BY <1>6, <1>8, <2>1
<1>. QED  BY <1>7, <1>8

\* The profile leads from a line to a test, and from a test to its file.
LEMMA AttSays == ASSUME AttInv PROVE NarrowedRunIsEnough
<1>1. Merging  BY DEF AttInv
<1>2. knownLines \subseteq Instrumented  BY <1>1 DEF Merging, LeftIs
<1>3. AttTypeOK  BY <1>1, <1>2 DEF AttTypeOK, Merging
<1>4. ASSUME selected # <<>> PROVE
        \E span : SelectRun(span) = selected[1] /\ toRunFiles = <<>> /\ merged = DOMAIN left
  BY <1>4 DEF AttInv, Chosen
<1>5. ReachingTestRuns
  <2>1. SUFFICES ASSUME selected # <<>>, NEW f \in DOMAIN left, NEW t \in DOMAIN left[f].tests,
                        Due1(f, t) \cap selected[1].span # {}
                 PROVE  /\ t \in selected[1].filter /\ \E g \in TestFiles1 : t \in DOMAIN suite1[g] /\ Runs(g, t)
                        /\ Unique => Runs(f, t)
    BY DEF ReachingTestRuns
  <2>2. PICK span : SelectRun(span) = selected[1] /\ toRunFiles = <<>> /\ merged = DOMAIN left  BY <1>4, <2>1
  <2>3. selected[1].span = span  BY <2>2, RunIs
  <2>4. PICK l : l \in Due1(f, t) /\ l \in span  BY <2>1, <2>3
  <2>5. f \in merged /\ f \in TestFiles1 /\ LeftIs(f)  BY <1>1, <2>2 DEF Merging
  <2>6. l \in left[f].tests[t] /\ l \in left[f].all /\ l \in Instrumented /\ t \in DOMAIN suite1[f]
    <3>1. l \in left[f].tests[t] \/ (t \notin left[f].behind /\ l \in Own(f, t))  BY <2>4 DEF Due1
    <3>2. LeftIs(f) /\ t \in DOMAIN left[f].tests  BY <2>1, <2>5
    <3>3. l \in left[f].tests[t]  BY <3>1, <3>2 DEF LeftIs
    <3>. QED  BY <2>1, <2>5, <3>3 DEF LeftIs
  <2>7. t \in linesTo[l]
    <3>1. Reached(t, l)  BY <2>1, <2>5, <2>6 DEF Reached
    <3>2. \A k \in Instrumented : \A u : u \in linesTo[k] <=> Reached(u, k)  BY <1>1 DEF Merging
    <3>. QED  BY <2>6, <3>1, <3>2
  <2>8. l \in knownLines  BY <1>1, <2>5, <2>6 DEF Merging
  <2>9. t \in SelectTests(span)  BY <2>4, <2>7, <2>8 DEF SelectTests
  <2>10. /\ selected[1].filter = SelectTests(span)
         /\ Range(selected[1].files) = {homeOf[u] : u \in SelectTests(span)}
    BY <2>2, <2>9, RunIs
  <2>11. PICK g : g = homeOf[t]  OBVIOUS
  <2>12. g \in Range(selected[1].files)  BY <2>9, <2>10, <2>11
  <2>13. t \in DOMAIN homeOf  BY <1>1, <2>5 DEF Merging
  <2>14. g \in TestFiles1 /\ t \in DOMAIN suite1[g]  BY <1>1, <2>11, <2>13 DEF Merging, LeftIs
  <2>15. Runs(g, t)  BY <2>9, <2>10, <2>12 DEF Runs
  <2>16. Unique => g = f  BY <2>5, <2>6, <2>14 DEF Unique
  <2>. QED  BY <2>9, <2>10, <2>14, <2>15, <2>16
<1>6. CheapestFirst
  <2>1. SUFFICES ASSUME selected # <<>>
                 PROVE  /\ IsInjective(selected[1].files)
                        /\ \A i, j \in DOMAIN selected[1].files :
                              i < j => costOf[selected[1].files[i]] <= costOf[selected[1].files[j]]
                        /\ SelectTests(selected[1].span) = {} =>
                             \A f \in TestFiles1 : \A t \in DOMAIN suite1[f] : Runs(f, t)
    BY DEF CheapestFirst
  <2>2. PICK span : SelectRun(span) = selected[1] /\ toRunFiles = <<>> /\ merged = DOMAIN left  BY <1>4, <2>1
  <2>3. ASSUME SelectTests(span) = {}, NEW f \in TestFiles1, NEW t \in DOMAIN suite1[f] PROVE Runs(f, t)
    <3>1. /\ Range(selected[1].files) = TestFiles1
          /\ selected[1].filter = UNION {DOMAIN suite1[g] : g \in TestFiles1}
      BY <2>2, <2>3, RunIs
    <3>. QED  BY <3>1 DEF Runs
  <2>. QED  BY <2>2, <2>3, RunIs
<1>. QED  BY <1>3, <1>5, <1>6 DEF NarrowedRunIsEnough

\* For any test files, shared names included, any lines, folded or not, any costs, edits and late
\* dumps, and whatever of a file's tests finished: a credit is whole as far as the counters and the
\* dumps in time go, and the run chosen for a mutant has every test whose credit reaches it, in its
\* own file when names are not shared, cheapest file first; one that is not narrowed leaves no test
\* out (mutate/profile.ts).
THEOREM NarrowingStaysSafe == ProfSpec /\ AttSpec => []NarrowingIsSafe
<1>1. AttInit => AttInv  BY AttStart
<1>2. AttInv /\ [AttNext]_attributionVars => AttInv'  BY AttStep
<1>3. AttInv => NarrowedRunIsEnough  BY AttSays
<1>4. CreditsAreSafe /\ NarrowedRunIsEnough => NarrowingIsSafe  BY DEF NarrowingIsSafe
<1>. QED  BY <1>1, <1>2, <1>3, <1>4, CreditsStaySafe, PTL DEF AttSpec
=============================================================================

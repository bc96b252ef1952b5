------------------------------ MODULE ProgramsProofs -------------------------------
(***************************************************************************)
(* A program's side, for every number of slots, events, bridges and calls:    *)
(* its tickets tell it the truth (provider.ts), its page is heard in order    *)
(* (entryBrowser.ts), its answers are scheduled and not kept (schedule.ts),   *)
(* and its launcher ends well (entry.ts).                                   *)
(*                                                                         *)
(* None of the four invariants is inductive.  A ticket is right because the   *)
(* number packs the generation its slot has now, and a used number one its    *)
(* slot has left; a page is heard in order because what is queued comes after *)
(* all that was heard; a stopped guest is answered because calls are failed   *)
(* only while their responder stops; and a launcher's exit code is right       *)
(* because of what each worker state has put in its mail.                     *)
(***************************************************************************)
EXTENDS Tickets, Page, Schedule, Launch, FiniteSetTheorems, SequenceTheorems, TLAPS

-----------------------------------------------------------------------------
(* The scheduler (schedule.ts) *)

\* What the scheduler keeps of an answer.
Entries == [call : Bridges \X Nat, seq : Nat]

\* Whether the scheduler holds an answer to a call.
Holds(held, c) == \E i \in 1 .. Len(held) : held[i].call = c

\* The types, with what the property says of turns, seqs and the order of answers.
ScTyped ==
    /\ policy \in Policies /\ idle \in BOOLEAN /\ overtaken = FALSE
    /\ running \subseteq Bridges /\ \A b, d \in running : b = d
    /\ submits \in 0 .. MaxSubmits /\ seq \in Nat /\ sweeping \in Bridges \cup {Nobody}
    /\ serving \subseteq Bridges
    /\ ready \in Seq(Entries) /\ \A i \in 1 .. Len(ready) : ready[i].seq < seq

\* The calls submitted so far.
Calls(n) == Bridges \X (1 .. n)
\* A call anybody knows of has been submitted, and no handler has one that is unswept.
CallsAreOld ==
    /\ posted \subseteq Calls(submits) /\ handling \subseteq Calls(submits)
    /\ failing \subseteq Calls(submits) /\ open \subseteq Calls(submits)
    /\ handling \cap posted = {}

\* Calls are failed by stop, while it is the one at work.
FailingIsStopping == failing # {} => sweeping \in Bridges \ serving

\* The inductive invariant of the scheduler.
ScInv == ScTyped /\ CallsAreOld /\ FailingIsStopping /\ NeverStalls /\ StopAnswersAll

\* #ready without the answer that went out: the others, in their order (#pump).
LEMMA WithoutKeeps ==
    ASSUME NEW held \in Seq(Entries), NEW i \in 1 .. Len(held)
    PROVE  /\ Without(held, i) \in Seq(Entries)
           /\ Len(Without(held, i)) = Len(held) - 1
           /\ \A k \in 1 .. Len(held) - 1 :
                Without(held, i)[k] = IF k < i THEN held[k] ELSE held[k + 1]
<1> DEFINE a == SubSeq(held, 1, i - 1)
           z == SubSeq(held, i + 1, Len(held))
<1>1. Len(held) \in Nat /\ i \in Int /\ 1 <= i /\ i <= Len(held)  OBVIOUS
<1>2. a \in Seq(Entries) /\ Len(a) = i - 1 /\ \A k \in 1 .. i - 1 : a[k] = held[k]
  BY <1>1
<1>3. z \in Seq(Entries) /\ Len(z) = Len(held) - i /\ \A k \in 1 .. Len(held) - i : z[k] = held[i + k]
  BY <1>1
<1>4. Without(held, i) = a \o z  BY DEF Without
<1> HIDE DEF a, z
<1>5. /\ a \o z \in Seq(Entries) /\ Len(a \o z) = Len(held) - 1
      /\ \A k \in 1 .. Len(held) - 1 : (a \o z)[k] = IF k <= Len(a) THEN a[k] ELSE z[k - Len(a)]
  <2>1. a \o z \in Seq(Entries)  BY <1>2, <1>3
  <2>0. a \in Seq(Entries) /\ z \in Seq(Entries)  BY <1>2, <1>3
  <2>2. Len(a \o z) = Len(a) + Len(z)  BY <2>0
  <2>3. \A k \in 1 .. Len(a) + Len(z) : (a \o z)[k] = IF k <= Len(a) THEN a[k] ELSE z[k - Len(a)]
    BY <2>0
  <2>4. Len(a) + Len(z) = Len(held) - 1  BY <1>1, <1>2, <1>3
  <2>. QED  BY <2>1, <2>2, <2>3, <2>4
<1>6. ASSUME NEW k \in 1 .. Len(held) - 1
      PROVE  (a \o z)[k] = IF k < i THEN held[k] ELSE held[k + 1]
  <2>1. CASE k < i  BY <2>1, <1>1, <1>2, <1>5
  <2>2. CASE ~(k < i)
    <3>1. k - (i - 1) \in 1 .. Len(held) - i /\ i + (k - (i - 1)) = k + 1  BY <2>2, <1>1
    <3>2. z[k - (i - 1)] = held[k + 1]  BY <3>1, <1>3
    <3>. QED  BY <2>2, <3>2, <1>1, <1>2, <1>5
  <2>. QED  BY <2>1, <2>2
<1>. QED  BY <1>4, <1>5, <1>6

\* What #pump leaves: a scheduler that holds what it was given, or all of it but one answer
\* that has been written and whose bridge has its turn.
LEMMA PumpKeeps ==
    ASSUME NEW held \in Seq(Entries), NEW run, run \subseteq Bridges, \A b, d \in run : b = d,
           NEW armed \in BOOLEAN, NEW top \in Nat,
           \A i \in 1 .. Len(held) : held[i].seq < top,
           overtaken = FALSE, Pump(held, run, armed)
    PROVE  /\ ready' \in Seq(Entries) /\ \A i \in 1 .. Len(ready') : ready'[i].seq < top
           /\ running' \subseteq Bridges /\ (\A b, d \in running' : b = d)
           /\ idle' \in BOOLEAN /\ overtaken' = FALSE
           /\ (ready' # <<>> => running' # {} /\ idle')
           /\ open' \subseteq open
           /\ \A c : c \in open' /\ Holds(held, c) => Holds(ready', c)
<1>1. CASE held = <<>> /\ ready' = held /\ running' = run /\ idle' = armed /\ UNCHANGED guestVars
  BY <1>1 DEF guestVars
<1>2. CASE held # <<>> /\ run # {} /\ ready' = held /\ running' = run /\ idle' = TRUE
           /\ UNCHANGED guestVars
  BY <1>2 DEF guestVars
<1>3. CASE /\ held # <<>> /\ run = {} /\ idle' = TRUE
           /\ \E i \in Choose(held) :
                /\ ready' = Without(held, i) /\ running' = {held[i].call[1]}
                /\ overtaken' = (overtaken \/ Overtakes(held, i)) /\ Write(held[i].call)
  <2>1. PICK i \in Choose(held) :
              /\ ready' = Without(held, i) /\ running' = {held[i].call[1]}
              /\ overtaken' = (overtaken \/ Overtakes(held, i)) /\ Write(held[i].call)
    BY <1>3
  <2>2. i \in 1 .. Len(held)  BY DEF Choose
  <2>3. held[i] \in Entries  BY <2>2
  <2>4. ~Overtakes(held, i)
    <3>1. SUFFICES ASSUME policy = "fifo", NEW j \in DOMAIN held, held[j].seq < held[i].seq
                   PROVE  FALSE
      BY DEF Overtakes
    <3>2. held[i].seq <= held[j].seq  BY <3>1 DEF Choose
    <3>3. held[j] \in Entries  BY <3>1
    <3>. QED  BY <3>1, <3>2, <3>3, <2>3 DEF Entries
  <2>5. /\ ready' \in Seq(Entries) /\ Len(ready') = Len(held) - 1
        /\ \A k \in 1 .. Len(held) - 1 :
             ready'[k] = IF k < i THEN held[k] ELSE held[k + 1]
    BY <2>1, <2>2, WithoutKeeps
  <2>6. Len(held) \in Nat  OBVIOUS
  <2>7. \A k \in 1 .. Len(ready') : ready'[k].seq < top
    <3>1. SUFFICES ASSUME NEW k \in 1 .. Len(ready') PROVE ready'[k].seq < top  OBVIOUS
    <3>2. k \in 1 .. Len(held) /\ k + 1 \in 1 .. Len(held) /\ k \in 1 .. Len(held) - 1
      BY <2>5, <2>6
    <3>. QED  BY <2>5, <3>2
  <2>8. open' = open \ {held[i].call}  BY <2>1 DEF Write
  <2>9. ASSUME NEW c, c \in open', Holds(held, c) PROVE Holds(ready', c)
    <3>1. PICK j \in 1 .. Len(held) : held[j].call = c  BY <2>9 DEF Holds
    <3>2. j # i  BY <2>8, <2>9, <3>1
    <3>3. CASE j < i
      <4>1. j \in 1 .. Len(held) - 1 /\ ready'[j] = held[j]  BY <2>2, <2>5, <2>6, <3>3
      <4>. QED  BY <3>1, <4>1, <2>5 DEF Holds
    <3>4. CASE ~(j < i)
      <4>1. j - 1 \in 1 .. Len(held) - 1 /\ ~(j - 1 < i) /\ j - 1 + 1 = j
        BY <2>2, <2>6, <3>2, <3>4
      <4>2. ready'[j - 1] = held[j]  BY <2>5, <4>1
      <4>. QED  BY <3>1, <4>1, <4>2, <2>5 DEF Holds
    <3>. QED  BY <3>3, <3>4
  <2>10. running' \subseteq Bridges /\ \A b, d \in running' : b = d
    BY <2>1, <2>3 DEF Entries
  <2>. QED  BY <1>3, <2>1, <2>4, <2>5, <2>7, <2>8, <2>9, <2>10
<1>. QED  BY <1>1, <1>2, <1>3 DEF Pump

\* What a step that goes through the scheduler leaves, whatever else it does.
Delivered(held) ==
    /\ ready' \in Seq(Entries) /\ seq' \in Nat /\ \A i \in 1 .. Len(ready') : ready'[i].seq < seq'
    /\ running' \subseteq Bridges /\ (\A b, d \in running' : b = d)
    /\ idle' \in BOOLEAN /\ overtaken' = FALSE
    /\ (ready' # <<>> => running' # {} /\ idle')
    /\ open' \subseteq open
    /\ \A c \in open' : Holds(held, c) => Holds(ready', c)

\* Calls a stopped responder has answered or has still to fail are in the scheduler's hands.
LEMMA StopIsHolds ==
    ASSUME ScTyped
    PROVE  StopAnswersAll
             <=> \A c \in open : c[1] \notin serving => c \in failing \/ Holds(ready, c)
<1>1. DOMAIN ready = 1 .. Len(ready)  BY DEF ScTyped
<1>. QED  BY <1>1 DEF StopAnswersAll, Holds

\* ready: the answer is written, or the scheduler holds it or another one less (schedule.ts).
LEMMA AnswerReadyKeeps ==
    ASSUME ScInv, NEW c \in Bridges \X Nat, AnswerReady(c)
    PROVE  Delivered(ready) /\ (c \in open' => Holds(ready', c))
<1>1. CASE policy = "off" /\ Write(c) /\ UNCHANGED <<ready, seq, running, idle, overtaken>>
  BY <1>1 DEF ScInv, ScTyped, NeverStalls, Write, Delivered, Holds
<1>2. CASE policy # "off" /\ seq' = seq + 1
           /\ Pump(Append(ready, [call |-> c, seq |-> seq]), running, idle)
  <2> DEFINE new == [call |-> c, seq |-> seq]
             held == Append(ready, new)
  <2>1. new \in Entries  BY DEF ScInv, ScTyped, Entries
  <2>2. ready \in Seq(Entries) /\ seq \in Nat  BY DEF ScInv, ScTyped
  <2>3. /\ held \in Seq(Entries) /\ Len(held) = Len(ready) + 1 /\ Len(ready) \in Nat
        /\ held[Len(ready) + 1] = new /\ \A k \in 1 .. Len(ready) : held[k] = ready[k]
    BY <2>1, <2>2
  <2>4. \A k \in 1 .. Len(held) : held[k].seq < seq + 1
    <3>1. SUFFICES ASSUME NEW k \in 1 .. Len(held) PROVE held[k].seq < seq + 1  OBVIOUS
    <3>2. CASE k = Len(ready) + 1  BY <2>2, <2>3, <3>2
    <3>3. CASE k \in 1 .. Len(ready)
      <4>0. ready[k] \in Entries  BY <3>3, <2>2
      <4>1. ready[k].seq < seq /\ ready[k].seq \in Nat  BY <3>3, <4>0 DEF ScInv, ScTyped, Entries
      <4>. QED  BY <2>2, <2>3, <3>3, <4>1
    <3>. QED  BY <2>3, <3>2, <3>3
  <2>5. Holds(held, c)
    <3>1. Len(ready) + 1 \in 1 .. Len(held) /\ held[Len(ready) + 1].call = c  BY <2>3
    <3>. QED  BY <3>1 DEF Holds
  <2>6. ASSUME NEW d, Holds(ready, d) PROVE Holds(held, d)
    <3>1. PICK k \in 1 .. Len(ready) : ready[k].call = d  BY <2>6 DEF Holds
    <3>2. k \in 1 .. Len(held) /\ held[k].call = d  BY <2>3, <3>1
    <3>. QED  BY <3>2 DEF Holds
  <2>7. /\ running \subseteq Bridges /\ (\A b, d \in running : b = d)
        /\ idle \in BOOLEAN /\ overtaken = FALSE /\ seq + 1 \in Nat
    BY <2>2 DEF ScInv, ScTyped
  <2> HIDE DEF new, held
  <2>8. Pump(held, running, idle) /\ seq' = seq + 1  BY <1>2 DEF new, held
  <2>9. /\ ready' \in Seq(Entries) /\ \A i \in 1 .. Len(ready') : ready'[i].seq < seq + 1
        /\ running' \subseteq Bridges /\ (\A b, d \in running' : b = d)
        /\ idle' \in BOOLEAN /\ overtaken' = FALSE
        /\ (ready' # <<>> => running' # {} /\ idle')
        /\ open' \subseteq open
        /\ \A d : d \in open' /\ Holds(held, d) => Holds(ready', d)
    BY <2>3, <2>4, <2>7, <2>8, PumpKeeps
  <2>. QED  BY <2>5, <2>6, <2>7, <2>8, <2>9 DEF Delivered
<1>. QED  BY <1>1, <1>2 DEF AnswerReady

\* quiet: a turn that ends gives the next answer its own (schedule.ts).
LEMMA QuietKeeps ==
    ASSUME ScInv, NEW b, Quiet(b), seq' = seq
    PROVE  Delivered(ready)
<1>1. CASE b \in running /\ Pump(ready, running \ {b}, idle)
  <2>1. /\ ready \in Seq(Entries) /\ running \ {b} \subseteq Bridges
        /\ (\A e, d \in running \ {b} : e = d)
        /\ idle \in BOOLEAN /\ overtaken = FALSE /\ seq \in Nat
        /\ \A i \in 1 .. Len(ready) : ready[i].seq < seq
    BY DEF ScInv, ScTyped
  <2>2. /\ ready' \in Seq(Entries) /\ \A i \in 1 .. Len(ready') : ready'[i].seq < seq
        /\ running' \subseteq Bridges /\ (\A e, d \in running' : e = d)
        /\ idle' \in BOOLEAN /\ overtaken' = FALSE
        /\ (ready' # <<>> => running' # {} /\ idle')
        /\ open' \subseteq open
        /\ \A d : d \in open' /\ Holds(ready, d) => Holds(ready', d)
    BY <1>1, <2>1, PumpKeeps
  <2>. QED  BY <2>1, <2>2 DEF Delivered
<1>2. CASE UNCHANGED <<ready, running, idle, guestVars>>
  BY <1>2 DEF ScInv, ScTyped, NeverStalls, Delivered, Holds, guestVars
<1>. QED  BY <1>1, <1>2 DEF Quiet
\* A scheduler that holds nothing.
LEMMA ScheduleInit == ASSUME ScInit PROVE ScInv
<1>1. <<>> \in Seq(Entries) /\ Len(<<>>) = 0 /\ DOMAIN <<>> = {}  OBVIOUS
<1>2. ScTyped
  <2>1. ready \in Seq(Entries) /\ Len(ready) = 0  BY <1>1 DEF ScInit
  <2>2. \A i \in 1 .. Len(ready) : ready[i].seq < seq  BY <2>1
  <2>3. submits \in 0 .. MaxSubmits /\ seq \in Nat  BY ScheduleAssumption DEF ScInit
  <2>4. overtaken = FALSE /\ idle \in BOOLEAN  BY DEF ScInit
  <2>. QED  BY <2>1, <2>2, <2>3, <2>4 DEF ScInit, ScTyped
<1>3. CallsAreOld /\ FailingIsStopping /\ NeverStalls /\ StopAnswersAll
  BY DEF ScInit, CallsAreOld, FailingIsStopping, NeverStalls, StopAnswersAll
<1>. QED  BY <1>2, <1>3 DEF ScInv

\* A step that goes through the scheduler, and leaves the responders as the rest of its
\* effect says.
LEMMA DeliveredStep ==
    ASSUME ScInv, Delivered(ready), UNCHANGED <<policy, submits>>,
           sweeping' \in Bridges \cup {Nobody}, serving' \subseteq Bridges,
           CallsAreOld', FailingIsStopping',
           \A c \in open' : c[1] \notin serving' => c \in failing' \/ Holds(ready', c)
    PROVE  ScInv'
<1>1. ScTyped'  BY DEF ScInv, ScTyped, Delivered
<1>2. NeverStalls'  BY DEF NeverStalls, Delivered
<1>3. DOMAIN ready' = 1 .. Len(ready')  BY DEF Delivered
<1>4. StopAnswersAll'  BY <1>3 DEF StopAnswersAll, Holds
<1>. QED  BY <1>1, <1>2, <1>4 DEF ScInv

\* A stopped guest's calls are failing or held, in the form the steps use.
LEMMA StopIs ==
    ASSUME ScInv
    PROVE  \A c \in open : c[1] \notin serving => c \in failing \/ Holds(ready, c)
BY StopIsHolds DEF ScInv

\* A guest submits or cancels: a call is new, or nobody's.
LEMMA GuestStep ==
    ASSUME ScInv, \/ \E b \in Bridges : Submit(b)
                  \/ \E c \in open : Cancel(c)
    PROVE  ScInv'
<1>1. ASSUME NEW b \in Bridges, Submit(b) PROVE ScInv'
  <2>1. ScTyped'
    <3>1. submits' \in 0 .. MaxSubmits  BY <1>1, ScheduleAssumption DEF ScInv, ScTyped, Submit
    <3>. QED  BY <1>1, <3>1 DEF ScInv, ScTyped, Submit
  <2>2. submits \in Nat /\ submits' = submits + 1  BY <1>1, ScheduleAssumption DEF ScInv, ScTyped, Submit
  <2>3. Calls(submits) \subseteq Calls(submits')  BY <2>2 DEF Calls
  <2>4. <<b, submits + 1>> \in Calls(submits') /\ <<b, submits + 1>> \notin Calls(submits)
    <3>1. submits + 1 \in 1 .. submits + 1 /\ submits + 1 \notin 1 .. submits  BY <2>2
    <3>. QED  BY <2>2, <3>1 DEF Calls
  <2>5. CallsAreOld'  BY <1>1, <2>3, <2>4 DEF ScInv, CallsAreOld, Submit
  <2>6. FailingIsStopping' /\ NeverStalls'
    BY <1>1 DEF ScInv, FailingIsStopping, NeverStalls, Submit
  <2>7. StopAnswersAll'  BY <1>1 DEF ScInv, StopAnswersAll, Submit
  <2>. QED  BY <2>1, <2>5, <2>6, <2>7 DEF ScInv
<1>2. ASSUME NEW c \in open, Cancel(c) PROVE ScInv'
  BY <1>2 DEF ScInv, ScTyped, CallsAreOld, FailingIsStopping, NeverStalls, StopAnswersAll, Cancel
<1>. QED  BY <1>1, <1>2

\* The responder begins a sweep; no stop is under way.
LEMMA SweepBeginsStep ==
    ASSUME ScInv, NEW b \in Bridges, SweepBegins(b)
    PROVE  ScInv'
<1>1. Nobody \notin Bridges  BY ScheduleAssumption DEF Nobody
<1>2. failing = {}  BY <1>1 DEF ScInv, FailingIsStopping, SweepBegins
<1>. QED  BY <1>2 DEF ScInv, ScTyped, CallsAreOld, FailingIsStopping, NeverStalls,
                      StopAnswersAll, SweepBegins, HostUnchanged, guestVars

\* A call submitted is a bridge and a number.
LEMMA CallTyped ==
    ASSUME ScInv, NEW c \in Calls(submits)
    PROVE  c \in Bridges \X Nat
<1>1. 1 .. submits \subseteq Nat  BY ScheduleAssumption DEF ScInv, ScTyped
<1>. QED  BY <1>1 DEF Calls

\* The sweep takes a call: abandoned, left with its handler, or answered at once.
LEMMA TakeStep ==
    ASSUME ScInv, NEW c \in posted, Take(c)
    PROVE  ScInv'
<1>1. /\ posted' = posted \ {c}
      /\ UNCHANGED <<policy, submits, signal, sweeping, serving, failing, given>>
  BY DEF Take, HostUnchanged
<1>2. c \in Calls(submits) /\ c \in Bridges \X Nat
  BY CallTyped DEF ScInv, CallsAreOld
<1>3. CASE UNCHANGED <<ready, seq, running, idle, guestVars>> /\ handling' \subseteq handling \cup {c}
  BY <1>1, <1>2, <1>3 DEF ScInv, ScTyped, CallsAreOld, FailingIsStopping, NeverStalls,
                      StopAnswersAll, guestVars
<1>4. CASE AnswerReady(c) /\ UNCHANGED handling
  <2>1. Delivered(ready)  BY <1>2, <1>4, AnswerReadyKeeps
  <2>2. open' \subseteq open /\ \A d \in open' : Holds(ready, d) => Holds(ready', d)
    BY <2>1 DEF Delivered
  <2>3. CallsAreOld' /\ FailingIsStopping'
    BY <1>1, <1>4, <2>2 DEF ScInv, CallsAreOld, FailingIsStopping
  <2>4. \A d \in open' : d[1] \notin serving' => d \in failing' \/ Holds(ready', d)
    BY <1>1, <2>2, StopIs
  <2>5. sweeping' \in Bridges \cup {Nobody} /\ serving' \subseteq Bridges
    BY <1>1 DEF ScInv, ScTyped
  <2>. QED  BY <1>1, <2>1, <2>3, <2>4, <2>5, DeliveredStep
<1>. QED  BY <1>3, <1>4 DEF Take

\* A handler finishes later, and its answer is ready.
LEMMA HandlerDoneStep ==
    ASSUME ScInv, NEW c \in handling, HandlerDone(c)
    PROVE  ScInv'
<1>1. /\ handling' = handling \ {c} /\ AnswerReady(c)
      /\ UNCHANGED <<policy, submits, signal, posted, sweeping, serving, failing, given>>
  BY DEF HandlerDone, HostUnchanged
<1>2. c \in Calls(submits) /\ c \in Bridges \X Nat
  BY CallTyped DEF ScInv, CallsAreOld
<1>3. Delivered(ready)  BY <1>1, <1>2, AnswerReadyKeeps
<1>4. open' \subseteq open /\ \A d \in open' : Holds(ready, d) => Holds(ready', d)
  BY <1>3 DEF Delivered
<1>5. CallsAreOld' /\ FailingIsStopping'
  BY <1>1, <1>4 DEF ScInv, CallsAreOld, FailingIsStopping
<1>6. \A d \in open' : d[1] \notin serving' => d \in failing' \/ Holds(ready', d)
  BY <1>1, <1>4, StopIs
<1>7. sweeping' \in Bridges \cup {Nobody} /\ serving' \subseteq Bridges
  BY <1>1 DEF ScInv, ScTyped
<1>. QED  BY <1>1, <1>3, <1>5, <1>6, <1>7, DeliveredStep

\* A sweep or a stop ends, and its bridge is quiet.
LEMMA QuietStep ==
    ASSUME ScInv, SweepEnds \/ StopEnds
    PROVE  ScInv'
<1>1. /\ Quiet(sweeping) /\ sweeping' = Nobody /\ failing = {}
      /\ UNCHANGED <<policy, submits, signal, posted, handling, seq, serving, failing, given>>
  BY DEF SweepEnds, StopEnds, HostUnchanged, ScInv, FailingIsStopping
<1>2. Delivered(ready)  BY <1>1, QuietKeeps
<1>3. open' \subseteq open /\ \A d \in open' : Holds(ready, d) => Holds(ready', d)
  BY <1>2 DEF Delivered
<1>4. CallsAreOld' /\ FailingIsStopping'
  BY <1>1, <1>3 DEF ScInv, CallsAreOld, FailingIsStopping
<1>5. \A d \in open' : d[1] \notin serving' => d \in failing' \/ Holds(ready', d)
  BY <1>1, <1>3, StopIs
<1>6. sweeping' \in Bridges \cup {Nobody} /\ serving' \subseteq Bridges
  BY <1>1 DEF ScInv, ScTyped
<1>. QED  BY <1>1, <1>2, <1>4, <1>5, <1>6, DeliveredStep

\* stop: every call of the bridge that is open is to be failed.
LEMMA StopStep ==
    ASSUME ScInv, NEW b \in Bridges, Stop(b)
    PROVE  ScInv'
<1>1. /\ serving' = serving \ {b} /\ sweeping' = b /\ failing' = {c \in open : c[1] = b}
      /\ posted' \subseteq posted
      /\ UNCHANGED <<policy, submits, handling, ready, seq, running, idle, open, overtaken>>
  BY DEF Stop, HostUnchanged, guestVars, Unanswered
<1>2. failing = {}
  BY ScheduleAssumption DEF ScInv, FailingIsStopping, Stop, Nobody
<1>3. ScTyped' /\ CallsAreOld' /\ FailingIsStopping' /\ NeverStalls'
  BY <1>1 DEF ScInv, ScTyped, CallsAreOld, FailingIsStopping, NeverStalls
<1>4. StopAnswersAll'  BY <1>1, <1>2 DEF ScInv, StopAnswersAll
<1>. QED  BY <1>3, <1>4 DEF ScInv

\* stop fails a call: through the scheduler, like any answer.
LEMMA FailPendingStep ==
    ASSUME ScInv, NEW c \in failing, FailPending(c)
    PROVE  ScInv'
<1>1. /\ failing' = failing \ {c} /\ AnswerReady(c)
      /\ UNCHANGED <<policy, submits, signal, posted, sweeping, serving, handling, given>>
  BY DEF FailPending, HostUnchanged
<1>2. c \in Calls(submits) /\ c \in Bridges \X Nat
  BY CallTyped DEF ScInv, CallsAreOld
<1>3. Delivered(ready) /\ (c \in open' => Holds(ready', c))  BY <1>1, <1>2, AnswerReadyKeeps
<1>4. open' \subseteq open /\ \A d \in open' : Holds(ready, d) => Holds(ready', d)
  BY <1>3 DEF Delivered
<1>5. CallsAreOld' /\ FailingIsStopping'
  BY <1>1, <1>4 DEF ScInv, CallsAreOld, FailingIsStopping
<1>6. \A d \in open' : d[1] \notin serving' => d \in failing' \/ Holds(ready', d)
  BY <1>1, <1>3, <1>4, StopIs
<1>7. sweeping' \in Bridges \cup {Nobody} /\ serving' \subseteq Bridges
  BY <1>1 DEF ScInv, ScTyped
<1>. QED  BY <1>1, <1>3, <1>5, <1>6, <1>7, DeliveredStep

\* The hurry-up timer takes the turn away, and the next answer goes out.
LEMMA IdleFiresStep ==
    ASSUME ScInv, IdleFires
    PROVE  ScInv'
<1>1. /\ Pump(ready, {}, FALSE)
      /\ UNCHANGED <<policy, submits, signal, posted, sweeping, handling, seq, serving, failing, given>>
  BY DEF IdleFires
<1>2. /\ ready \in Seq(Entries) /\ {} \subseteq Bridges /\ (\A e, d \in {} : e = d)
      /\ FALSE \in BOOLEAN /\ overtaken = FALSE /\ seq \in Nat
      /\ \A i \in 1 .. Len(ready) : ready[i].seq < seq
  BY DEF ScInv, ScTyped
<1>3. /\ ready' \in Seq(Entries) /\ \A i \in 1 .. Len(ready') : ready'[i].seq < seq
      /\ running' \subseteq Bridges /\ (\A e, d \in running' : e = d)
      /\ idle' \in BOOLEAN /\ overtaken' = FALSE
      /\ (ready' # <<>> => running' # {} /\ idle')
      /\ open' \subseteq open
      /\ \A d : d \in open' /\ Holds(ready, d) => Holds(ready', d)
  BY <1>1, <1>2, PumpKeeps
<1>4. Delivered(ready)  BY <1>1, <1>2, <1>3 DEF Delivered
<1>5. CallsAreOld' /\ FailingIsStopping'
  BY <1>1, <1>3 DEF ScInv, CallsAreOld, FailingIsStopping
<1>6. \A d \in open' : d[1] \notin serving' => d \in failing' \/ Holds(ready', d)
  BY <1>1, <1>3, StopIs
<1>7. sweeping' \in Bridges \cup {Nobody} /\ serving' \subseteq Bridges
  BY <1>1 DEF ScInv, ScTyped
<1>. QED  BY <1>1, <1>4, <1>5, <1>6, <1>7, DeliveredStep

\* Every step of the scheduler, its responders and its guests keeps the invariant.
LEMMA ScheduleStep == ASSUME ScInv, [ScNext]_sVars PROVE ScInv'
<1>1. CASE UNCHANGED sVars
  BY <1>1 DEF sVars, ScInv, ScTyped, CallsAreOld, FailingIsStopping, NeverStalls, StopAnswersAll
<1>. QED  BY <1>1, GuestStep, SweepBeginsStep, TakeStep, HandlerDoneStep, QuietStep, StopStep,
             FailPendingStep, IdleFiresStep DEF ScNext

\* The invariant says what SchedulerKeepsFaith does.
LEMMA KeepsFaith == ASSUME ScInv PROVE SchedulerKeepsFaith
<1>1. Cardinality(running) <= 1
  <2>1. CASE running = {}  BY <2>1, FS_EmptySet
  <2>2. CASE running # {}
    <3>1. PICK b : b \in running  BY <2>2
    <3>2. running = {b}  BY <3>1 DEF ScInv, ScTyped
    <3>3. Cardinality({b}) = 1  BY FS_Singleton
    <3>. QED  BY <3>2, <3>3
  <2>. QED  BY <2>1, <2>2
<1>2. DOMAIN ready = 1 .. Len(ready)  BY DEF ScInv, ScTyped
<1>3. ScTypeOK  BY <1>1, <1>2 DEF ScInv, ScTyped, CallsAreOld, ScTypeOK
<1>. QED  BY <1>3 DEF ScInv, ScTyped, SchedulerKeepsFaith, FifoKeepsOrder

\* For every policy, any number of bridges and of calls: while the scheduler holds an answer
\* somebody has a turn and the timer is armed, fifo answers in the order they became ready, and
\* no call of a stopped guest is left with nobody (#pump, ready, quiet of schedule.ts; stop of
\* respond.ts).
THEOREM SchedulerIsFaithful == ScSpec => []SchedulerKeepsFaith
<1>1. ScInit => ScInv  BY ScheduleInit
<1>2. ScInv /\ [ScNext]_sVars => ScInv'  BY ScheduleStep
<1>3. ScInv => SchedulerKeepsFaith  BY KeepsFaith
<1>. QED  BY <1>1, <1>2, <1>3, PTL DEF ScSpec

-----------------------------------------------------------------------------
(* Tickets (provider.ts) *)

\* Every reply a handler gives, of any shape.
AllReplies == {"value", "empty", "thrown", "refused", "end", "failed"}
\* What a slot of the ring can be.
SlotStates == [state : {"free", "pending", "ready", "cancelled"}, gen : 0 .. MaxGen,
               shape : Resolvers, reply : AllReplies]
\* The slot has a call somebody waits for.
Busy(s) == ring[s].state \in {"pending", "ready"}

\* The ring's slots; a generation in use is below the bound.
RingTyped ==
    /\ ring \in [Slot -> SlotStates]
    /\ \A s \in Slot : Busy(s) => ring[s].gen < MaxGen
    /\ \A s \in Slot : ring[s].state = "ready" => ring[s].reply \in Replies(ring[s].shape)

\* The ticket of the call a slot has now.
TicketOf(s) == [id |-> Pack(s, ring[s].gen), call |-> <<s, ring[s].gen>>, shape |-> ring[s].shape]

\* Every ticket is the one of the call its slot has now.
TicketsAreCurrent == \A t \in tickets : \E s \in Slot : Busy(s) /\ t = TicketOf(s)

\* A blocking call waits for the call its slot has now, and holds no ticket for it.
BlockedIsCurrent ==
    blocked # NoCall =>
        \E s \in Slot : Busy(s) /\ blocked = <<s, ring[s].gen>> /\ TicketOf(s) \notin tickets

\* A number that has been used was packed from a generation its slot has left.
SpentIsPast ==
    \A id \in spent : \E s \in Slot : \E g \in 0 .. MaxGen - 1 :
        id = Pack(s, g) /\ g < ring[s].gen

\* What the last step told the program is true.
ToldTruly == AnswerIsItsCalls /\ WaitAnyIsRight /\ FailureIsAnAnswer
             /\ told.value \in {"value", "end", "failed", "trap"} /\ alive \in BOOLEAN

\* The inductive invariant of a program's tickets.
TkInv == RingTyped /\ TicketsAreCurrent /\ BlockedIsCurrent /\ SpentIsPast /\ NoSlotForgotten /\ ToldTruly

-----------------------------------------------------------------------------
(* Packing *)

\* Division by the number of slots: a slot and a generation are got back.
LEMMA Quotient ==
    ASSUME NEW d \in Nat \ {0}, NEW s \in 0 .. d - 1, NEW g \in Nat
    PROVE  (s + d * g) % d = s /\ (s + d * g) \div d = g
<1> DEFINE n == s + d * g
           q == n \div d
           r == n % d
<1>0. d * g \in Nat  OBVIOUS
<1>1. n \in Nat  BY <1>0
<1> HIDE DEF n
<1>2. r \in 0 .. d - 1 /\ q \in Nat /\ n = r + d * q  BY <1>1
<1> HIDE DEF q, r
<1>3. ~(q < g)
  <2>1. SUFFICES ASSUME q < g PROVE FALSE  OBVIOUS
  <2>2. g - q - 1 \in Nat /\ d * (g - q - 1) \in Nat  BY <1>2, <2>1
  <2>3. d * (g - q - 1) = d * g - d * q - d  BY <1>2
  <2>4. d * q \in Int /\ d * g \in Int  BY <1>2
  <2>. QED  BY <1>2, <2>2, <2>3, <2>4 DEF n
<1>4. ~(g < q)
  <2>1. SUFFICES ASSUME g < q PROVE FALSE  OBVIOUS
  <2>2. q - g - 1 \in Nat /\ d * (q - g - 1) \in Nat  BY <1>2, <2>1
  <2>3. d * (q - g - 1) = d * q - d * g - d  BY <1>2
  <2>4. d * q \in Int /\ d * g \in Int  BY <1>2
  <2>. QED  BY <1>2, <2>2, <2>3, <2>4 DEF n
<1>5. q = g  BY <1>2, <1>3, <1>4
<1>6. d * g \in Int  OBVIOUS
<1>7. r = s  BY <1>2, <1>5, <1>6 DEF n
<1>. QED  BY <1>5, <1>7 DEF n, q, r

\* pack and unpack are inverse while no generation reaches the bits it has (provider.ts).
LEMMA PackUnpack ==
    ASSUME MaxGen <= 2 ^ GenBits, NEW s \in Slot, NEW g \in 0 .. MaxGen - 1
    PROVE  /\ Unpack(Pack(s, g)) = [slot |-> s, gen |-> g]
           /\ Pack(s, g) \in 0 .. SLOTS * 2 ^ GenBits - 1
<1> DEFINE p == 2 ^ GenBits
<1>1. p \in Nat \ {0} /\ SLOTS \in Nat \ {0} /\ MaxGen \in Nat /\ MaxGen <= p
  BY TicketsAssumption
<1> HIDE DEF p
<1>2. g \in Nat /\ g < p  BY <1>1
<1>3. g % p = g  BY <1>1, <1>2
<1>4. Pack(s, g) = s + SLOTS * g  BY <1>3 DEF Pack, p
<1>5. s \in 0 .. SLOTS - 1  BY DEF Slot
<1>6. (s + SLOTS * g) % SLOTS = s /\ (s + SLOTS * g) \div SLOTS = g
  BY <1>1, <1>2, <1>5, Quotient
<1>7. s + SLOTS * g \in 0 .. SLOTS * p - 1
  <2>1. p - g - 1 \in Nat /\ SLOTS * (p - g - 1) \in Nat /\ SLOTS * g \in Nat /\ SLOTS * p \in Int
    BY <1>1, <1>2
  <2>2. SLOTS * (p - g - 1) = SLOTS * p - SLOTS * g - SLOTS  BY <1>1, <1>2
  <2>. QED  BY <1>1, <1>5, <2>1, <2>2
<1>. QED  BY <1>4, <1>6, <1>7 DEF Unpack, p

\* The reading of a reply, for every shape of answer.
LEMMA DecodeReads ==
    ASSUME NEW shape \in Resolvers, NEW r \in Replies(shape)
    PROVE  /\ r \in AllReplies /\ r # "settled"
           /\ Decode(shape, r) \in {"value", "end", "failed", "trap"}
           /\ (shape \in {"ok", "file", "stat", "dir", "child", "read", "readNow", "change", "socket"}
                /\ r \in {"thrown", "refused", "failed"} => Decode(shape, r) = "failed")
           /\ (Decode(shape, r) = "trap" => shape \in {"bare", "maybe"})
<1> USE DEF Decode, Replies, AllReplies, Plain, Bare, Ok, FileResult, Stat, DirNames, MaybeBytes, Child,
            Captured, ReadOf, Read, ReadNow, Change, Socket
<1>1. CASE shape \in {"bare", "maybe"}  BY <1>1
<1>2. CASE shape \in {"ok", "file", "dir", "socket"}  BY <1>2
<1>3. CASE shape \in {"stat", "child", "change"}  BY <1>3
<1>4. CASE shape \in {"read", "readNow"}  BY <1>4
<1>5. CASE shape = "captured"  BY <1>5
<1>. QED  BY <1>1, <1>2, <1>3, <1>4, <1>5 DEF Resolvers

\* Nothing is said by a step that says nothing.
LEMMA SilentStep == ASSUME told' = Silence, alive' \in BOOLEAN PROVE ToldTruly'
BY DEF ToldTruly, AnswerIsItsCalls, WaitAnyIsRight, FailureIsAnAnswer, Silence

\* An answer of the right shape is told truly (the resolvers of provider.ts).
LEMMA TellStep ==
    ASSUME NEW shape \in Resolvers, NEW r \in Replies(shape), NEW call, Tell(call, call, shape, r)
    PROVE  ToldTruly'
BY DecodeReads DEF Tell, ToldTruly, AnswerIsItsCalls, WaitAnyIsRight, FailureIsAnAnswer

-----------------------------------------------------------------------------
\* A program that has called nothing.
LEMMA TicketsInit == ASSUME TkInit PROVE TkInv
<1>1. "bare" \in Resolvers /\ "value" \in AllReplies  BY DEF Resolvers, AllReplies
<1>2. 0 \in 0 .. MaxGen  BY TicketsAssumption
<1>3. Blank(0) \in SlotStates /\ Blank(0).state = "free"  BY <1>1, <1>2 DEF Blank, SlotStates
<1>4. RingTyped /\ NoSlotForgotten  BY <1>3 DEF TkInit, RingTyped, Busy, NoSlotForgotten
<1>5. ToldTruly
  BY DEF TkInit, ToldTruly, AnswerIsItsCalls, WaitAnyIsRight, FailureIsAnAnswer, Silence
<1>. QED  BY <1>4, <1>5 DEF TkInit, TkInv, TicketsAreCurrent, BlockedIsCurrent, SpentIsPast

\* claim and submit: the slot was free, so nobody's ticket is its.
LEMMA SubmitStep ==
    ASSUME TkInv, NEW shape \in Resolvers, NEW s \in Slot, Claim(s), blocked = NoCall,
           ring' = Submitted(s, shape), told' = Silence, UNCHANGED <<spent, alive>>,
           \/ /\ tickets' = tickets \cup {[id |-> Pack(s, ring[s].gen), call |-> <<s, ring[s].gen>>,
                                           shape |-> shape]}
              /\ blocked' = blocked
           \/ tickets' = tickets /\ blocked' = <<s, ring[s].gen>>
    PROVE  TkInv'
<1>1. ring \in [Slot -> SlotStates] /\ ring[s] \in SlotStates  BY DEF TkInv, RingTyped
<1>2. ring[s].state = "free" /\ ring[s].gen < MaxGen  BY DEF Claim, Free
<1>3. /\ ring'[s] = [ring[s] EXCEPT !.state = "pending", !.shape = shape]
      /\ \A u \in Slot : u # s => ring'[u] = ring[u]
      /\ ring' = [ring EXCEPT ![s] = [ring[s] EXCEPT !.state = "pending", !.shape = shape]]
  BY <1>1 DEF Submitted
<1>4. /\ ring'[s] \in SlotStates /\ ring'[s].state = "pending" /\ ring'[s].shape = shape
      /\ ring'[s].gen = ring[s].gen
  BY <1>1, <1>3 DEF SlotStates
<1>5. RingTyped'  BY <1>1, <1>2, <1>3, <1>4 DEF TkInv, RingTyped, Busy
<1>6. \A u \in Slot : u # s => TicketOf(u)' = TicketOf(u) /\ Busy(u)' = Busy(u)
  BY <1>3 DEF TicketOf, Busy
<1>7. ~Busy(s) /\ Busy(s)'  BY <1>2, <1>4 DEF Busy
<1>8. TicketOf(s)' = [id |-> Pack(s, ring[s].gen), call |-> <<s, ring[s].gen>>, shape |-> shape]
  BY <1>4 DEF TicketOf
<1>9. TicketsAreCurrent'
  BY <1>6, <1>7, <1>8 DEF TkInv, TicketsAreCurrent
<1>10. TicketOf(s)' \notin tickets
  <2>1. SUFFICES ASSUME NEW u \in Slot, Busy(u), TicketOf(s)' = TicketOf(u) PROVE FALSE
    BY DEF TkInv, TicketsAreCurrent
  <2>2. <<s, ring[s].gen>> = <<u, ring[u].gen>>  BY <1>8, <2>1 DEF TicketOf
  <2>. QED  BY <1>7, <2>1, <2>2
<1>11. BlockedIsCurrent'
  <2>1. CASE blocked' = NoCall  BY <2>1 DEF BlockedIsCurrent
  <2>2. CASE tickets' = tickets /\ blocked' = <<s, ring[s].gen>>
    BY <2>2, <1>4, <1>7, <1>10 DEF BlockedIsCurrent
  <2>. QED  BY <2>1, <2>2
<1>12. SpentIsPast'
  <2>1. \A u \in Slot : ring'[u].gen = ring[u].gen  BY <1>3, <1>4
  <2>. QED  BY <2>1 DEF TkInv, SpentIsPast
<1>13. NoSlotForgotten'
  <2>1. SUFFICES ASSUME NEW u \in Slot, Busy(u)'
                 PROVE  <<u, ring'[u].gen>> = blocked' \/ \E t \in tickets' : t.call = <<u, ring'[u].gen>>
    BY DEF NoSlotForgotten, Busy
  <2>2. CASE u = s
    <3>1. TicketOf(s)'.call = <<s, ring'[s].gen>>  BY <1>4, <1>8
    <3>2. TicketOf(s)' \in tickets' \/ <<s, ring'[s].gen>> = blocked'  BY <1>4, <1>8
    <3>. QED  BY <2>2, <3>1, <3>2
  <2>3. CASE u # s
    <3>1. Busy(u) /\ ring'[u].gen = ring[u].gen  BY <1>3, <1>6, <2>1, <2>3
    <3>2. <<u, ring[u].gen>> # NoCall  BY TicketsAssumption DEF NoCall, Slot
    <3>3. \E t \in tickets : t.call = <<u, ring[u].gen>>
      BY <3>1, <3>2 DEF TkInv, NoSlotForgotten, Busy
    <3>. QED  BY <3>1, <3>3
  <2>. QED  BY <2>2, <2>3
<1>14. ToldTruly'  BY SilentStep DEF TkInv, ToldTruly
<1>. QED  BY <1>5, <1>9, <1>11, <1>12, <1>13, <1>14 DEF TkInv
\* The part of it that is about the ring and who holds its calls.
Ring == RingTyped /\ TicketsAreCurrent /\ BlockedIsCurrent /\ SpentIsPast /\ NoSlotForgotten

\* A call ends: the slot's generation moves on, and whoever held the call lets go of it.
LEMMA ReleaseStep ==
    ASSUME TkInv, NEW s \in Slot, Busy(s), NEW e \in SlotStates,
           ring' = [ring EXCEPT ![s] = e],
           e.gen = ring[s].gen + 1, e.state \in {"free", "cancelled"},
           \/ /\ TicketOf(s) \in tickets /\ tickets' = tickets \ {TicketOf(s)}
              /\ spent' = spent \cup {TicketOf(s).id} /\ blocked = NoCall /\ blocked' = NoCall
           \/ /\ blocked = <<s, ring[s].gen>> /\ blocked' = NoCall
              /\ tickets' = tickets /\ spent' = spent
    PROVE  Ring'
<1>1. ring \in [Slot -> SlotStates] /\ ring[s] \in SlotStates /\ ring[s].gen < MaxGen
  BY DEF TkInv, RingTyped
<1>2. ring'[s] = e /\ \A u \in Slot : u # s => ring'[u] = ring[u]  BY <1>1
<1>3. RingTyped'  BY <1>1, <1>2 DEF TkInv, RingTyped, Busy
<1>4. \A u \in Slot : u # s => TicketOf(u)' = TicketOf(u) /\ Busy(u)' = Busy(u)
  BY <1>2 DEF TicketOf, Busy
<1>5. ~Busy(s)'  BY <1>2 DEF Busy
<1>6. TicketOf(s) \notin tickets'
  <2>1. CASE tickets' = tickets \ {TicketOf(s)}  BY <2>1
  <2>2. CASE blocked = <<s, ring[s].gen>> /\ tickets' = tickets
    <3>1. blocked # NoCall  BY <2>2, TicketsAssumption DEF NoCall, Slot
    <3>2. PICK u \in Slot : blocked = <<u, ring[u].gen>> /\ TicketOf(u) \notin tickets
      BY <3>1 DEF TkInv, BlockedIsCurrent
    <3>3. u = s  BY <2>2, <3>2
    <3>. QED  BY <2>2, <3>2, <3>3
  <2>. QED  BY <2>1, <2>2
<1>7. TicketsAreCurrent'
  <2>1. SUFFICES ASSUME NEW t \in tickets' PROVE \E u \in Slot : Busy(u)' /\ t = TicketOf(u)'
    BY DEF TicketsAreCurrent
  <2>2. t \in tickets  OBVIOUS
  <2>3. PICK u \in Slot : Busy(u) /\ t = TicketOf(u)  BY <2>2 DEF TkInv, TicketsAreCurrent
  <2>4. u # s  BY <1>6, <2>1, <2>3
  <2>. QED  BY <1>4, <2>3, <2>4
<1>8. BlockedIsCurrent'  BY DEF BlockedIsCurrent
<1>9. SpentIsPast'
  <2>1. \A u \in Slot : ring[u].gen \in Nat /\ ring'[u].gen \in Nat /\ ring[u].gen <= ring'[u].gen
    <3>1. \A u \in Slot : ring[u] \in SlotStates /\ ring'[u] \in SlotStates  BY <1>1, <1>2
    <3>2. \A u \in Slot : ring[u].gen \in Nat /\ ring'[u].gen \in Nat
      BY <3>1, TicketsAssumption DEF SlotStates
    <3>. QED  BY <1>2, <3>2
  <2>2. SUFFICES ASSUME NEW id \in spent'
                 PROVE  \E u \in Slot : \E g \in 0 .. MaxGen - 1 : id = Pack(u, g) /\ g < ring'[u].gen
    BY DEF SpentIsPast
  <2>3. CASE id \in spent
    <3>1. PICK u \in Slot : \E g \in 0 .. MaxGen - 1 : id = Pack(u, g) /\ g < ring[u].gen
      BY <2>3 DEF TkInv, SpentIsPast
    <3>2. PICK g \in 0 .. MaxGen - 1 : id = Pack(u, g) /\ g < ring[u].gen  BY <3>1
    <3>3. g < ring'[u].gen  BY <2>1, <3>2
    <3>. QED  BY <3>2, <3>3
  <2>4. CASE id = TicketOf(s).id
    <3>1. id = Pack(s, ring[s].gen)  BY <2>4 DEF TicketOf
    <3>2. ring[s].gen \in 0 .. MaxGen - 1  BY <1>1, <2>1, TicketsAssumption
    <3>3. ring[s].gen < ring'[s].gen  BY <1>2, <2>1
    <3>. QED  BY <3>1, <3>2, <3>3
  <2>. QED  BY <2>3, <2>4
<1>10. NoSlotForgotten'
  <2>1. SUFFICES ASSUME NEW u \in Slot, Busy(u)'
                 PROVE  \E t \in tickets' : t.call = <<u, ring'[u].gen>>
    BY DEF NoSlotForgotten, Busy
  <2>2. u # s  BY <1>5, <2>1
  <2>3. Busy(u) /\ ring'[u].gen = ring[u].gen  BY <1>2, <1>4, <2>1, <2>2
  <2>4. <<u, ring[u].gen>> # NoCall  BY TicketsAssumption DEF NoCall, Slot
  <2>5. <<u, ring[u].gen>> # blocked
    BY <2>2, <2>4
  <2>6. PICK t \in tickets : t.call = <<u, ring[u].gen>>
    BY <2>3, <2>5 DEF TkInv, NoSlotForgotten, Busy
  <2>7. t # TicketOf(s)  BY <2>2, <2>6 DEF TicketOf
  <2>. QED  BY <2>3, <2>6, <2>7
<1>. QED  BY <1>3, <1>7, <1>8, <1>9, <1>10 DEF Ring

\* The program hears nothing of what it has no ticket for: a number used again is expired.
LEMMA SpentIsExpired ==
    ASSUME MaxGen <= 2 ^ GenBits, TkInv, NEW id \in spent
    PROVE  ~Current(Unpack(id))
<1>1. PICK s \in Slot : \E g \in 0 .. MaxGen - 1 : id = Pack(s, g) /\ g < ring[s].gen
  BY DEF TkInv, SpentIsPast
<1>2. PICK g \in 0 .. MaxGen - 1 : id = Pack(s, g) /\ g < ring[s].gen  BY <1>1
<1>3. Unpack(id) = [slot |-> s, gen |-> g]  BY <1>2, PackUnpack
<1>4. ring[s] \in SlotStates  BY DEF TkInv, RingTyped
<1>5. ring[s].gen \in Nat  BY <1>4, TicketsAssumption DEF SlotStates
<1>. QED  BY <1>2, <1>3, <1>5 DEF Current

\* A ticket held finds the slot of its call.
LEMMA TicketFinds ==
    ASSUME MaxGen <= 2 ^ GenBits, TkInv, NEW t \in tickets
    PROVE  \E s \in Slot :
             /\ Busy(s) /\ t = TicketOf(s) /\ Unpack(t.id) = [slot |-> s, gen |-> ring[s].gen]
             /\ t.id \in 0 .. SLOTS * 2 ^ GenBits - 1 /\ ring[s] \in SlotStates
<1>1. PICK s \in Slot : Busy(s) /\ t = TicketOf(s)  BY DEF TkInv, TicketsAreCurrent
<1>2. ring[s] \in SlotStates /\ ring[s].gen < MaxGen  BY <1>1 DEF TkInv, RingTyped
<1>3. ring[s].gen \in 0 .. MaxGen - 1  BY <1>2, TicketsAssumption DEF SlotStates
<1>4. t.id = Pack(s, ring[s].gen)  BY <1>1 DEF TicketOf
<1>. QED  BY <1>1, <1>2, <1>3, <1>4, PackUnpack

\* The entry a freed slot is given.
LEMMA BlankTyped ==
    ASSUME NEW g \in 0 .. MaxGen
    PROVE  Blank(g) \in SlotStates /\ Blank(g).state = "free" /\ Blank(g).gen = g
BY DEF Blank, SlotStates, Resolvers, AllReplies

\* The host: an answer lands, or a cancelled slot is freed.
LEMMA HostStep ==
    ASSUME TkInv, NEW s \in Slot, HostAnswers(s) \/ HostFrees(s)
    PROVE  TkInv'
<1>1. ring \in [Slot -> SlotStates] /\ ring[s] \in SlotStates  BY DEF TkInv, RingTyped
<1>2. /\ told' = Silence /\ UNCHANGED <<tickets, spent, blocked, alive>>
  BY DEF HostAnswers, HostFrees
<1>3. ToldTruly'  BY <1>2, SilentStep DEF TkInv, ToldTruly
<1>4. CASE HostAnswers(s)
  <2>1. PICK r \in Replies(ring[s].shape) :
          ring' = [ring EXCEPT ![s].state = "ready", ![s].reply = r]
    BY <1>4 DEF HostAnswers
  <2>2. ring[s].state = "pending"  BY <1>4 DEF HostAnswers
  <2>3. ring[s].shape \in Resolvers  BY <1>1 DEF SlotStates
  <2>4. r \in AllReplies  BY <2>3, DecodeReads
  <2>5. /\ ring'[s] = [ring[s] EXCEPT !.state = "ready", !.reply = r]
        /\ \A u \in Slot : u # s => ring'[u] = ring[u]
        /\ ring' = [ring EXCEPT ![s] = [ring[s] EXCEPT !.state = "ready", !.reply = r]]
    BY <1>1, <2>1
  <2>6. /\ ring'[s] \in SlotStates /\ ring'[s].state = "ready" /\ ring'[s].reply = r
        /\ ring'[s].shape = ring[s].shape /\ ring'[s].gen = ring[s].gen
    BY <1>1, <2>4, <2>5 DEF SlotStates
  <2>7. \A u \in Slot : /\ TicketOf(u)' = TicketOf(u) /\ Busy(u)' = Busy(u)
                        /\ ring'[u].gen = ring[u].gen
    BY <2>2, <2>5, <2>6 DEF TicketOf, Busy
  <2>8. RingTyped'  BY <1>1, <2>1, <2>2, <2>5, <2>6 DEF TkInv, RingTyped, Busy
  <2>9. TicketsAreCurrent' /\ BlockedIsCurrent' /\ SpentIsPast'
    BY <1>2, <2>7 DEF TkInv, TicketsAreCurrent, BlockedIsCurrent, SpentIsPast
  <2>10. NoSlotForgotten'
    BY <1>2, <2>7 DEF TkInv, NoSlotForgotten, Busy
  <2>. QED  BY <1>3, <2>8, <2>9, <2>10 DEF TkInv
<1>5. CASE HostFrees(s)
  <2>1. ring[s].state = "cancelled" /\ ring' = [ring EXCEPT ![s] = Blank(ring[s].gen)]
    BY <1>5 DEF HostFrees
  <2>2. ring[s].gen \in 0 .. MaxGen  BY <1>1 DEF SlotStates
  <2>3. /\ ring'[s] \in SlotStates /\ ring'[s].state = "free" /\ ring'[s].gen = ring[s].gen
        /\ \A u \in Slot : u # s => ring'[u] = ring[u]
    BY <1>1, <2>1, <2>2, BlankTyped
  <2>4. ~Busy(s) /\ ~Busy(s)'  BY <2>1, <2>3 DEF Busy
  <2>5. \A u \in Slot : u # s => TicketOf(u)' = TicketOf(u) /\ Busy(u)' = Busy(u)
    BY <2>3 DEF TicketOf, Busy
  <2>6. RingTyped'  BY <1>1, <2>1, <2>2, <2>3, BlankTyped DEF TkInv, RingTyped, Busy
  <2>7. TicketsAreCurrent'  BY <1>2, <2>4, <2>5 DEF TkInv, TicketsAreCurrent
  <2>8. BlockedIsCurrent'
    <3>1. SUFFICES ASSUME blocked # NoCall
                   PROVE  \E u \in Slot : Busy(u)' /\ blocked = <<u, ring'[u].gen>>
                                          /\ TicketOf(u)' \notin tickets
      BY <1>2 DEF BlockedIsCurrent
    <3>2. PICK u \in Slot : Busy(u) /\ blocked = <<u, ring[u].gen>> /\ TicketOf(u) \notin tickets
      BY <3>1 DEF TkInv, BlockedIsCurrent
    <3>3. u # s  BY <2>4, <3>2
    <3>. QED  BY <2>3, <2>5, <3>2, <3>3
  <2>9. SpentIsPast'
    <3>1. \A u \in Slot : ring'[u].gen = ring[u].gen  BY <2>3
    <3>. QED  BY <1>2, <3>1 DEF TkInv, SpentIsPast
  <2>10. NoSlotForgotten'
    <3>1. SUFFICES ASSUME NEW u \in Slot, Busy(u)'
                   PROVE  <<u, ring'[u].gen>> = blocked \/ \E t \in tickets : t.call = <<u, ring'[u].gen>>
      BY <1>2 DEF NoSlotForgotten, Busy
    <3>2. u # s  BY <2>4, <3>1
    <3>3. Busy(u) /\ ring'[u].gen = ring[u].gen  BY <2>3, <2>5, <3>1, <3>2
    <3>. QED  BY <3>3 DEF TkInv, NoSlotForgotten, Busy
  <2>. QED  BY <1>3, <2>6, <2>7, <2>8, <2>9, <2>10 DEF TkInv
<1>. QED  BY <1>4, <1>5

\* A step that leaves the ring and its holders alone and says what is true.
LEMMA StillStep ==
    ASSUME TkInv, UNCHANGED <<ring, tickets, spent, blocked>>, ToldTruly'
    PROVE  TkInv'
<1>1. Ring'
  BY DEF TkInv, Ring, RingTyped, TicketsAreCurrent, BlockedIsCurrent, SpentIsPast, NoSlotForgotten,
         Busy, TicketOf
<1>. QED  BY <1>1 DEF Ring, TkInv

\* A resolver: its ticket finds the slot of its call, and the answer is that call's.
LEMMA ResolveStep ==
    ASSUME MaxGen <= 2 ^ GenBits, TkInv, NEW t \in tickets, Resolve(t)
    PROVE  TkInv'
<1>1. PICK s \in Slot :
        /\ Busy(s) /\ t = TicketOf(s) /\ Unpack(t.id) = [slot |-> s, gen |-> ring[s].gen]
        /\ ring[s] \in SlotStates
  BY TicketFinds
<1>2. Current(Unpack(t.id))  BY <1>1 DEF Current
<1>3. /\ HasAnswer(s) /\ ring' = FreeSlot(s)
      /\ Tell(t.call, <<s, ring[s].gen>>, t.shape, ring[s].reply)
      /\ blocked = NoCall /\ blocked' = blocked
      /\ tickets' = tickets \ {t} /\ spent' = spent \cup {t.id}
  BY <1>1, <1>2 DEF Resolve, Idle
<1>4. t.call = <<s, ring[s].gen>> /\ t.shape = ring[s].shape  BY <1>1 DEF TicketOf
<1>5. ring[s].shape \in Resolvers /\ ring[s].reply \in Replies(ring[s].shape)
  BY <1>1, <1>3 DEF TkInv, RingTyped, HasAnswer, SlotStates
<1>6. ToldTruly'  BY <1>3, <1>4, <1>5, TellStep
<1>7. ring[s].gen + 1 \in 0 .. MaxGen
  BY <1>1, TicketsAssumption DEF TkInv, RingTyped, SlotStates
<1>8. /\ Blank(ring[s].gen + 1) \in SlotStates /\ Blank(ring[s].gen + 1).state = "free"
      /\ Blank(ring[s].gen + 1).gen = ring[s].gen + 1
  BY <1>7, BlankTyped
<1>9. ring' = [ring EXCEPT ![s] = Blank(ring[s].gen + 1)]  BY <1>3 DEF FreeSlot
<1>10. Ring'  BY <1>1, <1>3, <1>8, <1>9, ReleaseStep
<1>. QED  BY <1>6, <1>10 DEF Ring, TkInv

\* A blocking capability collects: it has the ticket itself.
LEMMA CollectStep ==
    ASSUME TkInv, Collect
    PROVE  TkInv'
<1>1. PICK s \in Slot : Busy(s) /\ blocked = <<s, ring[s].gen>>
  BY DEF TkInv, BlockedIsCurrent, Collect
<1>2. /\ HasAnswer(s) /\ ring' = FreeSlot(s)
      /\ Tell(blocked, blocked, ring[s].shape, ring[s].reply)
      /\ blocked' = NoCall /\ tickets' = tickets /\ spent' = spent
  BY <1>1 DEF Collect
<1>3. ring[s] \in SlotStates  BY DEF TkInv, RingTyped
<1>4. ring[s].shape \in Resolvers /\ ring[s].reply \in Replies(ring[s].shape)
  BY <1>2, <1>3 DEF TkInv, RingTyped, HasAnswer, SlotStates
<1>5. ToldTruly'  BY <1>2, <1>4, TellStep
<1>6. ring[s].gen + 1 \in 0 .. MaxGen
  BY <1>1, <1>3, TicketsAssumption DEF TkInv, RingTyped, SlotStates
<1>7. /\ Blank(ring[s].gen + 1) \in SlotStates /\ Blank(ring[s].gen + 1).state = "free"
      /\ Blank(ring[s].gen + 1).gen = ring[s].gen + 1
  BY <1>6, BlankTyped
<1>8. ring' = [ring EXCEPT ![s] = Blank(ring[s].gen + 1)]  BY <1>2 DEF FreeSlot
<1>9. Ring'  BY <1>1, <1>2, <1>7, <1>8, ReleaseStep
<1>. QED  BY <1>5, <1>9 DEF Ring, TkInv

\* drop: the slot of the call is freed, or cancelled for the host to free.
LEMMA DropStep ==
    ASSUME MaxGen <= 2 ^ GenBits, TkInv, NEW t \in tickets, Drop(t)
    PROVE  TkInv'
<1>1. PICK s \in Slot :
        /\ Busy(s) /\ t = TicketOf(s) /\ Unpack(t.id) = [slot |-> s, gen |-> ring[s].gen]
        /\ ring[s] \in SlotStates
  BY TicketFinds
<1>2. /\ ring' = Cancelled(Unpack(t.id)) /\ tickets' = tickets \ {t} /\ spent' = spent \cup {t.id}
      /\ told' = Silence /\ blocked = NoCall /\ UNCHANGED <<blocked, alive>>
  BY DEF Drop, Idle
<1>3. ToldTruly'  BY <1>2, SilentStep DEF TkInv, ToldTruly
<1>4. ring[s].gen + 1 \in 0 .. MaxGen
  BY <1>1, TicketsAssumption DEF TkInv, RingTyped, SlotStates
<1>5. ring \in [Slot -> SlotStates]  BY DEF TkInv, RingTyped
<1> DEFINE e == IF HasAnswer(s) THEN Blank(ring[s].gen + 1)
                ELSE [ring[s] EXCEPT !.gen = @ + 1, !.state = "cancelled"]
<1>6. e \in SlotStates /\ e.gen = ring[s].gen + 1 /\ e.state \in {"free", "cancelled"}
  <2>1. CASE HasAnswer(s)  BY <1>4, <2>1, BlankTyped
  <2>2. CASE ~HasAnswer(s)  BY <1>1, <1>4, <2>2 DEF SlotStates
  <2>. QED  BY <2>1, <2>2
<1>7. ring' = [ring EXCEPT ![s] = e]
  <2>1. Current(Unpack(t.id)) /\ Unpack(t.id).slot = s  BY <1>1 DEF Current
  <2>. QED  BY <1>2, <1>5, <2>1 DEF Cancelled, FreeSlot
<1> HIDE DEF e
<1>8. Ring'  BY <1>1, <1>2, <1>6, <1>7, ReleaseStep
<1>. QED  BY <1>3, <1>8 DEF Ring, TkInv

\* waitAny: a ticket held is settled only by its answer.
LEMMA WaitAnyStep ==
    ASSUME MaxGen <= 2 ^ GenBits, TkInv, NEW t \in tickets, WaitAny(t)
    PROVE  TkInv'
<1>1. PICK s \in Slot :
        /\ Busy(s) /\ t = TicketOf(s) /\ Unpack(t.id) = [slot |-> s, gen |-> ring[s].gen]
  BY TicketFinds
<1>2. HasAnswer(s)  BY <1>1 DEF WaitAny, Settled, Current
<1>3. t.call = <<s, ring[s].gen>>  BY <1>1 DEF TicketOf
<1>4. /\ told' = [Silence EXCEPT !.from = t.call, !.reply = "settled"]
      /\ UNCHANGED <<ring, tickets, spent, blocked, alive>>
  BY DEF WaitAny
<1>5. ToldTruly'
  BY <1>2, <1>3, <1>4 DEF TkInv, ToldTruly, AnswerIsItsCalls, WaitAnyIsRight, FailureIsAnAnswer, Silence,
                          HasAnswer
<1>. QED  BY <1>4, <1>5, StillStep

\* A number used again is expired: it resolves nothing and cancels nothing.
LEMMA UsedAgainStep ==
    ASSUME MaxGen <= 2 ^ GenBits, TkInv, NEW id \in spent, Reuse(id) \/ DropAgain(id)
    PROVE  TkInv'
<1>1. ~Current(Unpack(id))  BY SpentIsExpired
<1>2. /\ ring' = ring /\ told' = Silence /\ UNCHANGED <<tickets, spent, blocked, alive>>
  BY <1>1 DEF Reuse, DropAgain, Cancelled
<1>3. ToldTruly'  BY <1>2, SilentStep DEF TkInv, ToldTruly
<1>. QED  BY <1>2, <1>3, StillStep

\* Every slot holds an answer nobody takes: an error, and nothing moves.
LEMMA RingFullStep == ASSUME TkInv, RingFull PROVE TkInv'
<1>1. ToldTruly'  BY SilentStep DEF RingFull
<1>. QED  BY <1>1, StillStep DEF RingFull

\* Every capability claims a free slot, with a ticket or blocking.
LEMMA CallStep ==
    ASSUME TkInv, NEW shape \in Resolvers, Ticketed(shape) \/ Blocking(shape)
    PROVE  TkInv'
<1>1. CASE Ticketed(shape)
  <2>1. PICK s \in Slot :
          /\ Idle /\ Claim(s) /\ ring' = Submitted(s, shape)
          /\ tickets' = tickets \cup {[id |-> Pack(s, ring[s].gen), call |-> <<s, ring[s].gen>>,
                                       shape |-> shape]}
          /\ told' = Silence /\ UNCHANGED <<spent, blocked, alive>>
    BY <1>1 DEF Ticketed
  <2>2. blocked = NoCall  BY <2>1 DEF Idle
  <2>. QED  BY <2>1, <2>2, SubmitStep
<1>2. CASE Blocking(shape)
  <2>1. PICK s \in Slot :
          /\ Idle /\ Claim(s) /\ ring' = Submitted(s, shape)
          /\ blocked' = <<s, ring[s].gen>>
          /\ told' = Silence /\ UNCHANGED <<tickets, spent, alive>>
    BY <1>2 DEF Blocking
  <2>2. blocked = NoCall  BY <2>1 DEF Idle
  <2>. QED  BY <2>1, <2>2, SubmitStep
<1>. QED  BY <1>1, <1>2

\* Every step of the program and of the host keeps the invariant.
LEMMA TicketsStep ==
    ASSUME MaxGen <= 2 ^ GenBits, TkInv, [TkNext]_tVars
    PROVE  TkInv'
<1>1. CASE UNCHANGED tVars
  <2>1. ToldTruly'
    BY <1>1 DEF tVars, TkInv, ToldTruly, AnswerIsItsCalls, WaitAnyIsRight, FailureIsAnAnswer, HasAnswer
  <2>. QED  BY <1>1, <2>1, StillStep DEF tVars
<1>2. CASE CoreCall \/ Log \/ CliArgs \/ CliWrite \/ CliFiles \/ CliStreams \/ CliNet
           \/ CliSpawn \/ CliChildren \/ PageCall
  <2>1. {"bare", "ok", "file", "stat", "dir", "maybe", "child", "captured", "read", "readNow",
         "change", "socket"} \subseteq Resolvers
    BY DEF Resolvers
  <2>. QED  BY <1>2, <2>1, CallStep DEF CoreCall, Log, CliArgs, CliWrite, CliFiles, CliStreams, CliNet,
                                   CliSpawn, CliChildren, PageCall
<1>. QED  BY <1>1, <1>2, RingFullStep, CollectStep, HostStep, ResolveStep, DropStep, WaitAnyStep,
             UsedAgainStep DEF TkNext

\* Under the bound, what the provider tells a program is true.
LEMMA TicketsTruth ==
    ASSUME MaxGen <= 2 ^ GenBits, TkInv
    PROVE  TicketsTellTheTruth /\ TicketFindsItsCall
<1>1. \A t \in tickets : \E s \in Slot :
        /\ Busy(s) /\ t = TicketOf(s) /\ Unpack(t.id) = [slot |-> s, gen |-> ring[s].gen]
        /\ t.id \in 0 .. SLOTS * 2 ^ GenBits - 1 /\ ring[s] \in SlotStates
  BY TicketFinds
<1>2. \A t \in tickets : t.shape \in Resolvers /\ t.id \in 0 .. SLOTS * 2 ^ GenBits - 1
  <2>1. SUFFICES ASSUME NEW t \in tickets
                 PROVE  t.shape \in Resolvers /\ t.id \in 0 .. SLOTS * 2 ^ GenBits - 1
    OBVIOUS
  <2>2. PICK s \in Slot : /\ t = TicketOf(s) /\ t.id \in 0 .. SLOTS * 2 ^ GenBits - 1
                          /\ ring[s] \in SlotStates
    BY <1>1
  <2>3. t.shape = ring[s].shape  BY <2>2 DEF TicketOf
  <2>. QED  BY <2>2, <2>3 DEF SlotStates
<1>3. \A s \in Slot : ring[s] \in SlotStates  BY DEF TkInv, RingTyped
<1>4. TkTypeOK  BY <1>2, <1>3 DEF TkInv, RingTyped, ToldTruly, TkTypeOK, SlotStates
<1>5. TicketFindsItsCall
  <2>1. SUFFICES ASSUME NEW t \in tickets
                 PROVE  /\ Unpack(t.id) = [slot |-> t.call[1], gen |-> t.call[2]]
                        /\ Current(Unpack(t.id)) /\ ring[t.call[1]].shape = t.shape
    BY DEF TicketFindsItsCall
  <2>2. PICK s \in Slot : t = TicketOf(s) /\ Unpack(t.id) = [slot |-> s, gen |-> ring[s].gen]
    BY <1>1
  <2>3. t.call = <<s, ring[s].gen>> /\ t.shape = ring[s].shape  BY <2>2 DEF TicketOf
  <2>. QED  BY <2>2, <2>3 DEF Current
<1>. QED  BY <1>4, <1>5 DEF TkInv, ToldTruly, TicketsTellTheTruth

\* For any number of slots: as long as no slot's generation outgrows the bits a ticket has for
\* it, an answer is its own call's, a failure is an answer and no trap, settled means settled and
\* no slot is forgotten (provider.ts).  TicketsWrap shows what happens beyond that bound.
THEOREM TicketsAreTrue ==
    ASSUME MaxGen <= 2 ^ GenBits
    PROVE  TkSpec => []TicketsTellTheTruth
<1>1. TkInit => TkInv  BY TicketsInit
<1>2. TkInv /\ [TkNext]_tVars => TkInv'  BY TicketsStep
<1>3. TkInv => TicketsTellTheTruth  BY TicketsTruth
<1>. QED  BY <1>1, <1>2, <1>3, PTL DEF TkSpec

\* Under the same bound a ticket that is held unpacks to the slot and the generation of its call
\* (pack, unpack of provider.ts).
THEOREM TicketsAreFound ==
    ASSUME MaxGen <= 2 ^ GenBits
    PROVE  TkSpec => []TicketFindsItsCall
<1>1. TkInit => TkInv  BY TicketsInit
<1>2. TkInv /\ [TkNext]_tVars => TkInv'  BY TicketsStep
<1>3. TkInv => TicketFindsItsCall  BY TicketsTruth
<1>. QED  BY <1>1, <1>2, <1>3, PTL DEF TkSpec

-----------------------------------------------------------------------------
(* The page (entryBrowser.ts) *)

\* The types; a kind somebody asked for has its listener.
PageTyped ==
    /\ selectors \in [Kinds -> 0 .. 2] /\ listeners \in [Kinds -> 0 .. 1]
    /\ \A k \in Kinds : listeners[k] = 0 => selectors[k] = 0
    /\ acts \in 0 .. MaxActs /\ asks \in 0 .. MaxAsks
    /\ waiting \in 0 .. asks /\ wantsFile \in 0 .. asks
    /\ asked \in [Ask -> {"no", "event", "file", "cancelled", "answered"}]
    /\ queue \in Seq(Nat) /\ picked \in Seq(Nat) /\ heard \in Seq(Nat) /\ got \in Seq(Nat)
    /\ Elements(queue) \cup Elements(picked) \cup reading \subseteq 1 .. acts
    /\ gaveUp \in BOOLEAN

\* A sequence that goes up.
Rising(s) == \A i, j \in 1 .. Len(s) : i < j => s[i] < s[j]
\* A sequence of different things.
Apart(s) == \A i, j \in 1 .. Len(s) : i # j => s[i] # s[j]

\* What was heard came before what is queued.
EventsInOrder ==
    /\ Rising(heard) /\ Rising(queue)
    /\ \A a \in Elements(heard) : a <= acts /\ \A z \in Elements(queue) : a < z

\* A file is being read, picked or got: one of them, once.
FilesOnce ==
    /\ Apart(got) /\ Apart(picked)
    /\ Elements(got) \cap Elements(picked) = {}
    /\ reading \cap (Elements(got) \cup Elements(picked)) = {}
    /\ Elements(got) \subseteq 1 .. acts

\* A cancelled ticket is one the program gave up.
CancelledGaveUp == \A n \in Ask : asked[n] = "cancelled" => gaveUp

\* The inductive invariant of the page.
PgInv == PageTyped /\ EventsInOrder /\ FilesOnce /\ CancelledGaveUp /\ NoWaiterBesideAQueue /\ NothingMissed

-----------------------------------------------------------------------------
\* Something new at the end of a queue or of what was heard.
LEMMA Pushed ==
    ASSUME NEW s \in Seq(Nat), NEW x \in Nat
    PROVE  /\ Append(s, x) \in Seq(Nat) /\ Elements(Append(s, x)) = Elements(s) \cup {x}
           /\ (Rising(s) /\ (\A a \in Elements(s) : a < x) => Rising(Append(s, x)))
           /\ (Apart(s) /\ x \notin Elements(s) => Apart(Append(s, x)))
<1> DEFINE t == Append(s, x)
           n == Len(s)
<1>1. /\ t \in Seq(Nat) /\ Len(t) = n + 1 /\ n \in Nat /\ t[n + 1] = x
      /\ \A i \in 1 .. n : t[i] = s[i]
  OBVIOUS
<1>2. DOMAIN t = 1 .. n + 1 /\ DOMAIN s = 1 .. n  BY <1>1
<1> HIDE DEF t
<1>3. Elements(t) = Elements(s) \cup {x}
  <2>1. ASSUME NEW y \in Elements(t) PROVE y \in Elements(s) \cup {x}
    <3>1. PICK i \in 1 .. n + 1 : y = t[i]  BY <1>2, <2>1 DEF Elements
    <3>2. i \in 1 .. n \/ i = n + 1  BY <1>1
    <3>. QED  BY <1>1, <1>2, <3>1, <3>2 DEF Elements
  <2>2. ASSUME NEW y \in Elements(s) PROVE y \in Elements(t)
    <3>1. PICK i \in 1 .. n : y = s[i]  BY <1>2, <2>2 DEF Elements
    <3>2. i \in 1 .. n + 1 /\ t[i] = y  BY <1>1, <3>1
    <3>. QED  BY <1>2, <3>2 DEF Elements
  <2>3. x \in Elements(t)
    <3>1. n + 1 \in 1 .. n + 1  BY <1>1
    <3>. QED  BY <1>1, <1>2, <3>1 DEF Elements
  <2>. QED  BY <2>1, <2>2, <2>3
<1>4. \A i \in 1 .. n : s[i] \in Elements(s)  BY <1>2 DEF Elements
<1>5. ASSUME Rising(s), \A a \in Elements(s) : a < x PROVE Rising(t)
  <2>1. SUFFICES ASSUME NEW i \in 1 .. n + 1, NEW j \in 1 .. n + 1, i < j PROVE t[i] < t[j]
    BY <1>1 DEF Rising
  <2>2. i \in 1 .. n /\ (j \in 1 .. n \/ j = n + 1)  BY <1>1, <2>1
  <2>. QED  BY <1>1, <1>4, <1>5, <2>1, <2>2 DEF Rising
<1>6. ASSUME Apart(s), x \notin Elements(s) PROVE Apart(t)
  <2>1. SUFFICES ASSUME NEW i \in 1 .. n + 1, NEW j \in 1 .. n + 1, i # j PROVE t[i] # t[j]
    BY <1>1 DEF Apart
  <2>2. (i \in 1 .. n \/ i = n + 1) /\ (j \in 1 .. n \/ j = n + 1)  BY <1>1, <2>1
  <2>. QED  BY <1>1, <1>4, <1>6, <2>1, <2>2 DEF Apart
<1>. QED  BY <1>1, <1>3, <1>5, <1>6 DEF t

\* The oldest of a queue taken out.
LEMMA Taken ==
    ASSUME NEW s \in Seq(Nat), s # <<>>
    PROVE  /\ Head(s) \in Nat /\ Tail(s) \in Seq(Nat)
           /\ Elements(s) = Elements(Tail(s)) \cup {Head(s)}
           /\ (Rising(s) => Rising(Tail(s)) /\ \A a \in Elements(Tail(s)) : Head(s) < a)
           /\ (Apart(s) => Apart(Tail(s)) /\ Head(s) \notin Elements(Tail(s)))
<1> DEFINE t == Tail(s)
           n == Len(s)
<1>1. /\ t \in Seq(Nat) /\ n \in Nat /\ n > 0 /\ Len(t) = n - 1 /\ Head(s) = s[1] /\ s[1] \in Nat
      /\ \A i \in 1 .. n - 1 : t[i] = s[i + 1]
  OBVIOUS
<1>2. DOMAIN t = 1 .. n - 1 /\ DOMAIN s = 1 .. n  BY <1>1
<1> HIDE DEF t
<1>3. ASSUME NEW y \in Elements(t) PROVE \E i \in 2 .. n : y = s[i]
  <2>1. PICK i \in 1 .. n - 1 : y = t[i]  BY <1>2, <1>3 DEF Elements
  <2>2. i + 1 \in 2 .. n /\ y = s[i + 1]  BY <1>1, <2>1
  <2>. QED  BY <2>2
<1>4. Elements(s) = Elements(t) \cup {Head(s)}
  <2>1. ASSUME NEW y \in Elements(s) PROVE y \in Elements(t) \cup {Head(s)}
    <3>1. PICK i \in 1 .. n : y = s[i]  BY <1>2, <2>1 DEF Elements
    <3>2. CASE i = 1  BY <1>1, <3>1, <3>2
    <3>3. CASE i # 1
      <4>1. i - 1 \in 1 .. n - 1 /\ i - 1 + 1 = i  BY <1>1, <3>3
      <4>2. t[i - 1] = y  BY <1>1, <3>1, <4>1
      <4>. QED  BY <1>2, <4>1, <4>2 DEF Elements
    <3>. QED  BY <3>2, <3>3
  <2>2. \A i \in 2 .. n : i \in 1 .. n  BY <1>1
  <2>3. \A y \in Elements(t) : y \in Elements(s)  BY <1>2, <1>3, <2>2 DEF Elements
  <2>4. Head(s) \in Elements(s)
    <3>1. 1 \in 1 .. n  BY <1>1
    <3>. QED  BY <1>1, <1>2, <3>1 DEF Elements
  <2>. QED  BY <2>1, <2>3, <2>4
<1>5. ASSUME Rising(s) PROVE Rising(t) /\ \A a \in Elements(t) : Head(s) < a
  <2>1. ASSUME NEW i \in 1 .. n - 1, NEW j \in 1 .. n - 1, i < j PROVE t[i] < t[j]
    <3>1. i + 1 \in 1 .. n /\ j + 1 \in 1 .. n /\ i + 1 < j + 1  BY <1>1, <2>1
    <3>. QED  BY <1>1, <1>5, <3>1 DEF Rising
  <2>2. ASSUME NEW a \in Elements(t) PROVE Head(s) < a
    <3>1. PICK i \in 2 .. n : a = s[i]  BY <1>3
    <3>2. 1 \in 1 .. n /\ i \in 1 .. n /\ 1 < i  BY <1>1
    <3>. QED  BY <1>1, <1>5, <3>1, <3>2 DEF Rising
  <2>. QED  BY <1>1, <2>1, <2>2 DEF Rising
<1>6. ASSUME Apart(s) PROVE Apart(t) /\ Head(s) \notin Elements(t)
  <2>1. ASSUME NEW i \in 1 .. n - 1, NEW j \in 1 .. n - 1, i # j PROVE t[i] # t[j]
    <3>1. i + 1 \in 1 .. n /\ j + 1 \in 1 .. n /\ i + 1 # j + 1  BY <1>1, <2>1
    <3>. QED  BY <1>1, <1>6, <3>1 DEF Apart
  <2>2. ASSUME NEW a \in Elements(t) PROVE Head(s) # a
    <3>1. PICK i \in 2 .. n : a = s[i]  BY <1>3
    <3>2. 1 \in 1 .. n /\ i \in 1 .. n /\ 1 # i  BY <1>1
    <3>. QED  BY <1>1, <1>6, <3>1, <3>2 DEF Apart
  <2>. QED  BY <1>1, <2>1, <2>2 DEF Apart
<1>. QED  BY <1>1, <1>4, <1>5, <1>6 DEF t

\* deliver's copies: none, or one more at the end.
LEMMA CopiesAre ==
    ASSUME NEW s \in Seq(Nat), NEW e \in Nat
    PROVE  s \o Copies(e, 0) = s /\ s \o Copies(e, 1) = Append(s, e)
<1>1. Copies(e, 0) = <<>>  BY DEF Copies
<1>2. s \o <<>> = s  OBVIOUS
<1>3. Copies(e, 1) = <<e>>  BY DEF Copies
<1>4. s \o <<e>> = Append(s, e)  OBVIOUS
<1>. QED  BY <1>1, <1>2, <1>3, <1>4

\* A page nobody has touched.
LEMMA PageInit == ASSUME PgInit PROVE PgInv
<1>1. <<>> \in Seq(Nat) /\ Len(<<>>) = 0 /\ Elements(<<>>) = {}  BY DEF Elements
<1>2. Rising(<<>>) /\ Apart(<<>>)  BY <1>1 DEF Rising, Apart
<1>3. PageTyped
  <2>1. 0 \in 0 .. MaxActs /\ 0 \in 0 .. MaxAsks /\ 0 \in 0 .. 0 /\ 0 \in 0 .. 1 /\ 0 \in 0 .. 2
    BY PageAssumption
  <2>2. /\ selectors \in [Kinds -> 0 .. 2] /\ listeners \in [Kinds -> 0 .. 1]
        /\ \A k \in Kinds : selectors[k] = 0
    BY <2>1 DEF PgInit
  <2>3. asked \in [Ask -> {"no", "event", "file", "cancelled", "answered"}]  BY DEF PgInit
  <2>4. gaveUp \in BOOLEAN  BY DEF PgInit
  <2>. QED  BY <1>1, <2>1, <2>2, <2>3, <2>4 DEF PgInit, PageTyped
<1>. QED  BY <1>1, <1>2, <1>3 DEF PgInit, PgInv, EventsInOrder, FilesOnce, CancelledGaveUp, NoWaiterBesideAQueue,
              NothingMissed
\* ON: a selector more, and the kind's one listener.
LEMMA OnStep == ASSUME PgInv, NEW k \in Kinds, On(k) PROVE PgInv'
<1>1. PageTyped'
  <2>1. selectors \in [Kinds -> 0 .. 2] /\ listeners \in [Kinds -> 0 .. 1] /\ selectors[k] < 2
    BY DEF PgInv, PageTyped, On
  <2>2. /\ selectors' \in [Kinds -> 0 .. 2] /\ listeners' \in [Kinds -> 0 .. 1] /\ listeners'[k] = 1
        /\ \A j \in Kinds : j # k => listeners'[j] = listeners[j] /\ selectors'[j] = selectors[j]
    BY <2>1 DEF On
  <2>3. \A j \in Kinds : listeners'[j] = 0 => selectors'[j] = 0  BY <2>2 DEF PgInv, PageTyped
  <2>. QED  BY <2>2, <2>3 DEF PgInv, PageTyped, On
<1>. QED  BY <1>1 DEF PgInv, On, EventsInOrder, FilesOnce, CancelledGaveUp, NoWaiterBesideAQueue, NothingMissed

\* RENDER and the rest of drawing leave all of it alone.
LEMMA StayStep == ASSUME PgInv, UNCHANGED pageVars PROVE PgInv'
BY DEF PgInv, pageVars, PageTyped, EventsInOrder, FilesOnce, CancelledGaveUp, NoWaiterBesideAQueue,
       NothingMissed

\* The program drops a ticket: its handler still holds its promise.
LEMMA DropTicketStep == ASSUME PgInv, NEW n \in Ask, DropTicket(n) PROVE PgInv'
<1>1. PageTyped'  BY DEF PgInv, PageTyped, DropTicket
<1>. QED  BY <1>1 DEF PgInv, DropTicket, EventsInOrder, FilesOnce, CancelledGaveUp, NoWaiterBesideAQueue,
                      NothingMissed

\* Answering a ticket: the history has it, or nobody does and a ticket was cancelled.
LEMMA AnswerStep ==
    ASSUME PgInv, NEW n \in Ask
    PROVE  /\ [asked EXCEPT ![n] = IF @ = "cancelled" THEN @ ELSE "answered"]
                  \in [Ask -> {"no", "event", "file", "cancelled", "answered"}]
           /\ \A m \in Ask : [asked EXCEPT ![n] = IF @ = "cancelled" THEN @ ELSE "answered"][m]
                                 = "cancelled" => gaveUp
           /\ (asked[n] = "cancelled" => gaveUp)
BY DEF PgInv, PageTyped, CancelledGaveUp

\* deliver: to the one who waits, or to the queue's end (entryBrowser.ts).
LEMMA UserActsStep == ASSUME PgInv, NEW k \in Kinds, UserActs(k) PROVE PgInv'
<1> DEFINE e == acts + 1
<1>1. /\ acts < MaxActs /\ acts' = e
      /\ wantedActs' = IF selectors[k] > 0 THEN wantedActs \cup {e} ELSE wantedActs
      /\ UNCHANGED <<selectors, listeners, reading, picked, wantsFile, got, gaveUp, asks>>
  BY DEF UserActs
<1>2. /\ acts \in Nat /\ e \in Nat /\ e \in 1 .. e /\ 1 .. acts \subseteq 1 .. e /\ e \in 0 .. MaxActs
      /\ \A a \in 1 .. acts : a < e
  BY <1>1, PageAssumption DEF PgInv, PageTyped
<1>3. listeners[k] \in {0, 1} /\ selectors[k] \in Nat /\ (listeners[k] = 0 => selectors[k] = 0)
  BY DEF PgInv, PageTyped
<1> HIDE DEF e
<1>4. CASE listeners[k] = 0 /\ UNCHANGED <<queue, waiting, asked, heard, missed>>
  <2>1. wantedActs' = wantedActs  BY <1>1, <1>3, <1>4
  <2>2. \A a \in Elements(heard) : a <= e
    <3>1. \A a \in Elements(heard) : a \in Nat  BY DEF PgInv, PageTyped, Elements
    <3>. QED  BY <1>2, <3>1 DEF PgInv, EventsInOrder, e
  <2>3. PageTyped' /\ EventsInOrder' /\ FilesOnce'
    BY <1>1, <1>2, <1>4, <2>2 DEF PgInv, PageTyped, EventsInOrder, FilesOnce
  <2>. QED  BY <1>1, <1>4, <2>1, <2>3 DEF PgInv, CancelledGaveUp, NoWaiterBesideAQueue, NothingMissed
<1>5. CASE listeners[k] = 1 /\ Deliver(e, 1)
  <2>1. \A a \in Elements(queue) : a < e  BY <1>2 DEF PgInv, PageTyped
  <2>2. \A a \in Elements(heard) : a \in Nat /\ a <= acts
    <3>1. \A a \in Elements(heard) : a \in Nat  BY DEF PgInv, PageTyped, Elements
    <3>. QED  BY <3>1 DEF PgInv, EventsInOrder
  <2>3. \A a \in Elements(heard) : a < e  BY <1>2, <2>2 DEF e
  <2>4. CASE waiting # 0
    <3>1. waiting \in Ask /\ queue = <<>> /\ queue \in Seq(Nat) /\ heard \in Seq(Nat)
      BY <2>4, PageAssumption DEF PgInv, PageTyped, NoWaiterBesideAQueue, Ask
    <3>2. Elements(<<>>) = {} /\ <<>> \in Seq(Nat) /\ Rising(<<>>)  BY DEF Elements, Rising
    <3>3. waiting' = 0 /\ Answer(waiting, e, heard) /\ queue' = queue \o Copies(e, 1 - 1)
      BY <1>5, <2>4 DEF Deliver
    <3>4. queue' = queue  BY <1>2, <3>1, <3>3, CopiesAre
    <3>5. /\ asked' \in [Ask -> {"no", "event", "file", "cancelled", "answered"}]
          /\ \A m \in Ask : asked'[m] = "cancelled" => gaveUp
          /\ (asked[waiting] = "cancelled" => gaveUp)
      BY <3>1, <3>3, AnswerStep DEF Answer
    <3>6. \/ heard' = Append(heard, e) /\ missed' = missed
          \/ heard' = heard /\ missed' = missed \cup {e} /\ gaveUp
      BY <3>3, <3>5 DEF Answer
    <3>7. /\ heard' \in Seq(Nat) /\ Rising(heard') /\ Elements(heard) \subseteq Elements(heard')
          /\ Elements(heard') \subseteq Elements(heard) \cup {e}
          /\ e \in Elements(heard') \cup missed'
      <4>1. Rising(heard)  BY DEF PgInv, EventsInOrder
      <4>2. /\ Append(heard, e) \in Seq(Nat) /\ Rising(Append(heard, e))
            /\ Elements(Append(heard, e)) = Elements(heard) \cup {e}
        BY <1>2, <2>3, <3>1, <4>1, Pushed
      <4>3. CASE heard' = Append(heard, e) /\ missed' = missed  BY <4>2, <4>3
      <4>4. CASE heard' = heard /\ missed' = missed \cup {e}  BY <3>1, <4>1, <4>4
      <4>. QED  BY <3>6, <4>3, <4>4
    <3>8. PageTyped'
      <4>1. waiting' \in 0 .. asks'  BY <1>1, <3>3, PageAssumption DEF PgInv, PageTyped
      <4>2. Elements(queue') \cup Elements(picked') \cup reading' \subseteq 1 .. acts'
        BY <1>1, <1>2, <3>4 DEF PgInv, PageTyped
      <4>. QED  BY <1>1, <1>2, <3>1, <3>4, <3>5, <3>7, <4>1, <4>2 DEF PgInv, PageTyped
    <3>9. EventsInOrder'
      <4>1. \A a \in Elements(heard') : a <= e  BY <1>2, <2>2, <3>7 DEF e
      <4>. QED  BY <1>1, <3>1, <3>2, <3>4, <3>7, <4>1 DEF EventsInOrder
    <3>10. FilesOnce'  BY <1>1, <1>2 DEF PgInv, FilesOnce
    <3>11. CancelledGaveUp' /\ NoWaiterBesideAQueue'
      BY <1>1, <3>3, <3>5 DEF PgInv, CancelledGaveUp, NoWaiterBesideAQueue
    <3>12. NothingMissed'
      <4>1. missed' # {} => gaveUp'  BY <1>1, <3>6 DEF PgInv, NothingMissed
      <4>2. missed \subseteq missed' /\ wantedActs' \subseteq wantedActs \cup {e}  BY <1>1, <3>6
      <4>. QED  BY <1>1, <3>4, <3>7, <4>1, <4>2 DEF PgInv, NothingMissed
    <3>. QED  BY <3>8, <3>9, <3>10, <3>11, <3>12 DEF PgInv
  <2>5. CASE waiting = 0
    <3>1. queue' = queue \o Copies(e, 1) /\ UNCHANGED <<waiting, asked, heard, missed>>
      BY <1>5, <2>5 DEF Deliver
    <3>2. queue \in Seq(Nat) /\ Rising(queue)  BY DEF PgInv, PageTyped, EventsInOrder
    <3>3. queue' = Append(queue, e)  BY <1>2, <3>1, <3>2, CopiesAre
    <3>4. queue' \in Seq(Nat) /\ Rising(queue') /\ Elements(queue') = Elements(queue) \cup {e}
      BY <1>2, <2>1, <3>2, <3>3, Pushed
    <3>5. PageTyped'  BY <1>1, <1>2, <3>1, <3>4 DEF PgInv, PageTyped
    <3>6. EventsInOrder'
      <4>1. \A a \in Elements(heard) : a <= e  BY <1>2, <2>2 DEF e
      <4>. QED  BY <1>1, <2>3, <3>1, <3>4, <4>1 DEF PgInv, EventsInOrder
    <3>7. FilesOnce'  BY <1>1, <1>2 DEF PgInv, FilesOnce
    <3>8. CancelledGaveUp' /\ NoWaiterBesideAQueue'
      BY <1>1, <2>5, <3>1 DEF PgInv, CancelledGaveUp, NoWaiterBesideAQueue
    <3>9. NothingMissed'
      <4>1. wantedActs' \subseteq wantedActs \cup {e}  BY <1>1
      <4>. QED  BY <1>1, <3>1, <3>4, <4>1 DEF PgInv, NothingMissed
    <3>. QED  BY <3>5, <3>6, <3>7, <3>8, <3>9 DEF PgInv
  <2>. QED  BY <2>4, <2>5
<1>. QED  BY <1>3, <1>4, <1>5 DEF UserActs, e

\* A file is dropped: it is being read.
LEMMA TakeFilesStep == ASSUME PgInv, TakeFiles PROVE PgInv'
<1> DEFINE e == acts + 1
<1>1. /\ acts < MaxActs /\ acts' = e /\ reading' = reading \cup {e}
      /\ wantedActs' = wantedActs \cup {e}
      /\ UNCHANGED <<selectors, listeners, queue, waiting, picked, wantsFile, asked, heard, got,
                     missed, gaveUp, asks>>
  BY DEF TakeFiles
<1>2. /\ acts \in Nat /\ e \in Nat /\ e \in 1 .. e /\ 1 .. acts \subseteq 1 .. e /\ e \in 0 .. MaxActs
      /\ e \notin 1 .. acts
  BY <1>1, PageAssumption DEF PgInv, PageTyped
<1>3. \A a \in Elements(heard) : a <= e
  <2>1. \A a \in Elements(heard) : a \in Nat  BY DEF PgInv, PageTyped, Elements
  <2>. QED  BY <1>2, <2>1 DEF PgInv, EventsInOrder
<1> HIDE DEF e
<1>4. PageTyped' /\ EventsInOrder'
  BY <1>1, <1>2, <1>3 DEF PgInv, PageTyped, EventsInOrder
<1>5. FilesOnce'  BY <1>1, <1>2 DEF PgInv, PageTyped, FilesOnce
<1>6. NothingMissed'  BY <1>1 DEF PgInv, NothingMissed
<1>7. CancelledGaveUp' /\ NoWaiterBesideAQueue'
  BY <1>1 DEF PgInv, CancelledGaveUp, NoWaiterBesideAQueue
<1>. QED  BY <1>4, <1>5, <1>6, <1>7 DEF PgInv

\* gotFile: to the one who waits, or to those picked.
LEMMA GotFileStep == ASSUME PgInv, NEW f \in reading, GotFile(f) PROVE PgInv'
<1>1. /\ reading' = reading \ {f}
      /\ UNCHANGED <<selectors, listeners, queue, waiting, heard, wantedActs, gaveUp, acts, asks>>
  BY DEF GotFile
<1>2. f \in 1 .. acts /\ f \in Nat /\ f \notin Elements(got) /\ f \notin Elements(picked)
  BY DEF PgInv, PageTyped, FilesOnce
<1>3. got \in Seq(Nat) /\ picked \in Seq(Nat) /\ Apart(got) /\ Apart(picked)
  BY DEF PgInv, PageTyped, FilesOnce
<1>4. CASE wantsFile # 0 /\ wantsFile' = 0 /\ Answer(wantsFile, f, got) /\ UNCHANGED picked
  <2>1. wantsFile \in Ask  BY <1>4, PageAssumption DEF PgInv, PageTyped, Ask
  <2>2. /\ asked' \in [Ask -> {"no", "event", "file", "cancelled", "answered"}]
        /\ \A m \in Ask : asked'[m] = "cancelled" => gaveUp
        /\ (asked[wantsFile] = "cancelled" => gaveUp)
    BY <1>4, <2>1, AnswerStep DEF Answer
  <2>3. \/ got' = Append(got, f) /\ missed' = missed
        \/ got' = got /\ missed' = missed \cup {f} /\ gaveUp
    BY <1>4, <2>2 DEF Answer
  <2>4. /\ got' \in Seq(Nat) /\ Apart(got') /\ Elements(got) \subseteq Elements(got')
        /\ Elements(got') \subseteq Elements(got) \cup {f}
        /\ f \in Elements(got') \cup missed'
    <3>1. /\ Append(got, f) \in Seq(Nat) /\ Apart(Append(got, f))
          /\ Elements(Append(got, f)) = Elements(got) \cup {f}
      BY <1>2, <1>3, Pushed
    <3>2. CASE got' = Append(got, f) /\ missed' = missed  BY <3>1, <3>2
    <3>3. CASE got' = got /\ missed' = missed \cup {f}  BY <1>3, <3>3
    <3>. QED  BY <2>3, <3>2, <3>3
  <2>5. PageTyped'
    BY <1>1, <1>4, <2>2, <2>4 DEF PgInv, PageTyped
  <2>6. EventsInOrder'  BY <1>1 DEF PgInv, EventsInOrder
  <2>7. FilesOnce'  BY <1>1, <1>2, <1>4, <2>4 DEF PgInv, FilesOnce
  <2>8. CancelledGaveUp' /\ NoWaiterBesideAQueue'
    BY <1>1, <1>4, <2>2 DEF PgInv, CancelledGaveUp, NoWaiterBesideAQueue
  <2>9. NothingMissed'
    <3>1. missed' # {} => gaveUp'  BY <1>1, <2>3 DEF PgInv, NothingMissed
    <3>2. missed \subseteq missed'  BY <2>3
    <3>. QED  BY <1>1, <1>4, <2>4, <3>1, <3>2 DEF PgInv, NothingMissed
  <2>. QED  BY <2>5, <2>6, <2>7, <2>8, <2>9 DEF PgInv
<1>5. CASE /\ wantsFile = 0 /\ picked' = Append(picked, f)
           /\ UNCHANGED <<wantsFile, asked, got, missed>>
  <2>1. picked' \in Seq(Nat) /\ Apart(picked') /\ Elements(picked') = Elements(picked) \cup {f}
    BY <1>2, <1>3, <1>5, Pushed
  <2>2. PageTyped'  BY <1>1, <1>2, <1>5, <2>1 DEF PgInv, PageTyped
  <2>3. EventsInOrder'  BY <1>1 DEF PgInv, EventsInOrder
  <2>4. FilesOnce'  BY <1>1, <1>2, <1>5, <2>1 DEF PgInv, FilesOnce
  <2>5. CancelledGaveUp' /\ NoWaiterBesideAQueue' /\ NothingMissed'
    BY <1>1, <1>5, <2>1 DEF PgInv, CancelledGaveUp, NoWaiterBesideAQueue, NothingMissed
  <2>. QED  BY <2>2, <2>3, <2>4, <2>5 DEF PgInv
<1>. QED  BY <1>4, <1>5 DEF GotFile

\* A new ticket is the next number.
LEMMA NewTicket ==
    ASSUME PgInv, asks < MaxAsks
    PROVE  /\ asks \in Nat /\ asks + 1 \in Ask /\ asks + 1 \in 0 .. MaxAsks /\ asks + 1 # 0
           /\ 0 .. asks \subseteq 0 .. asks + 1 /\ asks + 1 \in 0 .. asks + 1
BY PageAssumption DEF PgInv, PageTyped, Ask

\* NEXT_EVENT: the oldest event queued, or wait.
LEMMA NextEventStep == ASSUME PgInv, NextEvent PROVE PgInv'
<1>1. /\ asks < MaxAsks /\ asks' = asks + 1 /\ gaveUp' = (gaveUp \/ waiting # 0)
      /\ UNCHANGED <<selectors, listeners, reading, picked, wantsFile, got, missed, wantedActs, acts>>
  BY DEF NextEvent
<1>2. /\ asks \in Nat /\ asks + 1 \in Ask /\ asks + 1 \in 0 .. MaxAsks /\ asks + 1 # 0
      /\ 0 .. asks \subseteq 0 .. asks + 1 /\ asks + 1 \in 0 .. asks + 1
  BY <1>1, NewTicket
<1>3. gaveUp' \in BOOLEAN /\ (gaveUp => gaveUp')  BY <1>1
<1>4. FilesOnce'  BY <1>1 DEF PgInv, FilesOnce
<1>5. CASE /\ queue # <<>> /\ queue' = Tail(queue) /\ heard' = Append(heard, Head(queue))
           /\ asked' = [asked EXCEPT ![asks + 1] = "answered"] /\ UNCHANGED waiting
  <2>1. queue \in Seq(Nat) /\ heard \in Seq(Nat) /\ Rising(queue) /\ Rising(heard)
    BY DEF PgInv, PageTyped, EventsInOrder
  <2> DEFINE h == Head(queue)
  <2>2. /\ h \in Nat /\ queue' \in Seq(Nat) /\ Rising(queue')
        /\ Elements(queue) = Elements(queue') \cup {h} /\ \A a \in Elements(queue') : h < a
    BY <1>5, <2>1, Taken
  <2> HIDE DEF h
  <2>3. \A a \in Elements(heard) : a < h /\ a <= acts /\ \A z \in Elements(queue') : a < z
    BY <2>2 DEF PgInv, EventsInOrder
  <2>4. h \in 1 .. acts  BY <2>2 DEF PgInv, PageTyped
  <2>5. heard' = Append(heard, h)  BY <1>5 DEF h
  <2>6. heard' \in Seq(Nat) /\ Rising(heard') /\ Elements(heard') = Elements(heard) \cup {h}
    BY <2>1, <2>2, <2>3, <2>5, Pushed
  <2>7. EventsInOrder'
    <3>1. h <= acts  BY <2>4
    <3>. QED  BY <1>1, <2>2, <2>3, <2>6, <3>1 DEF EventsInOrder
  <2>8. PageTyped'
    BY <1>1, <1>2, <1>3, <1>5, <2>2, <2>6 DEF PgInv, PageTyped
  <2>9. CancelledGaveUp'
    BY <1>2, <1>3, <1>5 DEF PgInv, PageTyped, CancelledGaveUp
  <2>10. NoWaiterBesideAQueue'  BY <1>1, <1>5 DEF PgInv, NoWaiterBesideAQueue
  <2>11. NothingMissed'  BY <1>1, <1>3, <2>2, <2>6 DEF PgInv, NothingMissed
  <2>. QED  BY <1>4, <2>7, <2>8, <2>9, <2>10, <2>11 DEF PgInv
<1>6. CASE /\ queue = <<>> /\ waiting' = asks + 1 /\ asked' = [asked EXCEPT ![asks + 1] = "event"]
           /\ UNCHANGED <<queue, heard>>
  <2>1. PageTyped'  BY <1>1, <1>2, <1>3, <1>6 DEF PgInv, PageTyped
  <2>2. EventsInOrder'  BY <1>1, <1>6 DEF PgInv, EventsInOrder
  <2>3. CancelledGaveUp'  BY <1>2, <1>3, <1>6 DEF PgInv, PageTyped, CancelledGaveUp
  <2>4. NoWaiterBesideAQueue' /\ NothingMissed'
    BY <1>1, <1>3, <1>6 DEF PgInv, NoWaiterBesideAQueue, NothingMissed
  <2>. QED  BY <1>4, <2>1, <2>2, <2>3, <2>4 DEF PgInv
<1>. QED  BY <1>5, <1>6 DEF NextEvent

\* nextFile: the oldest file picked, or wait.
LEMMA NextFileStep == ASSUME PgInv, NextFile PROVE PgInv'
<1>1. /\ asks < MaxAsks /\ asks' = asks + 1 /\ gaveUp' = (gaveUp \/ wantsFile # 0)
      /\ UNCHANGED <<selectors, listeners, queue, waiting, reading, heard, missed, wantedActs, acts>>
  BY DEF NextFile
<1>2. /\ asks \in Nat /\ asks + 1 \in Ask /\ asks + 1 \in 0 .. MaxAsks /\ asks + 1 # 0
      /\ 0 .. asks \subseteq 0 .. asks + 1 /\ asks + 1 \in 0 .. asks + 1
  BY <1>1, NewTicket
<1>3. gaveUp' \in BOOLEAN /\ (gaveUp => gaveUp')  BY <1>1
<1>4. EventsInOrder'  BY <1>1 DEF PgInv, EventsInOrder
<1>5. CASE /\ picked # <<>> /\ picked' = Tail(picked) /\ got' = Append(got, Head(picked))
           /\ asked' = [asked EXCEPT ![asks + 1] = "answered"] /\ UNCHANGED wantsFile
  <2>1. picked \in Seq(Nat) /\ got \in Seq(Nat) /\ Apart(picked) /\ Apart(got)
    BY DEF PgInv, PageTyped, FilesOnce
  <2> DEFINE h == Head(picked)
  <2>2. /\ h \in Nat /\ picked' \in Seq(Nat) /\ Apart(picked')
        /\ Elements(picked) = Elements(picked') \cup {h} /\ h \notin Elements(picked')
    BY <1>5, <2>1, Taken
  <2> HIDE DEF h
  <2>3. h \in 1 .. acts /\ h \notin Elements(got) /\ h \notin reading
    BY <2>2 DEF PgInv, PageTyped, FilesOnce
  <2>4. got' = Append(got, h)  BY <1>5 DEF h
  <2>5. got' \in Seq(Nat) /\ Apart(got') /\ Elements(got') = Elements(got) \cup {h}
    BY <2>1, <2>2, <2>3, <2>4, Pushed
  <2>6. FilesOnce'  BY <1>1, <2>2, <2>3, <2>5 DEF PgInv, FilesOnce
  <2>7. PageTyped'
    BY <1>1, <1>2, <1>3, <1>5, <2>2, <2>5 DEF PgInv, PageTyped
  <2>8. CancelledGaveUp'
    BY <1>2, <1>3, <1>5 DEF PgInv, PageTyped, CancelledGaveUp
  <2>9. NoWaiterBesideAQueue'  BY <1>1, <1>5 DEF PgInv, NoWaiterBesideAQueue
  <2>10. NothingMissed'  BY <1>1, <1>3, <2>2, <2>5 DEF PgInv, NothingMissed
  <2>. QED  BY <1>4, <2>6, <2>7, <2>8, <2>9, <2>10 DEF PgInv
<1>6. CASE /\ picked = <<>> /\ wantsFile' = asks + 1 /\ asked' = [asked EXCEPT ![asks + 1] = "file"]
           /\ UNCHANGED <<picked, got>>
  <2>1. PageTyped'  BY <1>1, <1>2, <1>3, <1>6 DEF PgInv, PageTyped
  <2>2. FilesOnce'  BY <1>1, <1>6 DEF PgInv, FilesOnce
  <2>3. CancelledGaveUp'  BY <1>2, <1>3, <1>6 DEF PgInv, PageTyped, CancelledGaveUp
  <2>4. NoWaiterBesideAQueue' /\ NothingMissed'
    BY <1>1, <1>3, <1>6 DEF PgInv, NoWaiterBesideAQueue, NothingMissed
  <2>. QED  BY <1>4, <2>1, <2>2, <2>3, <2>4 DEF PgInv
<1>. QED  BY <1>5, <1>6 DEF NextFile

\* Every act of the user and every call of the program keeps the invariant.
LEMMA PageStep == ASSUME PgInv, [PgNext]_pageVars PROVE PgInv'
BY OnStep, UserActsStep, StayStep, TakeFilesStep, NextEventStep, NextFileStep, GotFileStep, DropTicketStep
   DEF PgNext, Render, Draw

\* The invariant says what PageIsHeard does.
LEMMA PageHeard == ASSUME PgInv PROVE PageIsHeard
<1>1. PgTypeOK  BY DEF PgInv, PageTyped, PgTypeOK
<1>2. DOMAIN heard = 1 .. Len(heard) /\ DOMAIN got = 1 .. Len(got)  BY DEF PgInv, PageTyped
<1>3. HeardInOrder  BY <1>2 DEF PgInv, EventsInOrder, FilesOnce, Rising, Apart, HeardInOrder
<1>. QED  BY <1>1, <1>3 DEF PgInv, PageIsHeard

\* For any number of acts and tickets: events are heard once each and in order, files once each,
\* nothing asked for is missed unless the program gave a ticket up, and nobody waits beside a
\* queue (deliver, gotFile, next, nextFile of entryBrowser.ts).
THEOREM PageIsAlwaysHeard == PgSpec => []PageIsHeard
<1>1. PgInit => PgInv  BY PageInit
<1>2. PgInv /\ [PgNext]_pageVars => PgInv'  BY PageStep
<1>3. PgInv => PageIsHeard  BY PageHeard
<1>. QED  BY <1>1, <1>2, <1>3, PTL DEF PgSpec

-----------------------------------------------------------------------------
(* The launcher (entry.ts) *)

\* What a program comes to.
Results == Codes \cup {Failed}

\* What a worker in each state has told its launcher, and where that leaves the launcher.
MailInOrder ==
    /\ worker \in {"none", "evaluating"} => toLauncher = <<>>
    /\ worker = "suspended" /\ platform = "node" => toLauncher = <<>>
    /\ worker \in {"suspended", "asking", "running", "ended"} => toLauncher \in {<<>>, <<Notice>>}
    /\ worker = "none" => launcher = "starting" \/ (launcher = "exited" /\ platform = "browser")
    /\ worker \in {"evaluating", "suspended", "asking", "running", "ended"} => launcher = "waiting"
    /\ worker = "done" =>
         \/ launcher = "waiting" /\ toLauncher \in {<<said>>, <<Notice, said>>}
         \/ launcher = "settled" /\ code = said /\ toLauncher = <<>>
    /\ worker = "dead" => launcher \in {"clean", "exited"} /\ code = said /\ toLauncher = <<>>

\* How far main has got, and what the program has come to.
MainOnce ==
    /\ worker \in {"none", "evaluating", "suspended", "asking"} => runs = 0 /\ said = NoCode
    /\ worker = "running" => runs = 1 /\ said = NoCode
    /\ worker = "ended" => runs = 1 /\ said \in Results
    /\ worker \in {"done", "dead"} => /\ runs \in {0, 1} /\ said \in Results
                                      /\ (covering /\ runs = 1 => dumped)

\* The types; nothing of the launcher's is open before it starts and after it ends.
LTyped ==
    /\ platform \in Platforms /\ covering \in BOOLEAN /\ urls \in {0, 1}
    /\ worker \in {"none", "evaluating", "suspended", "asking", "running", "ended", "done", "dead"}
    /\ toWorker \in {"unposted", "posted", "dropped", "handled"}
    /\ code \in Results \cup {NoCode}
    /\ worker \in {"none", "dead"} => ~responder /\ urls = 0

\* The inductive invariant of a launcher and its worker.
LInv == LTyped /\ MailInOrder /\ MainOnce

\* A load notice and one message after it.
LEMMA Mail ==
    ASSUME NEW m
    PROVE  /\ Append(<<>>, m) = <<m>> /\ Append(<<Notice>>, m) = <<Notice, m>>
           /\ Head(<<m>>) = m /\ Tail(<<m>>) = <<>>
           /\ Head(<<Notice, m>>) = Notice /\ Tail(<<Notice, m>>) = <<m>>
<1> DEFINE T == {Notice, m}
           one == <<m>>
           two == <<Notice, m>>
           note == <<Notice>>
<1>1. /\ one \in Seq(T) /\ Len(one) = 1 /\ one[1] = m /\ one # <<>>
      /\ note \in Seq(T) /\ Len(note) = 1 /\ note[1] = Notice
      /\ two \in Seq(T) /\ Len(two) = 2 /\ two[1] = Notice /\ two[2] = m /\ two # <<>>
      /\ <<>> \in Seq(T) /\ Len(<<>>) = 0
  OBVIOUS
<1>2. Head(one) = m /\ Tail(one) = <<>>  OBVIOUS
<1>3. Head(two) = Notice  OBVIOUS
<1>4. m \in T  OBVIOUS
<1> HIDE DEF one, two, note, T
<1>5. Append(<<>>, m) = one
  <2> DEFINE s == Append(<<>>, m)
  <2>1. s \in Seq(T) /\ Len(s) = 1 /\ s[1] = m  BY <1>1, <1>4
  <2> HIDE DEF s
  <2>2. \A i \in 1 .. Len(s) : s[i] = one[i]  BY <1>1, <2>1
  <2>3. s = one  BY <1>1, <2>1, <2>2, SeqEqual
  <2>. QED  BY <2>3 DEF s
<1>6. Append(note, m) = two
  <2> DEFINE s == Append(note, m)
  <2>1. s \in Seq(T) /\ Len(s) = 2 /\ s[1] = Notice /\ s[2] = m  BY <1>1, <1>4
  <2> HIDE DEF s
  <2>2. \A i \in 1 .. Len(s) : s[i] = two[i]  BY <1>1, <2>1
  <2>3. s = two  BY <1>1, <2>1, <2>2, SeqEqual
  <2>. QED  BY <2>3 DEF s
<1>7. Tail(two) = one
  <2> DEFINE s == Tail(two)
  <2>1. s \in Seq(T) /\ Len(s) = 1 /\ s[1] = m  BY <1>1
  <2> HIDE DEF s
  <2>2. \A i \in 1 .. Len(s) : s[i] = one[i]  BY <1>1, <2>1
  <2>3. s = one  BY <1>1, <2>1, <2>2, SeqEqual
  <2>. QED  BY <2>3 DEF s
<1>. QED  BY <1>2, <1>3, <1>5, <1>6, <1>7 DEF one, two, note

\* A launcher that has not started.
LEMMA LaunchInit == ASSUME LInit PROVE LInv
<1>1. LTyped  BY DEF LInit, LTyped
<1>2. MailInOrder  BY DEF LInit, MailInOrder
<1>3. MainOnce  BY DEF LInit, MainOnce
<1>. QED  BY <1>1, <1>2, <1>3 DEF LInv

\* The launcher serves its world, starts its worker and posts the bridge.
LEMMA StartStep == ASSUME LInv, RunAsLauncher \/ RunLauncherNode \/ RunInPage PROVE LInv'
<1>1. worker = "none"  BY DEF LInv, LTyped, MailInOrder, RunAsLauncher, RunLauncherNode, RunInPage, Start
<1>. QED  BY <1>1 DEF LInv, LTyped, MailInOrder, MainOnce, RunAsLauncher, RunLauncherNode, RunInPage, Start

\* A page without shared memory says so and ends.
LEMMA NotIsolatedStep == ASSUME LInv, NotIsolated PROVE LInv'
<1>1. worker = "none"  BY DEF LInv, LTyped, MailInOrder, NotIsolated
<1>. QED  BY <1>1 DEF LInv, LTyped, MailInOrder, MainOnce, NotIsolated, Results

\* The launcher hears: the load notice is nothing, the first result settles it.
LEMMA HearsStep == ASSUME LInv, Hears PROVE LInv'
<1>1. worker \in {"suspended", "asking", "running", "ended", "done"}
  BY DEF LInv, LTyped, MailInOrder, Hears
<1>2. /\ toLauncher' = Tail(toLauncher) /\ Takes(Head(toLauncher)) /\ launcher = "waiting" /\ toLauncher # <<>>
      /\ UNCHANGED <<platform, covering, worker, handler, buffered, toWorker, runs, said, dumped,
                     responder, urls>>
  BY DEF Hears
<1>3. CASE worker # "done"
  <2>1. toLauncher = <<Notice>>  BY <1>1, <1>2, <1>3 DEF LInv, MailInOrder
  <2>2. toLauncher' = <<>> /\ UNCHANGED <<launcher, code>>  BY <1>2, <2>1, Mail DEF Takes
  <2>. QED  BY <1>1, <1>2, <1>3, <2>2 DEF LInv, LTyped, MailInOrder, MainOnce
<1>4. CASE worker = "done"
  <2>1. said \in Results /\ said # Notice
    BY <1>4, LaunchAssumption DEF LInv, MainOnce, Results, Failed, Notice
  <2>2. CASE toLauncher = <<said>>
    <3>1. toLauncher' = <<>> /\ launcher' = "settled" /\ code' = said
      BY <1>2, <2>1, <2>2, Mail DEF Takes
    <3>. QED  BY <1>2, <1>4, <2>1, <3>1 DEF LInv, LTyped, MailInOrder, MainOnce
  <2>3. CASE toLauncher = <<Notice, said>>
    <3>1. toLauncher' = <<said>> /\ UNCHANGED <<launcher, code>>
      BY <1>2, <2>3, Mail DEF Takes
    <3>. QED  BY <1>2, <1>4, <3>1 DEF LInv, LTyped, MailInOrder, MainOnce
  <2>. QED  BY <1>2, <1>4, <2>2, <2>3 DEF LInv, MailInOrder
<1>. QED  BY <1>3, <1>4

\* finally, and the exit after it.
LEMMA FinishStep == ASSUME LInv, FinishDeno \/ FinishNode \/ FinishPage \/ ExitNode PROVE LInv'
<1>1. CASE ExitNode
  <2>1. worker = "dead"  BY <1>1 DEF LInv, LTyped, MailInOrder, ExitNode
  <2>. QED  BY <1>1, <2>1 DEF LInv, LTyped, MailInOrder, MainOnce, ExitNode
<1>2. CASE \E at \in {"exited", "clean"} : Finish(at)
  <2>1. worker = "done"  BY <1>2 DEF LInv, LTyped, MailInOrder, Finish
  <2>. QED  BY <1>2, <2>1 DEF LInv, LTyped, MailInOrder, MainOnce, Finish
<1>. QED  BY <1>1, <1>2 DEF FinishDeno, FinishNode, FinishPage

\* The worker's entry module has run.
LEMMA EvaluateStep == ASSUME LInv, EvaluateDeno \/ EvaluateNode \/ EvaluatePage PROVE LInv'
<1>1. /\ worker = "evaluating" /\ WorkerUnchanged /\ UNCHANGED <<buffered, toWorker, runs, said, dumped>>
      /\ \/ worker' = "suspended" /\ platform = "deno" /\ toLauncher' = Append(toLauncher, Notice)
         \/ worker' = "suspended" /\ platform = "node" /\ toLauncher' = toLauncher
         \/ worker' = "asking" /\ platform = "browser" /\ toLauncher' = Append(toLauncher, Notice)
  BY DEF EvaluateDeno, EvaluateNode, EvaluatePage, Evaluate
<1>2. toLauncher = <<>> /\ Append(toLauncher, Notice) = <<Notice>>
  BY <1>1, Mail DEF LInv, MailInOrder
<1>. QED  BY <1>1, <1>2 DEF LInv, LTyped, MailInOrder, MainOnce, WorkerUnchanged

\* The program has instantiated.
LEMMA ProgramStep == ASSUME LInv, ProgramDeno \/ ProgramNode PROVE LInv'
<1>1. CASE ProgramDeno
  BY <1>1 DEF LInv, LTyped, MailInOrder, MainOnce, WorkerUnchanged, ProgramDeno
<1>2. CASE ProgramNode
  <2>1. toLauncher = <<>> /\ toLauncher' = <<Notice>>  BY <1>2, Mail DEF LInv, MailInOrder, ProgramNode
  <2>. QED  BY <1>2, <2>1 DEF LInv, LTyped, MailInOrder, MainOnce, WorkerUnchanged, ProgramNode
<1>. QED  BY <1>1, <1>2

\* It would not load: the worker's error event.
LEMMA LoadFailsStep == ASSUME LInv, LoadFails PROVE LInv'
<1>1. toLauncher \in {<<>>, <<Notice>>} /\ launcher = "waiting"  BY DEF LInv, MailInOrder, LoadFails
<1>2. toLauncher' \in {<<Failed>>, <<Notice, Failed>>}  BY <1>1, Mail DEF LoadFails
<1>3. /\ worker \in {"evaluating", "suspended"} /\ worker' = "done" /\ said' = Failed
      /\ UNCHANGED <<platform, covering, launcher, code, responder, urls, handler, buffered, toWorker, runs,
                     dumped>>
  BY DEF LoadFails, WorkerUnchanged
<1>4. MailInOrder'  BY <1>1, <1>2, <1>3 DEF MailInOrder
<1>5. LTyped' /\ MainOnce'  BY <1>3 DEF LInv, LTyped, MainOnce, Results
<1>. QED  BY <1>4, <1>5 DEF LInv

\* The bridge arrives, or is dropped.
LEMMA StartArrivesStep == ASSUME LInv, StartArrives PROVE LInv'
BY DEF LInv, LTyped, MailInOrder, MainOnce, WorkerUnchanged, StartArrives

\* main starts, for the only time.
LEMMA MainStep == ASSUME LInv, RunAsWorkerDeno \/ RunAsWorkerNode \/ RunAsWorkerPage PROVE LInv'
BY DEF LInv, LTyped, MailInOrder, MainOnce, WorkerUnchanged, RunAsWorkerDeno, RunAsWorkerNode, RunAsWorkerPage,
       Main

\* main returned or threw.
LEMMA MainEndsStep == ASSUME LInv, NEW c \in Codes \cup {Failed}, MainEnds(c) PROVE LInv'
BY DEF LInv, LTyped, MailInOrder, MainOnce, WorkerUnchanged, MainEnds, Results

\* A coverage build writes its counters.
LEMMA DumpStep == ASSUME LInv, DumpCoverage \/ DumpCoverageNode PROVE LInv'
BY DEF LInv, LTyped, MailInOrder, MainOnce, WorkerUnchanged, DumpCoverage, DumpCoverageNode, Dump

\* The result is posted, after the counters are written.
LEMMA PostStep == ASSUME LInv, PostResult PROVE LInv'
<1>1. /\ worker = "ended" /\ worker' = "done" /\ toLauncher' = Append(toLauncher, said)
      /\ (covering => dumped)
      /\ UNCHANGED <<platform, covering, launcher, code, responder, urls, handler, buffered, toWorker, runs,
                     said, dumped>>
  BY DEF PostResult, Post, WorkerUnchanged
<1>2. toLauncher \in {<<>>, <<Notice>>} /\ launcher = "waiting"  BY <1>1 DEF LInv, MailInOrder
<1>3. toLauncher' \in {<<said>>, <<Notice, said>>}  BY <1>1, <1>2, Mail
<1>4. MailInOrder'  BY <1>1, <1>2, <1>3 DEF MailInOrder
<1>5. LTyped' /\ MainOnce'  BY <1>1 DEF LInv, LTyped, MainOnce
<1>. QED  BY <1>4, <1>5 DEF LInv

\* Every step of the two threads keeps the invariant.
LEMMA LaunchStep == ASSUME LInv, [LNext]_lVars PROVE LInv'
<1>1. CASE UNCHANGED lVars  BY <1>1 DEF lVars, LInv, LTyped, MailInOrder, MainOnce
<1>. QED  BY <1>1, StartStep, NotIsolatedStep, HearsStep, FinishStep, EvaluateStep, ProgramStep, LoadFailsStep,
             StartArrivesStep, MainStep, MainEndsStep, DumpStep, PostStep DEF LNext

\* The invariant says what EndsWell does.
LEMMA LaunchEndsWell == ASSUME LInv PROVE EndsWell
<1>1. Len(toLauncher) <= 2
  <2>1. Len(<<>>) = 0 /\ Len(<<Notice>>) = 1 /\ Len(<<said>>) = 1 /\ Len(<<Notice, said>>) = 2  OBVIOUS
  <2>2. toLauncher \in {<<>>, <<Notice>>, <<said>>, <<Notice, said>>}  BY DEF LInv, LTyped, MailInOrder
  <2>3. CASE toLauncher = <<>>  BY <2>1, <2>3
  <2>4. CASE toLauncher = <<Notice>> \/ toLauncher = <<said>>  BY <2>1, <2>4
  <2>5. CASE toLauncher = <<Notice, said>>  BY <2>1, <2>5
  <2>. QED  BY <2>2, <2>3, <2>4, <2>5
<1>2. LTypeOK  BY <1>1 DEF LInv, LTyped, MainOnce, LTypeOK, Results
<1>3. ExitsWithItsCode /\ ExitsClean
  BY DEF LInv, LTyped, MailInOrder, ExitsWithItsCode, ExitsClean
<1>4. DumpedInTime  BY DEF LInv, LTyped, MailInOrder, MainOnce, DumpedInTime
<1>. QED  BY <1>2, <1>3, <1>4 DEF EndsWell

\* On each of the three platforms: a process that ends does so with the program's code, with
\* nothing left open, and with the counters of a coverage build written (entry.ts, entryNode.ts,
\* entryBrowser.ts).
THEOREM LauncherEndsWell == LSpec => []EndsWell
<1>1. LInit => LInv  BY LaunchInit
<1>2. LInv /\ [LNext]_lVars => LInv'  BY LaunchStep
<1>3. LInv => EndsWell  BY LaunchEndsWell
<1>. QED  BY <1>1, <1>2, <1>3, PTL DEF LSpec
=============================================================================

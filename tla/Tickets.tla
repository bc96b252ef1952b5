------------------------------- MODULE Tickets -------------------------------
(***************************************************************************)
(* provider.ts: the capabilities a program is given, over the call ring.     *)
(*                                                                         *)
(* A capability either blocks or hands back a ticket, which the program      *)
(* holds as one 32-bit number: pack(slot, generation).  Three shared         *)
(* functions take that number back: a resolver, one per shape of answer,     *)
(* settled and drop.  The ring is kept here to what a ticket can tell apart; *)
(* Bridge has its protocol.  A call is <<slot, generation>> unpacked.        *)
(***************************************************************************)
EXTENDS Integers, FiniteSets

CONSTANTS
    SLOTS,       \* call slots, a power of two (128 in layout.ts)
    GenBits,     \* bits of a packed ticket left to the generation (25)
    MaxGen       \* bound: generations of a slot

ASSUME TicketsAssumption ==
    /\ SLOTS \in Nat \ {0} /\ GenBits \in Nat /\ MaxGen \in Nat
    /\ 2 ^ GenBits \in Nat \ {0}      \* arithmetic, spelled out for the provers

Slot == 0 .. SLOTS - 1
PackBeside(s, g) == s + (g % 2 ^ GenBits)      \* mutant: the shift is left out
Pack(s, g) == s + SLOTS * (g % 2 ^ GenBits)
Unpack(id) == [slot |-> id % SLOTS, gen |-> id \div SLOTS]

-----------------------------------------------------------------------------
(* Shapes of answer: what each resolver makes of a reply *)

\* What a handler's reply says.  "thrown" is STATUS_ERR, whatever the shape.
Plain == {"value", "empty", "thrown"}
Replies(shape) ==
    CASE shape \in {"change", "child"} -> {"value", "refused", "thrown"}
      [] shape = "stat" -> {"value", "refused", "thrown"}
      [] shape \in {"read", "readNow"} -> {"value", "end", "failed", "thrown"}
      [] OTHER -> Plain

\* i64, bytes, i32, text, maybeBytes, event, picked: an error is the program's trap.
Bare(r) == IF r = "thrown" THEN "trap" ELSE "value"
Ok(r) == IF r = "thrown" THEN "failed" ELSE "value"
FileResult(r) == IF r = "thrown" THEN "failed" ELSE "value"
Stat(r) == IF r \in {"refused", "thrown"} THEN "failed" ELSE "value"
DirNames(r) == IF r = "thrown" THEN "failed" ELSE "value"
MaybeBytes(r) == Bare(r)
Child(r) == IF r \in {"refused", "thrown"} THEN "failed" ELSE "value"
\* A bridge that failed reads as a program that wrote nothing.
Captured(r) == "value"
ReadOf(r) == CASE r \in {"empty", "end"} -> "end" [] r = "failed" -> "failed" [] OTHER -> "value"
Read(r) == IF r = "thrown" THEN "failed" ELSE ReadOf(r)
ReadNow(r) == IF r = "thrown" THEN "failed" ELSE ReadOf(r)
Change(r) == IF r \in {"refused", "thrown"} THEN "failed" ELSE "value"
Socket(r) == IF r = "thrown" THEN "failed" ELSE "value"

Resolvers == {"bare", "ok", "file", "stat", "dir", "maybe", "child", "captured",
              "read", "readNow", "change", "socket"}
Decode(shape, r) ==
    CASE shape = "bare" -> Bare(r)          [] shape = "ok" -> Ok(r)
      [] shape = "file" -> FileResult(r)    [] shape = "stat" -> Stat(r)
      [] shape = "dir" -> DirNames(r)       [] shape = "maybe" -> MaybeBytes(r)
      [] shape = "child" -> Child(r)        [] shape = "captured" -> Captured(r)
      [] shape = "read" -> Read(r)          [] shape = "readNow" -> ReadNow(r)
      [] shape = "change" -> Change(r)      [] shape = "socket" -> Socket(r)

-----------------------------------------------------------------------------
VARIABLES
    ring,        \* slot -> [state, gen, shape, reply]
    tickets,     \* tickets the program holds: [id, call, shape]
    spent,       \* numbers of tickets it has resolved or dropped, and may still use
    blocked,     \* the call a blocking capability is waiting for, or NoCall
    told,        \* what the last step told the program
    alive        \* it has not trapped

tVars == <<ring, tickets, spent, blocked, told, alive>>

NoCall == <<-1, -1>>
Silence == [call |-> NoCall, from |-> NoCall, shape |-> "bare", reply |-> "value", value |-> "value"]
Blank(g) == [state |-> "free", gen |-> g, shape |-> "bare", reply |-> "value"]

TkInit ==
    /\ ring = [s \in Slot |-> Blank(0)]
    /\ tickets = {} /\ spent = {} /\ blocked = NoCall /\ told = Silence /\ alive = TRUE

Current(u) == ring[u.slot].gen = u.gen
HasAnswer(s) == ring[s].state = "ready"
Free(s) == ring[s].state = "free"
Idle == alive /\ blocked = NoCall

FreeSlotKept(s) == [ring EXCEPT ![s] = Blank(ring[s].gen)]      \* mutant: the generation stays
FreeSlot(s) == [ring EXCEPT ![s] = Blank(ring[s].gen + 1)]

\* claim and submit: the first free slot; none free is backpressure, and every slot
\* holding an answer nobody takes is an error.
Claim(s) == Free(s) /\ (\A i \in Slot : i < s => ~Free(i)) /\ ring[s].gen < MaxGen
Submitted(s, shape) == [ring EXCEPT ![s].state = "pending", ![s].shape = shape]
RingFull ==
    /\ Idle /\ \A s \in Slot : HasAnswer(s)
    /\ alive' = FALSE /\ told' = Silence /\ UNCHANGED <<ring, tickets, spent, blocked>>

Ticketed(shape) ==
    \E s \in Slot :
        /\ Idle /\ Claim(s)
        /\ ring' = Submitted(s, shape)
        /\ tickets' = tickets \cup {[id |-> Pack(s, ring[s].gen), call |-> <<s, ring[s].gen>>,
                                     shape |-> shape]}
        /\ told' = Silence /\ UNCHANGED <<spent, blocked, alive>>
Blocking(shape) ==
    \E s \in Slot :
        /\ Idle /\ Claim(s)
        /\ ring' = Submitted(s, shape)
        /\ blocked' = <<s, ring[s].gen>>
        /\ told' = Silence /\ UNCHANGED <<tickets, spent, alive>>

\* The profiles.  log, warn, closeSocket and closeFeed block, and a bare submit there
\* would claim a slot the program could never give back.
CoreCall == Ticketed("bare")
Log == Blocking("bare")
CliArgs == Ticketed("bare") \/ Ticketed("maybe")
CliWrite == Blocking("ok")
CliFiles == \E shape \in {"file", "change", "stat", "dir"} : Ticketed(shape)
CliStreams == Ticketed("change") \/ Blocking("readNow") \/ Ticketed("bare")
CliNet == Ticketed("socket") \/ Ticketed("read") \/ Ticketed("ok") \/ Blocking("bare")
CliSpawn == Ticketed("child")
CliChildren == Ticketed("bare") \/ Ticketed("ok") \/ Ticketed("captured") \/ Blocking("bare")
PageCall == Ticketed("bare")

\* external: the handler's answer lands, and a cancelled slot comes back.
HostAnswers(s) ==
    /\ ring[s].state = "pending"
    /\ \E r \in Replies(ring[s].shape) :
         ring' = [ring EXCEPT ![s].state = "ready", ![s].reply = r]
    /\ told' = Silence /\ UNCHANGED <<tickets, spent, blocked, alive>>
HostFrees(s) ==
    /\ ring[s].state = "cancelled" /\ ring' = [ring EXCEPT ![s] = Blank(ring[s].gen)]
    /\ told' = Silence /\ UNCHANGED <<tickets, spent, blocked, alive>>

Tell(call, from, shape, reply) ==
    /\ told' = [call |-> call, from |-> from, shape |-> shape, reply |-> reply,
                value |-> Decode(shape, reply)]
    /\ alive' = (Decode(shape, reply) # "trap")

\* collect of the ticket a number unpacks to: at once when it has expired, which is
\* an error, else when the answer is there.
Resolve(t) ==
    /\ Idle
    /\ LET u == Unpack(t.id) IN
       \/ /\ ~Current(u)
          /\ Tell(t.call, NoCall, t.shape, "thrown") /\ UNCHANGED ring
       \/ /\ Current(u) /\ HasAnswer(u.slot)
          /\ Tell(t.call, <<u.slot, u.gen>>, t.shape, ring[u.slot].reply)
          /\ ring' = FreeSlot(u.slot)
    /\ tickets' = tickets \ {t} /\ spent' = spent \cup {t.id} /\ UNCHANGED blocked
\* A blocking capability has the ticket itself, not its number.
Collect ==
    /\ alive /\ blocked # NoCall /\ HasAnswer(blocked[1])
    /\ Tell(blocked, blocked, ring[blocked[1]].shape, ring[blocked[1]].reply)
    /\ ring' = FreeSlot(blocked[1]) /\ blocked' = NoCall /\ UNCHANGED <<tickets, spent>>

\* cancel: an expired number does nothing.
Cancelled(u) ==
    IF ~Current(u) THEN ring
    ELSE IF HasAnswer(u.slot) THEN FreeSlot(u.slot)
    ELSE [ring EXCEPT ![u.slot].gen = @ + 1, ![u.slot].state = "cancelled"]
Drop(t) ==
    /\ Idle /\ ring' = Cancelled(Unpack(t.id))
    /\ tickets' = tickets \ {t} /\ spent' = spent \cup {t.id}
    /\ told' = Silence /\ UNCHANGED <<blocked, alive>>
\* A ticket used again: an expired one is an error the program is assumed to survive.
Reuse(id) ==
    /\ Idle /\ Current(Unpack(id)) /\ HasAnswer(Unpack(id).slot)
    /\ Tell(NoCall, <<Unpack(id).slot, Unpack(id).gen>>, "ok", ring[Unpack(id).slot].reply)
    /\ ring' = FreeSlot(Unpack(id).slot) /\ UNCHANGED <<tickets, spent, blocked>>
DropAgain(id) ==
    /\ Idle /\ ring' = Cancelled(Unpack(id))
    /\ told' = Silence /\ UNCHANGED <<tickets, spent, blocked, alive>>

\* settled and waitAny: an expired ticket counts as done.
Settled(t) == LET u == Unpack(t.id) IN ~Current(u) \/ HasAnswer(u.slot)
WaitAny(t) ==
    /\ Idle /\ Settled(t)
    /\ told' = [Silence EXCEPT !.from = t.call, !.reply = "settled"]
    /\ UNCHANGED <<ring, tickets, spent, blocked, alive>>

TkNext ==
    \/ CoreCall \/ Log \/ CliArgs \/ CliWrite \/ CliFiles \/ CliStreams \/ CliNet
    \/ CliSpawn \/ CliChildren \/ PageCall \/ RingFull \/ Collect
    \/ \E s \in Slot : HostAnswers(s) \/ HostFrees(s)
    \/ \E t \in tickets : Resolve(t) \/ Drop(t) \/ WaitAny(t)
    \/ \E id \in spent : Reuse(id) \/ DropAgain(id)

TkSpec == TkInit /\ [][TkNext]_tVars

-----------------------------------------------------------------------------
(* What must hold *)

\* The ring's slots and the numbers: a packed ticket is a 32-bit number, whatever its
\* slot's generation has grown to.
TkTypeOK ==
    /\ \A s \in Slot :
         /\ ring[s].state \in {"free", "pending", "ready", "cancelled"}
         /\ ring[s].gen \in 0 .. MaxGen /\ ring[s].shape \in Resolvers
         /\ ring[s].state = "ready" => ring[s].reply \in Replies(ring[s].shape)
    /\ \A t \in tickets : t.shape \in Resolvers /\ t.id \in 0 .. SLOTS * 2 ^ GenBits - 1
    /\ told.value \in {"value", "end", "failed", "trap"} /\ alive \in BOOLEAN

\* A ticket the program holds and has neither resolved nor dropped is still its call's:
\* the number unpacks to the slot and the generation it was packed from, so waiting for
\* it waits for that call and dropping it gives the slot back.
TicketFindsItsCall ==
    \A t \in tickets :
        /\ Unpack(t.id) = [slot |-> t.call[1], gen |-> t.call[2]]
        /\ Current(Unpack(t.id)) /\ ring[t.call[1]].shape = t.shape

\* What a resolver tells the program is what its own call was answered with; a ticket
\* used twice is never given the answer of the call that has its slot now.
AnswerIsItsCalls == told.reply # "settled" => told.call = told.from \/ told.from = NoCall

\* The slot of a call nobody holds comes back: a busy slot belongs to a ticket, to the
\* blocking call, or is the host's to free.  Four log lines once exhausted the ring.
NoSlotForgotten ==
    \A s \in Slot : ring[s].state \in {"pending", "ready"} =>
        <<s, ring[s].gen>> = blocked \/ \E t \in tickets : t.call = <<s, ring[s].gen>>

\* waitAny says settled only of a ticket whose call has its answer.
WaitAnyIsRight ==
    told.reply = "settled" => ring[told.from[1]].gen = told.from[2] /\ HasAnswer(told.from[1])

\* A failure of a file, a stream, a socket or a child is an answer: it never traps the
\* program, and it is never taken for data or for the end of the input.
FailureIsAnAnswer ==
    /\ (/\ told.shape \in {"ok", "file", "stat", "dir", "child", "read", "readNow", "change", "socket"}
        /\ told.reply \in {"thrown", "refused", "failed"}) => told.value = "failed"
    /\ told.value = "trap" => told.shape \in {"bare", "maybe"}

\* What the provider tells a program is true: an answer is its own call's, a failure is an
\* answer, settled means settled, and the slot of a call nobody holds comes back.
TicketsTellTheTruth ==
    TkTypeOK /\ AnswerIsItsCalls /\ NoSlotForgotten /\ WaitAnyIsRight /\ FailureIsAnAnswer
=============================================================================

-------------------------------- MODULE Page --------------------------------
(***************************************************************************)
(* The page a program draws: pageDom of entryBrowser.ts, and the handlers of *)
(* browser.ts over it.  The user acts whenever they like; the program asks   *)
(* for the next event or file with a ticket it may cancel, and a cancelled   *)
(* ticket's handler still holds its promise.  A dropped file is read behind  *)
(* a promise of its own, so two finish in either order.                     *)
(***************************************************************************)
EXTENDS Integers, Sequences, FiniteSets

CONSTANTS
    Kinds,       \* kinds of event
    MaxActs,     \* bound: things the user does
    MaxAsks      \* bound: tickets for events and files

ASSUME PageAssumption == MaxActs \in Nat /\ MaxAsks \in Nat

Act == 1 .. MaxActs
Ask == 1 .. MaxAsks

VARIABLES
    selectors,   \* kind -> selectors asked for (wanted)
    listeners,   \* kind -> listeners on the document
    queue,       \* events nobody has asked for yet
    waiting,     \* the ticket a waiting next() will answer, or 0
    reading,     \* dropped files whose bytes are being read
    picked,      \* files nobody has asked for yet
    wantsFile,   \* the ticket a waiting nextFile() will answer, or 0
    asked,       \* tickets: number -> "event", "file", "cancelled" or "answered"
    heard,       \* history: events the program was given, in order
    got,         \* history: files it was given, in order
    missed,      \* history: what was answered to a ticket nobody holds
    wantedActs,  \* history: events of a kind with a selector, and files
    gaveUp,      \* history: a ticket was cancelled, or a second asked before the first was answered
    acts, asks   \* counts

pageVars == <<selectors, listeners, queue, waiting, reading, picked, wantsFile, asked, heard,
              got, missed, wantedActs, gaveUp, acts, asks>>

PgInit ==
    /\ selectors = [k \in Kinds |-> 0] /\ listeners = [k \in Kinds |-> 0]
    /\ queue = <<>> /\ waiting = 0 /\ reading = {} /\ picked = <<>> /\ wantsFile = 0
    /\ asked = [n \in Ask |-> "no"] /\ heard = <<>> /\ got = <<>> /\ missed = {}
    /\ wantedActs = {} /\ gaveUp = FALSE /\ acts = 0 /\ asks = 0

\* ON: one listener per kind; the list of selectors grows instead.
On(k) ==
    /\ selectors[k] < 2
    /\ selectors' = [selectors EXCEPT ![k] = @ + 1]
    /\ listeners' = [listeners EXCEPT ![k] = 1]
    /\ UNCHANGED <<queue, waiting, reading, picked, wantsFile, asked, heard, got, missed,
                   wantedActs, gaveUp, acts, asks>>

\* RENDER replaces the elements; the listeners are the document's and stay.
RenderUnlistens ==      \* mutant: the listeners were the elements'
    /\ listeners' = [k \in Kinds |-> 0]
    /\ UNCHANGED <<selectors, queue, waiting, reading, picked, wantsFile, asked, heard, got,
                   missed, wantedActs, gaveUp, acts, asks>>
Render == UNCHANGED pageVars
\* SET_TEXT, SET_VALUE, GET_VALUE, TITLE, DRAW_PIXELS and OFFER_DOWNLOAD leave them alone too.
Draw == UNCHANGED pageVars

-----------------------------------------------------------------------------
Answer(n, what, history) ==
    /\ asked' = [asked EXCEPT ![n] = IF @ = "cancelled" THEN @ ELSE "answered"]
    /\ IF asked[n] = "cancelled"
       THEN missed' = missed \cup {what} /\ UNCHANGED history
       ELSE history' = Append(history, what) /\ UNCHANGED missed

\* deliver, for an event the document's n listeners of its kind each pass on.
Copies(e, n) == [i \in 1 .. n |-> e]
Deliver(e, n) ==
    IF waiting # 0
    THEN waiting' = 0 /\ Answer(waiting, e, heard) /\ queue' = queue \o Copies(e, n - 1)
    ELSE queue' = queue \o Copies(e, n) /\ UNCHANGED <<waiting, asked, heard, missed>>
UserActs(k) ==
    /\ acts < MaxActs /\ acts' = acts + 1
    /\ wantedActs' = IF selectors[k] > 0 THEN wantedActs \cup {acts + 1} ELSE wantedActs
    /\ IF listeners[k] = 0 THEN UNCHANGED <<queue, waiting, asked, heard, missed>>
                           ELSE Deliver(acts + 1, listeners[k])
    /\ UNCHANGED <<selectors, listeners, reading, picked, wantsFile, got, gaveUp, asks>>

\* A file is picked or dropped: its bytes are read, or fail to be, and it is one answer.
TakeFiles ==
    /\ acts < MaxActs /\ acts' = acts + 1
    /\ reading' = reading \cup {acts + 1} /\ wantedActs' = wantedActs \cup {acts + 1}
    /\ UNCHANGED <<selectors, listeners, queue, waiting, picked, wantsFile, asked, heard, got,
                   missed, gaveUp, asks>>
GotFile(f) ==
    /\ f \in reading /\ reading' = reading \ {f}
    /\ IF wantsFile # 0
       THEN wantsFile' = 0 /\ Answer(wantsFile, f, got) /\ UNCHANGED picked
       ELSE picked' = Append(picked, f) /\ UNCHANGED <<wantsFile, asked, got, missed>>
    /\ UNCHANGED <<selectors, listeners, queue, waiting, heard, wantedActs, gaveUp, acts, asks>>

-----------------------------------------------------------------------------
\* NEXT_EVENT: the oldest queued event, or wait.  One waiter: a second takes its place.
NextEvent ==
    /\ asks < MaxAsks /\ asks' = asks + 1
    /\ gaveUp' = (gaveUp \/ waiting # 0)
    /\ IF queue # <<>>
       THEN /\ queue' = Tail(queue) /\ heard' = Append(heard, Head(queue))
            /\ asked' = [asked EXCEPT ![asks + 1] = "answered"] /\ UNCHANGED waiting
       ELSE /\ waiting' = asks + 1 /\ asked' = [asked EXCEPT ![asks + 1] = "event"]
            /\ UNCHANGED <<queue, heard>>
    /\ UNCHANGED <<selectors, listeners, reading, picked, wantsFile, got, missed, wantedActs, acts>>
NextFile ==
    /\ asks < MaxAsks /\ asks' = asks + 1
    /\ gaveUp' = (gaveUp \/ wantsFile # 0)
    /\ IF picked # <<>>
       THEN /\ picked' = Tail(picked) /\ got' = Append(got, Head(picked))
            /\ asked' = [asked EXCEPT ![asks + 1] = "answered"] /\ UNCHANGED wantsFile
       ELSE /\ wantsFile' = asks + 1 /\ asked' = [asked EXCEPT ![asks + 1] = "file"]
            /\ UNCHANGED <<picked, got>>
    /\ UNCHANGED <<selectors, listeners, queue, waiting, reading, heard, missed, wantedActs, acts>>

\* The program drops a ticket: detach, not abort.
DropTicket(n) ==
    /\ asked[n] \in {"event", "file"}
    /\ asked' = [asked EXCEPT ![n] = "cancelled"] /\ gaveUp' = TRUE
    /\ UNCHANGED <<selectors, listeners, queue, waiting, reading, picked, wantsFile, heard, got,
                   missed, wantedActs, acts, asks>>

PgNext ==
    \/ \E k \in Kinds : On(k) \/ UserActs(k)
    \/ Render \/ Draw \/ TakeFiles \/ NextEvent \/ NextFile
    \/ \E f \in reading : GotFile(f)
    \/ \E n \in Ask : DropTicket(n)
PgSpec == PgInit /\ [][PgNext]_pageVars

-----------------------------------------------------------------------------
(* What must hold *)

Elements(s) == {s[i] : i \in DOMAIN s}
\* One listener for a kind however many selectors asked for it; queues of real events.
PgTypeOK ==
    /\ \A k \in Kinds : selectors[k] \in 0 .. 2 /\ listeners[k] \in 0 .. 1
    /\ waiting \in 0 .. asks /\ wantsFile \in 0 .. asks
    /\ Elements(queue) \cup Elements(picked) \cup reading \subseteq 1 .. acts
    /\ \A n \in Ask : asked[n] \in {"no", "event", "file", "cancelled", "answered"}

\* Events are heard once each, in the order they happened, whatever was queued,
\* waited for, drawn over or cancelled in between.
HeardInOrder ==
    /\ \A i, j \in DOMAIN heard : i < j => heard[i] < heard[j]
    /\ \A i, j \in DOMAIN got : i # j => got[i] # got[j]

\* Nobody waits for what is already there.
NoWaiterBesideAQueue == (waiting # 0 => queue = <<>>) /\ (wantsFile # 0 => picked = <<>>)

\* "a file the user has already dropped must not be lost" (entryBrowser.ts:136): whatever
\* the user did that the program had asked for is queued, being read, or was heard -
\* unless the program cancelled a ticket or asked twice, when one may be answered to nobody.
NothingMissed ==
    /\ wantedActs \subseteq Elements(queue) \cup Elements(picked) \cup reading
                             \cup Elements(heard) \cup Elements(got) \cup missed
    /\ missed # {} => gaveUp

\* What the user did is heard once and in order, nothing is missed, and nobody waits for what is
\* already queued (deliver, gotFile, next, nextFile).
PageIsHeard == PgTypeOK /\ HeardInOrder /\ NoWaiterBesideAQueue /\ NothingMissed
=============================================================================

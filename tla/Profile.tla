------------------------------ MODULE Profile ------------------------------
(***************************************************************************)
(* Which tests a mutant needs: harness/wacProfile.ts credits the lines a test  *)
(* executed to it, in this process by counters and in programs it ran by the   *)
(* dumps they leave; tools/mutate/profile.ts picks the tests that reach a      *)
(* mutated span.                                                           *)
(***************************************************************************)
EXTENDS Integers, FiniteSets

CONSTANTS
    ProfTests,     \* the tests of a file, which run one at a time
    Lines,         \* lines of one construct
    Entry,         \* the line control enters it by
    Known,         \* lines that carry a coverage point
    Inlined,       \* of those, the ones the compiler folds into their callers: their counters stay 0
    Spans          \* mutated spans that may be asked about

ASSUME ProfileAssumption ==
    /\ IsFiniteSet(Lines) /\ Known \subseteq Lines /\ Entry \in Known /\ Inlined \subseteq Known
    /\ ProfTests \cap {"none", "between"} = {}
    /\ Spans \subseteq (SUBSET Lines) \ {{}}

VARIABLES
    current,      \* the test that runs, "none" or "between"
    counts, before, \* the counters, and what they were when the test began
    dumps,        \* lines in the dump files that are whole and have not been read
    half,         \* dumps being written: [of: whose program's, lines]; "none" at load
    late,         \* history: of those, the ones a drain that should have had them left there
    baseline,     \* lines hit before the first test
    started, perTest, profiled,
    truth,        \* history: the lines each test really executed, in any process
    plan          \* [kind, tests, span] for the mutant asked about

profVars == <<current, counts, before, dumps, half, late, baseline, started, perTest, profiled, truth,
              plan>>
dumpVars == <<dumps, half, late>>

Points == Known \ Inlined      \* lines whose counters count

NoPlan == [kind |-> "none", tests |-> {}, span |-> {}]

ProfInit ==
    /\ current = "none" /\ counts = [l \in Known |-> 0] /\ before = counts /\ dumps = {}
    /\ half = {} /\ late = {}
    /\ baseline = {} /\ started = FALSE /\ profiled = {} /\ plan = NoPlan
    /\ perTest = [t \in ProfTests |-> {}] /\ truth = [t \in ProfTests |-> {}]

Hit(c) == {l \in Known : c[l] > 0}
MaxLate == 2       \* bound: dumps written slowly
MaxCount == 2      \* bound: times a line is executed in this process
Counted(l) == IF l \in Points THEN counts[l] < MaxCount /\ counts' = [counts EXCEPT ![l] = @ + 1]
              ELSE UNCHANGED counts

\* What a module runs as it loads is in every test's result.
LoadRuns(l) ==
    /\ ~started /\ (l = Entry \/ \A t \in ProfTests : Entry \in truth[t])
    /\ truth' = [t \in ProfTests |-> truth[t] \cup {l}]
    /\ Counted(l)
    /\ UNCHANGED <<current, before, dumpVars, baseline, started, perTest, profiled, plan>>
\* A test begins; the first one settles the baseline, dumps of earlier programs with it.
BeginTest(t) ==
    /\ current \in {"none", "between"} /\ t \notin profiled /\ plan = NoPlan
    /\ current' = t /\ before' = counts /\ started' = TRUE
    /\ baseline' = IF started THEN baseline ELSE Hit(counts) \cup dumps
    /\ dumps' = IF started THEN dumps ELSE {}
    /\ late' = IF started THEN late ELSE half
    /\ UNCHANGED <<counts, half, perTest, profiled, truth, plan>>
\* Control reaches a line through the entry.  Steps of a test are part of it.
Executes(l) ==
    /\ current \in ProfTests /\ (l = Entry \/ Entry \in truth[current])
    /\ truth' = [truth EXCEPT ![current] = @ \cup {l}]
    /\ Counted(l)
    /\ UNCHANGED <<current, before, dumpVars, baseline, started, perTest, profiled, plan>>
\* A program the test ran, or the module as it loads, leaves its counters in a dump: in time, or
\* still being written when the test ends.
ProgramRuns(l) ==
    /\ current \in ProfTests \/ ~started
    /\ truth' = [t \in ProfTests |-> IF current \in {t, "none"} THEN truth[t] \cup {Entry, l} ELSE truth[t]]
    /\ LET lines == {Entry, l} \cap Points IN
       \/ dumps' = dumps \cup lines /\ UNCHANGED half
       \/ /\ Cardinality(half \cup late) < MaxLate
          /\ half' = half \cup {[of |-> current, lines |-> lines]} /\ UNCHANGED dumps
    /\ UNCHANGED <<current, counts, before, late, baseline, started, perTest, profiled, plan>>
DumpIsWhole(d) ==
    /\ d \in half /\ half' = half \ {d} /\ dumps' = dumps \cup d.lines
    /\ UNCHANGED <<current, counts, before, late, baseline, started, perTest, profiled, truth, plan>>
\* What a test is credited with: the baseline, the counters that rose and the dumps.
CreditedRose == {l \in Known : counts[l] > before[l]} \cup dumps      \* mutant: the baseline is left out
Credited == baseline \cup {l \in Known : counts[l] > before[l]} \cup dumps
\* drainChildDumps takes away what it can read; a dump that is half written is skipped, and left
\* for the next drain.
EndTest ==
    /\ current \in ProfTests /\ current' = "between" /\ dumps' = {}
    /\ late' = late \cup {d \in half : d.of = current}
    /\ perTest' = [perTest EXCEPT ![current] = Credited] /\ profiled' = profiled \cup {current}
    /\ UNCHANGED <<counts, before, half, baseline, started, truth, plan>>

\* selectTests: the union over the known lines of the span.  Nothing known, or nobody picked
\* while some line is unknown, cannot be narrowed.
Picked(span) == {t \in ProfTests : perTest[t] \cap span \cap Known # {}}
PlanFor(span) ==
    CASE span \cap Known = {} -> "widen"
      [] Picked(span) = {} /\ ~(span \subseteq Known) -> "widen"
      [] Picked(span) = {} /\ span \subseteq Known -> "unhit"
      [] OTHER -> "narrow"
Ask(span) ==
    /\ profiled = ProfTests /\ plan = NoPlan /\ current = "between"
    /\ plan' = [kind |-> PlanFor(span), tests |-> Picked(span), span |-> span]
    /\ UNCHANGED <<current, counts, before, dumpVars, baseline, started, perTest, profiled, truth>>

ProfNext ==
    \/ \E l \in Lines : LoadRuns(l) \/ Executes(l) \/ ProgramRuns(l)
    \/ \E t \in ProfTests : BeginTest(t)
    \/ EndTest \/ (\E d \in half : DumpIsWhole(d)) \/ \E span \in Spans : Ask(span)
ProfSpec == ProfInit /\ [][ProfNext]_profVars

-----------------------------------------------------------------------------
(* Properties *)

\* The profile's state is made of the parts above.
ProfTypeOK ==
    /\ current \in ProfTests \cup {"none", "between"} /\ dumps \subseteq Known /\ baseline \subseteq Known
    /\ \A t \in ProfTests : perTest[t] \subseteq Known /\ truth[t] \subseteq Lines
    /\ plan.kind \in {"none", "narrow", "widen", "unhit"}

\* The lines of t in dumps that were half written when they should have been read.
LateOf(t, ds) == UNION {d.lines : d \in {x \in ds : x.of \in {t, "none"}}}

\* A test is credited with every line it executed whose counter counts, at load, in this process or
\* in a program it ran, but for those in a dump half written when it ended; and such a dump is not
\* lost ("left for the next drain rather than removed"): it waits, or a later test has the credit.
CreditIsWhole ==
    /\ \A t \in profiled : truth[t] \cap Points \subseteq perTest[t] \cup LateOf(t, late)
    /\ \A d \in late : \/ d \in half \/ d.lines \subseteq dumps
                       \/ \E u \in profiled : d.lines \subseteq perTest[u]

Reaches(t) == truth[t] \cap plan.span # {}

\* "a test that executes an interior line must have reached the line that dominates it": for a
\* span that holds its construct's entry, where that counts, narrowing leaves out no test that
\* reaches it but one whose reaching it is in a late dump.  And "unhit is not skip": a test may
\* reach a span called unhit, by lines the compiler folded into their callers or by a late dump.
NarrowKeepsWhatReaches ==
    /\ plan.kind = "narrow" /\ Entry \in plan.span \cap Points =>
         \A t \in ProfTests : Reaches(t) => t \in plan.tests \/ Entry \in LateOf(t, late)
    /\ plan.kind = "unhit" =>
         \A t \in ProfTests : truth[t] \cap plan.span \subseteq Inlined \cup LateOf(t, late)

\* A test is credited with all it executed that counts and was dumped in time, and narrowing by
\* those credits leaves out no test that reaches an edit by what it was credited with.
CreditsAreSafe == ProfTypeOK /\ CreditIsWhole /\ NarrowKeepsWhatReaches
=============================================================================

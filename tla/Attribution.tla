----------------------------- MODULE Attribution -----------------------------
(***************************************************************************)
(* tools/mutate/profile.ts buildProfile and what mutate.ts does with it: the    *)
(* test files are run one by one with the profiler, what each left is merged,   *)
(* and a mutant's run is narrowed to the tests, and the files, that reach it.   *)
(***************************************************************************)
EXTENDS Profile, SequencesExt

CONSTANTS
    Suites,       \* [file -> [test name -> the lines it executes]] there may be
    Instrumented, \* lines that carry a coverage point
    Counting,     \* of those, the ones the compiler did not fold into their callers
    Costs,        \* what a file may take
    Touched       \* the lines of an edit, as sets

ASSUME AttributionAssumption ==
    /\ Costs \subseteq Nat /\ Counting \subseteq Instrumented
    /\ \A s \in Suites : IsFiniteSet(DOMAIN s)

VARIABLES
    suite1,       \* the test files and their tests
    toRunFiles,   \* files that have not been profiled, in order
    left,         \* [file -> what its process wrote], of those that wrote
    linesTo, homeOf, knownLines, costOf, \* the profile
    merged,       \* files whose output has been read
    selected      \* <<>>, or the run of one mutant

attributionVars == <<suite1, toRunFiles, left, linesTo, homeOf, knownLines, costOf, merged, selected>>

TestFiles1 == DOMAIN suite1
\* testFilesIn: what there is, sorted; a directory that is not there has none.
TestFilesIn == SetToSeq(TestFiles1)
AttInit ==
    /\ suite1 \in Suites /\ toRunFiles = TestFilesIn
    /\ left = <<>> /\ linesTo = [l \in Instrumented |-> {}] /\ homeOf = <<>> /\ knownLines = {}
    /\ costOf = <<>> /\ merged = {} /\ selected = <<>>

-----------------------------------------------------------------------------
\* Map.set.
Put(map, key, value) == [k \in DOMAIN map \cup {key} |-> IF k = key THEN value ELSE map[k]]
\* What the finished tests were credited with, as Profile has it: what they executed that counts.
\* The dumps of behind were half written when they were read: a later test has them, or nobody.
Own(f, t) == suite1[f][t] \cap Counting
Credits(f, ran, behind, to) ==
    [t \in ran |-> UNION {Own(f, u) : u \in {x \in ran : IF x \in behind THEN to[x] = t ELSE x = t}}]
\* unload: the lines with a point in what this process loaded, and the credits.  A file none of
\* whose tests finished leaves nothing.
Unload(credits, behind, all) == [all |-> all, tests |-> credits, behind |-> behind]
\* A file is timed whatever comes of it; one that dies has credited what finished before.
ProfileFile ==
    /\ toRunFiles # <<>> /\ toRunFiles' = Tail(toRunFiles)
    /\ LET f == Head(toRunFiles) IN
       /\ \E ran \in SUBSET DOMAIN suite1[f] : \E behind \in SUBSET ran :
          \E to \in [behind -> ran \cup {"nobody"}] :
          LET credits == Credits(f, ran, behind, to) IN
          \E all \in {Instrumented, UNION {credits[t] : t \in ran}} :
            left' = IF ran = {} THEN left ELSE Put(left, f, Unload(credits, behind, all))
       /\ \E c \in Costs : costOf' = Put(costOf, f, c)
    /\ UNCHANGED <<suite1, linesTo, homeOf, knownLines, merged, selected>>
\* The files are read in the order of the directory; a test's home is where it was read last.
LinesWith(raw) == [l \in Instrumented |-> linesTo[l] \cup {t \in DOMAIN raw.tests : l \in raw.tests[t]}]
MergeFile(f) ==
    /\ toRunFiles = <<>> /\ f \in DOMAIN left \ merged /\ merged' = merged \cup {f}
    /\ LET raw == left[f] IN
       /\ knownLines' = knownLines \cup raw.all /\ linesTo' = LinesWith(raw)
       /\ homeOf' = [t \in DOMAIN raw.tests \cup DOMAIN homeOf |-> IF t \in DOMAIN raw.tests THEN f ELSE homeOf[t]]
    /\ UNCHANGED <<suite1, toRunFiles, left, costOf, selected>>

\* byCost: cheapest first, what was not measured last.
Before(a, b) ==
    /\ a \in DOMAIN costOf
    /\ b \notin DOMAIN costOf \/ costOf[a] < costOf[b]
ByCost(files) ==
    CHOOSE s \in [1 .. Cardinality(files) -> files] :
        IsInjective(s) /\ \A i, j \in DOMAIN s : i < j => ~Before(s[j], s[i])
\* selectTests, planFor and the worker's choice of files.
SelectTests(span) == UNION {linesTo[l] : l \in span \cap knownLines}
SelectRun(span) ==
    LET tests == SelectTests(span)
        narrow == span \cap knownLines # {} /\ tests # {}
        files == {homeOf[t] : t \in tests}
    IN  IF narrow THEN [files |-> ByCost(files), filter |-> tests, span |-> span]
        ELSE [files |-> ByCost(TestFiles1), filter |-> UNION {DOMAIN suite1[f] : f \in TestFiles1}, span |-> span]
RunMutant ==
    /\ toRunFiles = <<>> /\ merged = DOMAIN left /\ selected = <<>>
    /\ \E span \in Touched : selected' = <<SelectRun(span)>>
    /\ UNCHANGED <<suite1, toRunFiles, left, linesTo, homeOf, knownLines, costOf, merged>>

AttNext == ProfileFile \/ (\E f \in TestFiles1 : MergeFile(f)) \/ RunMutant
AttSpec == AttInit /\ [][AttNext]_attributionVars

-----------------------------------------------------------------------------
\* Type invariant.
AttTypeOK ==
    /\ merged \subseteq DOMAIN left /\ DOMAIN left \subseteq TestFiles1 /\ knownLines \subseteq Instrumented
    /\ DOMAIN homeOf = UNION {DOMAIN left[f].tests : f \in merged}

\* Runs(f, t): the command of the mutant's run includes test t of file f.
Runs(f, t) == f \in Range(selected[1].files) /\ t \in selected[1].filter
Unique == \A f, g \in TestFiles1 : f # g => DOMAIN suite1[f] \cap DOMAIN suite1[g] = {}
\* What the profile should have of a test that finished: its credit, and what it executed that
\* counts unless its dump came late.
Due1(f, t) == left[f].tests[t] \cup (IF t \in left[f].behind THEN {} ELSE Own(f, t))

\* A test that reaches a counting line of the edit, and whose dump was whole in time, runs in its own
\* file, whatever the order the profiles were read in: when test names are not shared, every such
\* test that finished; when they are, the test of that name in one file at least (profile.ts:
\* under-selection is a wrong answer).  So does whoever has the credit of another's late dump.
ReachingTestRuns ==
    selected # <<>> =>
        \A f \in DOMAIN left : \A t \in DOMAIN left[f].tests :
            Due1(f, t) \cap selected[1].span # {} =>
                /\ t \in selected[1].filter /\ \E g \in TestFiles1 : t \in DOMAIN suite1[g] /\ Runs(g, t)
                /\ Unique => Runs(f, t)

\* The run's files are in order of what they took, each once, and a run that is not narrowed, one for
\* an unhit edit included, leaves no test out (profile.ts byCost: ordering only ever changes when a
\* verdict is reached).
CheapestFirst ==
    selected # <<>> =>
        LET files == selected[1].files IN
        /\ IsInjective(files)
        /\ \A i, j \in DOMAIN files : i < j => costOf[files[i]] <= costOf[files[j]]
        /\ SelectTests(selected[1].span) = {} =>
             \A f \in TestFiles1 : \A t \in DOMAIN suite1[f] : Runs(f, t)

\* The run chosen for a mutant has every test credited with reaching it, cheapest file first.
NarrowedRunIsEnough == AttTypeOK /\ ReachingTestRuns /\ CheapestFirst

\* Narrowing a mutant's run is safe as far as the counters go, from end to end: tests are credited
\* with all they execute that counts and was dumped in time (Profile), and the run made of those
\* credits has every test that reaches the edit by them.
NarrowingIsSafe == CreditsAreSafe /\ NarrowedRunIsEnough
=============================================================================

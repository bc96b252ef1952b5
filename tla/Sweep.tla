------------------------------- MODULE Sweep -------------------------------
(***************************************************************************)
(* tools/mutate.ts: a mutation sweep.  Mutants are selected, compiled to      *)
(* discard the equivalent ones, and run against the tests that could notice   *)
(* them, several at a time, each in a staged copy of the project; the exit    *)
(* code is what the sweep says of the suite.                                *)
(*                                                                         *)
(* A mutant is a record: "files" it edits, "hash" of each of them compiled     *)
(* with it ("base" as without it, "none" when it does not compile),           *)
(* "control" (mustSurvive), "excused" (ratioOnly, equivalent or listed in     *)
(* known.ts), "listed" (in known.ts), "fate" of its tests when they run        *)
(* ("passes", "fails" or "hangs") and "plan".                               *)
(***************************************************************************)
EXTENDS Integers, Sequences, FiniteSets

CONSTANTS
    Rosters,      \* the mutants a sweep may be given, as sequences
    Owner,        \* [file -> its package]
    Entries,      \* entry files
    Includes,     \* [Entries -> the files an entry's program is made of]
    Jobs          \* --jobs

ASSUME SweepAssumption ==
    /\ Jobs \in Nat \ {0}
    /\ \A e \in Entries : e \in Includes[e] /\ Includes[e] \subseteq DOMAIN Owner
    /\ \A r \in Rosters :
         /\ Len(r) \in Nat /\ DOMAIN r = 1 .. Len(r)
         /\ \A i \in DOMAIN r : /\ r[i].files \subseteq DOMAIN Owner
                                /\ r[i].fate \in {"passes", "fails", "hangs"}

VARIABLES
    mutants,      \* the selected mutants
    broken,       \* curated mutations that could not be located
    step,         \* "start", "stage", "baseline", "trees", "run", "finally", "report", "exited"
    dryRun, verdict, \* per mutant: "run", "equivalent", "duplicate", "invalid"
    red,          \* scopes whose tests fail unmutated
    trees,        \* per staged copy: what each file holds, 0 the source or a mutant's index
    next,         \* measurable mutants handed out
    worker,       \* per worker: [at, index, todo, timedOut]
    results,      \* [index, killed, notCovered] in the order they came
    hurried,      \* history: a timer has fired on tests that would have ended
    thrown,       \* the run ends with an exception
    exit          \* the exit code, -1 while it runs

sweepVars == <<mutants, broken, step, dryRun, verdict, red, trees, next, worker, results,
               hurried, thrown, exit>>
inputVars == <<mutants, broken, dryRun>>
runVars == <<next, worker, results, hurried>>

Files == DOMAIN Owner
None == [f \in Files |-> 0]      \* a staged copy as it was staged

-----------------------------------------------------------------------------
(* Selecting *)

\* The packages whose programs include a file.
Dependents(f) == {Owner[e] : e \in {e \in Entries : f \in Includes[e]}}
\* Whose tests could notice: the packages that include an edited file, and its own.
TestDirs(m) == UNION {Dependents(f) \cup {Owner[f]} : f \in m.files}
Scopes(ms) == {TestDirs(m) : m \in ms}

Signature(m) == [f \in m.files |-> m.hash[f]]
Base(m) == [f \in m.files |-> "base"]
\* A mutant that compiles to what is there already, or to what another compiled to, is not
\* run.  A control is run whatever it compiles to.
Triage(ms, i) ==
    LET m == ms[i]
    IN  IF \E f \in m.files : m.hash[f] = "none" THEN "invalid"
        ELSE IF m.control THEN "run"
        ELSE IF Signature(m) = Base(m) THEN "equivalent"
        ELSE IF \E j \in 1 .. i - 1 : ~ms[j].control /\ Signature(ms[j]) = Signature(m)
        THEN "duplicate" ELSE "run"

ToRun == {i \in DOMAIN mutants : verdict[i] = "run"}
\* What is run and whose tests pass without it, in the order of the mutants.
Measured == {i \in ToRun : TestDirs(mutants[i]) \notin red}
Measurable ==
    CHOOSE s \in [1 .. Cardinality(Measured) -> Measured] : \A i, j \in DOMAIN s : i < j => s[i] < s[j]

SweepInit ==
    /\ mutants \in Rosters /\ broken \in 0 .. 1 /\ dryRun \in BOOLEAN
    /\ step = "start" /\ verdict = <<>> /\ red = {} /\ trees = <<>> /\ next = 0
    /\ worker = <<>> /\ results = <<>> /\ hurried = FALSE /\ thrown = FALSE /\ exit = -1

Exits(code) == step' = "exited" /\ exit' = code

\* Nothing selected, a file that does not compile before any mutation, or a dry run ends it;
\* otherwise every mutant is compiled and given a verdict.
Compile ==
    /\ step = "start"
    /\ \/ mutants = <<>> /\ Exits(IF broken > 0 THEN 1 ELSE 2) /\ UNCHANGED verdict
       \/ mutants # <<>> /\ Exits(1) /\ UNCHANGED verdict
       \/ /\ mutants # <<>> /\ verdict' = [i \in DOMAIN mutants |-> Triage(mutants, i)]
          /\ IF dryRun THEN Exits(0) ELSE step' = "stage" /\ UNCHANGED exit
    /\ UNCHANGED <<inputVars, red, trees, runVars, thrown>>

-----------------------------------------------------------------------------
(* Staging and the unmutated run *)

\* A copy that fails throws into the finally.
StageFirst ==
    /\ step = "stage" /\ trees' = <<None>>
    /\ \/ step' = "baseline" /\ UNCHANGED thrown
       \/ step' = "finally" /\ thrown' = TRUE
    /\ UNCHANGED <<inputVars, verdict, red, runVars, exit>>
\* Every scope is run unmutated; a sweep with none that passes has nothing to measure and
\* leaves at once, its copy where it is.
Baseline ==
    LET scopes == Scopes({mutants[i] : i \in ToRun})
    IN  /\ step = "baseline"
        /\ red' \in SUBSET scopes
        /\ IF red' = scopes THEN Exits(2) ELSE step' = "trees" /\ UNCHANGED exit
        /\ UNCHANGED <<inputVars, verdict, trees, runVars, thrown>>
\* One job when any test spawns programs of its own, then a copy for each job.
StageRest ==
    /\ step = "trees"
    /\ \E jobs \in {1, Jobs} :
         /\ trees' = [w \in 1 .. jobs |-> None]
         /\ worker' = [w \in 1 .. jobs |-> [at |-> "yield", index |-> 0, todo |-> {},
                                            timedOut |-> FALSE]]
    /\ step' = "run"
    /\ UNCHANGED <<inputVars, verdict, red, next, results, hurried, thrown, exit>>

-----------------------------------------------------------------------------
(* The workers.  A step of one runs from an await to the next. *)

Running == step \in {"run", "finally"} /\ trees # <<>>
Mutant(w) == mutants[Measurable[worker[w].index]]
Set(w, at) == worker' = [worker EXCEPT ![w].at = at]

\* yieldToOthers waits for the load to fall, a bounded time, and then the next mutant is
\* taken and the first of its files written.
Take(w) ==
    /\ Running /\ worker[w].at = "yield" /\ next' = next + 1
    /\ IF next + 1 > Len(Measurable) THEN Set(w, "done")
       ELSE worker' = [worker EXCEPT ![w].at = "write", ![w].index = next + 1,
                                     ![w].timedOut = FALSE,
                                     ![w].todo = mutants[Measurable[next + 1]].files]
    /\ UNCHANGED <<inputVars, step, verdict, red, trees, results, hurried, thrown, exit>>
WriteFile(w) ==
    /\ Running /\ worker[w].at = "write"
    /\ \E f \in worker[w].todo :
         /\ trees' = [trees EXCEPT ![w][f] = Measurable[worker[w].index]]
         /\ worker' = [worker EXCEPT ![w].todo = @ \ {f},
                         ![w].at = IF worker[w].todo = {f} THEN "test" ELSE "write"]
    /\ UNCHANGED <<inputVars, step, verdict, red, next, results, hurried, thrown, exit>>
\* A write that fails ends Promise.all: the finally begins under the other workers.
MutantNotWritten(w) ==
    /\ step = "run" /\ worker[w].at \in {"write", "restore"}
    /\ step' = "finally" /\ thrown' = TRUE /\ Set(w, "done")
    /\ UNCHANGED <<inputVars, verdict, red, trees, next, results, hurried, exit>>

\* The deadline is ten times what the scope took unmutated, within a floor and a cap.
Deadline(w) == worker[w].at = "test"
TimesOut(w) ==
    /\ Running /\ Deadline(w) /\ ~worker[w].timedOut
    /\ worker' = [worker EXCEPT ![w].timedOut = TRUE]
    /\ hurried' = (hurried \/ Mutant(w).fate # "hangs")
    /\ UNCHANGED <<inputVars, step, verdict, red, trees, next, results, thrown, exit>>
\* The tests end, killed by the timer or by themselves, and the result is recorded.  The
\* narrowed tests are those that could react, so their verdict is the scope's.
Killed(w) == worker[w].timedOut \/ Mutant(w).fate = "fails"
Record1(w, m) ==
    [index |-> worker[w].index, killed |-> Killed(w),
     notCovered |-> m.plan = "unhit" /\ ~Killed(w)]
TestsEnd(w) ==
    /\ Running /\ worker[w].at = "test" /\ (Mutant(w).fate = "hangs" => worker[w].timedOut)
    /\ results' = Append(results, Record1(w, Mutant(w)))
    /\ worker' = [worker EXCEPT ![w].at = "restore", ![w].todo = Mutant(w).files]
    /\ UNCHANGED <<inputVars, step, verdict, red, trees, next, hurried, thrown, exit>>
RestoreFirst(w) ==      \* mutant: only one of the files is put back
    /\ Running /\ worker[w].at = "restore"
    /\ \E f \in worker[w].todo :
         trees' = [trees EXCEPT ![w][f] = 0] /\ Set(w, "yield")
    /\ UNCHANGED <<inputVars, step, verdict, red, next, results, hurried, thrown, exit>>
Restore(w) ==
    /\ Running /\ worker[w].at = "restore"
    /\ \E f \in worker[w].todo :
         /\ trees' = [trees EXCEPT ![w][f] = 0]
         /\ worker' = [worker EXCEPT ![w].todo = @ \ {f},
                         ![w].at = IF worker[w].todo = {f} THEN "yield" ELSE "restore"]
    /\ UNCHANGED <<inputVars, step, verdict, red, next, results, hurried, thrown, exit>>
AllDone ==
    /\ step = "run" /\ \A w \in DOMAIN worker : worker[w].at = "done"
    /\ step' = "finally"
    /\ UNCHANGED <<inputVars, verdict, red, trees, runVars, thrown, exit>>

\* finally removes every copy; an exception goes on to end the process.
Finally ==
    /\ step = "finally" /\ trees' = <<>>
    /\ IF thrown THEN Exits(1) ELSE step' = "report" /\ UNCHANGED exit
    /\ UNCHANGED <<inputVars, verdict, red, runVars, thrown>>

-----------------------------------------------------------------------------
(* The report *)

Of(r) == mutants[Measurable[r.index]]
All == {results[i] : i \in DOMAIN results}
Controls == {r \in All : Of(r).control}
Real == All \ Controls
NotNoop == {r \in Controls : Signature(Of(r)) # Base(Of(r))}
RealSurvivors == {r \in Real : ~r.killed /\ ~Of(r).excused}
StaleKnown == {r \in Real : r.killed /\ Of(r).listed}
ControlsVerdict ==
    IF NotNoop # {} \/ (\E r \in Controls : r.killed) THEN 2 ELSE 0
Report ==
    /\ step = "report"
    /\ Exits(IF ControlsVerdict # 0 THEN 2
             ELSE IF RealSurvivors # {} \/ broken > 0 \/ StaleKnown # {} THEN 1 ELSE 0)
    /\ UNCHANGED <<inputVars, verdict, red, trees, runVars, thrown>>
\* A signal says so and leaves: no score, and the copies stay.
Signal ==
    /\ step \notin {"start", "exited"} /\ Exits(130)
    /\ UNCHANGED <<inputVars, verdict, red, trees, runVars, thrown>>

WorkerStep(w) == Take(w) \/ WriteFile(w) \/ TestsEnd(w) \/ Restore(w)
SweepNext ==
    \/ Compile \/ StageFirst \/ Baseline \/ StageRest
    \/ \E w \in DOMAIN worker : WorkerStep(w) \/ MutantNotWritten(w) \/ TimesOut(w)
    \/ AllDone \/ Finally \/ Report \/ Signal
\* The sweep's own steps are taken, a test run that can end does and a timer that is set fires.
SweepFair ==
    /\ WF_sweepVars(StageFirst \/ Baseline \/ StageRest \/ AllDone \/ Finally \/ Report)
    /\ \A w \in 1 .. Jobs :
         /\ WF_sweepVars(w \in DOMAIN worker /\ WorkerStep(w))
         /\ WF_sweepVars(w \in DOMAIN worker /\ TimesOut(w))

SweepSpec == SweepInit /\ [][SweepNext]_sweepVars /\ SweepFair

-----------------------------------------------------------------------------
(* Properties *)

\* The sweep's state is made of the parts above.
SweepTypeOK ==
    /\ mutants \in Rosters /\ broken \in 0 .. 1 /\ exit \in {-1, 0, 1, 2, 130}
    /\ step \in {"start", "stage", "baseline", "trees", "run", "finally", "report", "exited"}
    /\ Len(trees) <= Jobs /\ Len(worker) <= Jobs
    /\ \A w \in DOMAIN trees : trees[w] \in [Files -> 0 .. Len(mutants)]
    /\ \A r \in All : r.index \in DOMAIN mutants

\* While a worker's tests run, its copy is the project with that worker's mutant and nothing
\* else in it, whatever ran there before.
TreeHoldsItsMutant ==
    \A w \in DOMAIN worker :
      (Running /\ worker[w].at = "test") =>
        \A f \in Files : trees[w][f] = IF f \in Mutant(w).files THEN Measurable[worker[w].index] ELSE 0

\* The workers' loop: every measurable mutant is run once, by one worker, however their waits
\* interleave, and the report is over all of them.
EveryMutantOnce ==
    /\ \A i, j \in DOMAIN results : results[i].index = results[j].index => i = j
    /\ step = "report" => {r.index : r \in All} = DOMAIN Measurable

\* "Counting them is what inflates a mutation score": what is scored as killed compiled, was
\* not what was there already, was not scored under another name, and had tests that passed
\* without it.
ScoreIsHonest ==
    step = "report" =>
      \A r \in Real :
        /\ \E f \in Of(r).files : Of(r).hash[f] # "base"
        /\ \A f \in Of(r).files : Of(r).hash[f] # "none"
        /\ TestDirs(Of(r)) \notin red
        /\ \A q \in Real : Signature(Of(q)) = Signature(Of(r)) => q = r

\* A mutant set aside as another's duplicate is scored under it: there is a mutant that is no
\* control, runs, and compiles to the same.
DuplicateHasOriginal ==
    \A i \in DOMAIN verdict :
      verdict[i] = "duplicate" =>
        \E j \in 1 .. i - 1 : /\ verdict[j] = "run" /\ ~mutants[j].control
                              /\ Signature(mutants[j]) = Signature(mutants[i])

\* A clean exit after a report tells the truth: no test run was cut short unless its time was
\* up, every pattern applied, every control was a no-op and survived, and each mutant that is
\* not excused and whose tests pass unmutated in every package that includes it was caught.
CleanExitTellsTruth ==
    (exit = 0 /\ ~dryRun /\ ~hurried) =>
      /\ broken = 0
      /\ \A i \in ToRun :
           LET m == mutants[i]
               packages == {Owner[f] : f \in m.files}
                             \cup {Owner[e] : e \in {e \in Entries : Includes[e] \cap m.files # {}}}
           IN  packages \notin red =>
                 IF m.control THEN m.fate = "passes" /\ Signature(m) = Base(m)
                 ELSE m.excused \/ m.fate # "passes"

\* A mutant that hangs its tests is killed at the deadline, so a sweep that has begun ends.
SweepEnds == step = "stage" ~> step = "exited"

\* A sweep's verdicts are true: each mutant ran once and alone in its tree, the score counts only
\* what counts, and a clean exit means what it says (the workers' loop, triage, the report).
SweepTellsTheTruth ==
    /\ SweepTypeOK /\ TreeHoldsItsMutant /\ EveryMutantOnce
    /\ ScoreIsHonest /\ DuplicateHasOriginal /\ CleanExitTellsTruth
=============================================================================

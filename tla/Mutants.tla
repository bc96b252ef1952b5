------------------------------- MODULE Mutants -------------------------------
(***************************************************************************)
(* tools/mutate: where mutants come from.  operators.ts finds the functions   *)
(* and the literals worth changing in a file's tokens, mutate.ts locates the   *)
(* curated edits, sample.ts draws a sample, types.ts applies what was chosen.  *)
(* Each is a pure function: one step applies it to the input of the initial    *)
(* state.                                                                   *)
(***************************************************************************)
EXTENDS Integers, Sequences, FiniteSets, SequencesExt, FiniteSetsExt

CONSTANTS
    TextLength,     \* bound: symbols of a file
    FileSizes,      \* bound: how many mutants a file may have
    MaxDraw,        \* bound: --sample=
    MaxMembers,     \* bound: literals of one shape
    Fragments,      \* declarations a file is made of: [tokens, kind, body, literal]
    MaxFragments    \* bound: declarations in a file

VARIABLES given, made

mutantVars == <<given, made>>

Texts == UNION {[1 .. n -> {"a", "b"}] : n \in 0 .. TextLength}
Edits == {e \in [start : 0 .. TextLength, end : 0 .. TextLength, put : {<<>>, <<"x", "y">>}] :
            e.start < e.end}
Raws == [find : {<<"a">>, <<"a", "a">>, <<"a", "b">>}, nth : 0 .. 3]      \* nth 0: not given
Problem == -1
Inputs ==
    {[what |-> "apply", text |-> [i \in 1 .. TextLength |-> i], edits |-> <<e, f>>] :
        e \in Edits, f \in Edits}
    \cup {[what |-> "locate", text |-> t, raws |-> r] : t \in Texts, r \in SeqOf(Raws, 2) \ {<<>>}}
    \cup {[what |-> "sample", sizes |-> s, n |-> n] : s \in [1 .. 3 -> FileSizes], n \in 1 .. MaxDraw}
    \cup {[what |-> "spread", members |-> m, perShape |-> p] :
        m \in 1 .. MaxMembers, p \in {3, MaxMembers}}
    \cup {[what |-> "functions", parts |-> p] : p \in SeqOf(Fragments, MaxFragments) \ {<<>>}}

MutInit == given \in Inputs /\ made = <<>>

--------------------------------------------------------------------------------
\* applyEdits, a file's edits from the right to the left, each by the offsets of the original.
Replace(text, e) == SubSeq(text, 1, e.start) \o e.put \o SubSeq(text, e.end + 1, Len(text))
Applied(text, edits) == FoldLeft(Replace, text, SortSeq(edits, LAMBDA a, b : a.start > b.start))
Apply ==
    /\ given.what = "apply" /\ made = <<>>
    /\ made' = <<Applied(given.text, given.edits)>> /\ UNCHANGED given

\* locate: every place the pattern starts at, overlapping ones too; more than one needs an nth.
Hits(text, find) ==
    SetToSortSeq({i \in 0 .. Len(text) - Len(find) : SubSeq(text, i + 1, i + Len(find)) = find},
                 LAMBDA a, b : a < b)
PlaceFirst(text, raw) ==      \* mutant: of several places the first is taken
    LET hits == Hits(text, raw.find) IN
    IF Len(hits) = 0 \/ raw.nth > Len(hits) THEN Problem ELSE hits[Max({1, raw.nth})]
Place(text, raw) ==
    LET hits == Hits(text, raw.find) IN
    IF Len(hits) = 0 \/ (Len(hits) > 1 /\ raw.nth = 0) \/ raw.nth > Len(hits) THEN Problem
    ELSE hits[Max({1, raw.nth})]
\* One edit that cannot be placed makes a problem of the whole mutation.
Placed(text, raws) ==
    LET places == [r \in DOMAIN raws |-> Place(text, raws[r])]
    IN  IF \E r \in DOMAIN raws : places[r] = Problem THEN <<>> ELSE places
Locate ==
    /\ given.what = "locate" /\ made = <<>>
    /\ made' = <<Placed(given.text, given.raws)>> /\ UNCHANGED given

\* sampleMutants: one mutant of each file that still has one, round after round, until there are
\* n.  The shuffle within a file decides which mutant its next one is, not how many it gives.
Round(sizes, picked, round, n) ==
    LET turns == SetToSortSeq({f \in DOMAIN sizes : round < sizes[f]}, LAMBDA a, b : a < b)
        took == [i \in 1 .. Len(turns) |-> <<turns[i], round>>]
    IN  picked \o SubSeq(took, 1, Min({n - Len(picked), Len(took)}))
Population(sizes) == FlattenSeq([f \in DOMAIN sizes |-> [k \in 1 .. sizes[f] |-> <<f, k - 1>>]])
SampleMutants(sizes, n) ==
    IF n >= Len(Population(sizes)) THEN Population(sizes)      \* the input is returned as it is
    ELSE FoldLeft(LAMBDA picked, r : Round(sizes, picked, r - 1, n), <<>>,
                  [r \in 1 .. Max({sizes[f] : f \in DOMAIN sizes}) |-> r])
Draw ==
    /\ given.what = "sample" /\ made = <<>>
    /\ made' = <<SampleMutants(given.sizes, given.n)>> /\ UNCHANGED given

\* literalWanted: all the literals of a shape when they are few, otherwise perShape of them,
\* Math.round(k (n - 1) / (perShape - 1)).
Wanted(members, perShape) ==
    IF members <= perShape THEN 0 .. members - 1
    ELSE {(2 * k * (members - 1) + perShape - 1) \div (2 * (perShape - 1)) : k \in 0 .. perShape - 1}
Spread ==
    /\ given.what = "spread" /\ made = <<>>
    /\ made' = <<Wanted(given.members, given.perShape)>> /\ UNCHANGED given

--------------------------------------------------------------------------------
\* functions: at depth 0, a ( after an identifier with a type before it, and after its matching )
\* a { with its matching }.  The scan goes on behind the body.
TokensOf(parts) == FlattenSeq([p \in DOMAIN parts |-> parts[p].tokens])
Nesting(ts, from, to, open, close) ==
    Cardinality({k \in from .. to : ts[k] = open}) - Cardinality({k \in from .. to : ts[k] = close})
Closing(ts, from, open, close) ==      \* 0 when it is never closed
    LET ends == {k \in from .. Len(ts) : Nesting(ts, from, k, open, close) = 0}
    IN  IF ends = {} THEN 0 ELSE Min(ends)
Breaks == {"export", ";", "}", "{", ","}
Typed(ts, i) == i > 2 /\ ts[i - 1] = "ident" /\ ts[i - 2] \notin Breaks
Body(ts, i) ==
    LET p == Closing(ts, i, "(", ")") + 1
    IN  IF p = 1 \/ p > Len(ts) THEN <<0, 0>>
        ELSE IF ts[p] # "{" THEN <<0, 0>> ELSE <<p, Closing(ts, p, "{", "}")>>
Scan(ts, s, i) ==
    IF i < s.next THEN s
    ELSE IF ts[i] = "{" THEN [s EXCEPT !.depth = @ + 1]
    ELSE IF ts[i] = "}" THEN [s EXCEPT !.depth = @ - 1]
    ELSE IF s.depth # 0 \/ ts[i] # "(" \/ ~Typed(ts, i) \/ Body(ts, i)[2] = 0 THEN s
    ELSE [s EXCEPT !.found = Append(@, Body(ts, i)), !.next = Body(ts, i)[2] + 1]
Functions1(ts) == FoldLeft(LAMBDA s, i : Scan(ts, s, i), [depth |-> 0, next |-> 1, found |-> <<>>],
                           [i \in 1 .. Len(ts) |-> i]).found
\* What a literal belongs to: the function around it, or the last const begun before it.
ScopesAt(ts) ==
    LET fs == Range(Functions1(ts))
        In(i) == {f \in fs : f[1] <= i /\ i <= f[2]}
        consts == {k \in 1 .. Len(ts) : ts[k] = "const" /\ In(k) = {}}
    IN  [i \in 1 .. Len(ts) |->
            IF In(i) # {} THEN [of |-> "function", at |-> (CHOOSE f \in In(i) : TRUE)[1]]
            ELSE [of |-> "const", at |-> Max({0} \cup {k \in consts : k <= i})]]
FindFunctions ==
    /\ given.what = "functions" /\ made = <<>>
    /\ made' = <<[found |-> Functions1(TokensOf(given.parts)), scopes |-> ScopesAt(TokensOf(given.parts))]>>
    /\ UNCHANGED given

MutNext == Apply \/ Locate \/ Draw \/ Spread \/ FindFunctions

--------------------------------------------------------------------------------
Is(what) == given.what = what /\ made # <<>>
Result == made[1]

\* Type invariant.
MutTypeOK == Len(made) <= 1 /\ (Is("spread") => Result \subseteq 0 .. MaxMembers - 1)

\* Edits that do not overlap apply together: every symbol outside them is kept, in order, and
\* each replacement stands where its edit was (types.ts applyEdits).
EditsApplyTogether ==
    Is("apply") /\ (given.edits[1].end <= given.edits[2].start \/ given.edits[2].end <= given.edits[1].start)
    => LET Cell(i) == LET at == {k \in 1 .. 2 : given.edits[k].start = i - 1}
                          over == {k \in 1 .. 2 : given.edits[k].start < i /\ i <= given.edits[k].end}
                      IN  (IF at = {} THEN <<>> ELSE given.edits[CHOOSE k \in at : TRUE].put)
                          \o (IF over = {} THEN <<given.text[i]>> ELSE <<>>)
       IN  Result = FlattenSeq([i \in 1 .. TextLength |-> Cell(i)])

\* A curated edit is placed where its pattern is, and where its nth says; one that could mean two
\* places is a problem and never a guess (mutate.ts locate).
LocateIsExact ==
    Is("locate") =>
        LET Starts(r) == {i \in 0 .. Len(given.text) - Len(r.find) :
                            \A k \in 1 .. Len(r.find) : given.text[i + k] = r.find[k]}
            Meant(r) == {i \in Starts(r) : IF r.nth = 0 THEN Starts(r) = {i}
                                          ELSE Cardinality({s \in Starts(r) : s <= i}) = r.nth}
        IN  IF \E k \in DOMAIN given.raws : Meant(given.raws[k]) = {} THEN Result = <<>>
            ELSE /\ Len(Result) = Len(given.raws)
                 /\ \A k \in DOMAIN Result : Result[k] \in Meant(given.raws[k])

\* A sample has the size asked for, holds nothing twice, and gives no file a second mutant more
\* than another file that has mutants left (sample.ts: every file is represented before any file
\* gets a second).
SampleIsFair ==
    Is("sample") =>
        LET took == [f \in 1 .. 3 |-> Cardinality({k \in DOMAIN Result : Result[k][1] = f})] IN
        /\ Len(Result) = Min({given.n, Len(Population(given.sizes))}) /\ IsInjective(Result)
        /\ \A k \in DOMAIN Result : Result[k][2] < given.sizes[Result[k][1]]
        /\ \A f, g \in 1 .. 3 : took[f] < given.sizes[f] => took[g] <= took[f] + 1

\* The literals of a shape that are changed include the first and the last, and lie as evenly as
\* whole numbers allow (operators.ts: 0, middle, end).
SpreadIsEven ==
    Is("spread") =>
        LET Gap(i) == Min({j \in Result : j > i}) - i
            inner == Result \ {Max(Result)}
        IN  /\ Cardinality(Result) = Min({given.members, given.perShape})
            /\ {0, given.members - 1} \subseteq Result /\ Result \subseteq 0 .. given.members - 1
            /\ \A i, j \in inner : Gap(i) <= Gap(j) + 1

\* Where the tokens of declaration p begin, less one.
Offset(p) == Len(TokensOf(SubSeq(given.parts, 1, p - 1)))
\* The functions found are the top-level function declarations, each with its whole body, whatever
\* stands before it: constants with calls, declarations without a body, structs with methods,
\* generics (operators.ts functions).
FunctionsAreWhole ==
    Is("functions") =>
        Range(Result.found) =
            {<<Offset(p) + given.parts[p].body, Offset(p) + Len(given.parts[p].tokens)>> :
                p \in {q \in DOMAIN given.parts : given.parts[q].kind = "function"}}

\* Literals of two tables or functions are never taken for one repeated statement (operators.ts:
\* six tables are six questions).
TablesStaySeparate ==
    Is("functions") =>
        LET own == {p \in DOMAIN given.parts : given.parts[p].kind \in {"function", "const"}}
            Scope(p) == Result.scopes[Offset(p) + given.parts[p].literal]
        IN  \A p, q \in own : p # q => Scope(p) # Scope(q)

\* Edits land where they belong: located exactly, applied together, sampled fairly, and chosen from
\* whole functions and separate tables.
EditsLandRight ==
    /\ MutTypeOK /\ EditsApplyTogether /\ LocateIsExact /\ SampleIsFair
    /\ SpreadIsEven /\ FunctionsAreWhole /\ TablesStaySeparate
=============================================================================

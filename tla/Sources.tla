------------------------------- MODULE Sources -------------------------------
(***************************************************************************)
(* What a build reads and what it is filed under: harness/wacFiles.ts walks   *)
(* the imports of an entry file, harness/buildCache.ts makes a key of what     *)
(* was read, and tools/deadexports.ts says which exports nothing uses.          *)
(***************************************************************************)
EXTENDS Integers, Sequences, FiniteSets, SequencesExt

CONSTANTS
    Paths,        \* the files there could be
    RootFile,        \* the file a walk starts from
    PartLists,    \* what a key may be made of
    MaxSteps      \* bound: components of an import's path

VARIABLES
    asked,        \* the input
    queue, files, \* the walk's: paths to look at, and files read
    answer        \* <<>> until there is one

sourceVars == <<asked, queue, files, answer>>

\* For deadexports: an export f (or a private function) of a file, a word that file and one other
\* use, called, passed or alone on its line, what the other imports as f or under the alias g, and
\* the TypeScript that names it.
Uses == {{}} \cup {{u} : u \in [word : {"f", "g"}, form : {"called", "passed", "alone"}]}
Froms == {"declaring", "same basename", "elsewhere"}
Asked ==
    {[what |-> "walk", graph |-> g, strict |-> s, there |-> Paths \ m] :
        g \in [Paths -> SUBSET Paths], s \in BOOLEAN, m \in {{}} \cup {{p} : p \in Paths}}
    \cup {[what |-> "resolve", dir |-> d, spec |-> s] :
        d \in SeqOf({"a", ".."}, 2), s \in SeqOf({"a", "b", ".", ".."}, MaxSteps)}
    \cup {[what |-> "key", one |-> p, two |-> q] : p \in PartLists, q \in PartLists}
    \cup {[what |-> "dead", private |-> p, skipped |-> k, here |-> h, there |-> t, imports |-> i, ts |-> s] :
        p \in BOOLEAN, k \in BOOLEAN, h \in Uses, t \in Uses,
        i \in {{}} \cup {{x} : x \in [local : {"f", "g"}, from : Froms]},
        s \in [entry : BOOLEAN, method : BOOLEAN, package : {"home", "other", "none"}, binds : BOOLEAN]}

SrcInit ==
    /\ asked \in Asked /\ answer = <<>> /\ files = {}
    /\ queue = IF asked.what = "walk" THEN <<RootFile>> ELSE <<>>

Answers(a) == answer = <<>> /\ answer' = <<a>> /\ UNCHANGED <<asked, queue, files>>

--------------------------------------------------------------------------------
\* resolveFrom: the parts of the two joined, . and nothing dropped, .. taking back a name before it.
Collapse(parts, part) ==
    IF part = "." THEN parts
    ELSE IF part = ".." /\ parts # <<>> /\ Last(parts) # ".." THEN Front(parts)
    ELSE Append(parts, part)
ResolveFrom(dir, spec) == FoldLeft(Collapse, <<>>, dir \o spec)
Resolve == asked.what = "resolve" /\ Answers(ResolveFrom(asked.dir, asked.spec))

\* wacFilesIn and wacFiles: the next path is read, unless it has been, and its imports queued.
\* One that is not there is left out by the first and thrown by the second.
ImportsOf(path) == SetToSeq(asked.graph[path])
Queued(path) == Tail(queue) \o ImportsOf(path)
Skips(path) == path \in files \/ path \notin asked.there
Walk ==
    /\ asked.what = "walk" /\ answer = <<>> /\ queue # <<>>
    /\ LET path == Head(queue) IN
       IF Skips(path)
       THEN /\ queue' = Tail(queue) /\ UNCHANGED files
            /\ answer' = IF path \notin asked.there /\ asked.strict THEN <<"threw">> ELSE <<>>
       ELSE files' = files \cup {path} /\ queue' = Queued(path) /\ UNCHANGED answer
    /\ UNCHANGED asked
Walked == asked.what = "walk" /\ queue = <<>> /\ Answers("files")

\* contentKey: each part behind its length and a colon.
Digit == <<"0", "1", "2", "3", "4">>
FramedJoined(parts) ==      \* mutant: the parts with a separator between them
    FlattenSeq([p \in DOMAIN parts |-> Append(parts[p], ":")])
Framed(parts) == FlattenSeq([p \in DOMAIN parts |-> <<Digit[Len(parts[p]) + 1], ":">> \o parts[p]])
Key == asked.what = "key" /\ Answers(<<Framed(asked.one), Framed(asked.two)>>)

--------------------------------------------------------------------------------
\* deadexports.  A cross-file use counts in a file that imports the name from one of that basename,
\* under the name it has there; in the declaring file the export's name and every alias of it count.
ImportedInto == {i.local : i \in {x \in asked.imports : x.from # "elsewhere"}}
AliasesOf == {i.local : i \in asked.imports} \ {"f"}
\* A use is seen by its line: an opening bracket behind the name, or in front of it what a value
\* may stand behind.  One alone on its line is not seen.
Seen(uses) == {u.word : u \in {x \in uses : x.form # "alone"}}
Callers == [here |-> Seen(asked.here) \cap ({"f"} \cup AliasesOf),
            there |-> Seen(asked.there) \cap ImportedInto]
\* entry: "f" from anywhere; .f from the export's package, from outside the packages, or from a
\* file that binds modules.
NamedFromTypeScript ==
    asked.ts.entry \/ (asked.ts.method /\ (asked.ts.package \in {"home", "none"} \/ asked.ts.binds))
\* Probes and files that exempt themselves have no declarations.
IsDead ==
    /\ ~asked.skipped
    /\ IF asked.private THEN Callers.here = {}
       ELSE Callers.here = {} /\ Callers.there = {} /\ ~NamedFromTypeScript
ScanExports == asked.what = "dead" /\ Answers(IsDead)

SrcNext == Resolve \/ Walk \/ Walked \/ Key \/ ScanExports

--------------------------------------------------------------------------------
Told(what) == asked.what = what /\ answer # <<>>

\* Type invariant.
SrcTypeOK ==
    /\ Len(answer) <= 1
    /\ files \subseteq Paths /\ Range(queue) \subseteq Paths
    /\ asked.what = "walk" => files \subseteq asked.there

\* A walk ends with exactly the files the entry reaches through files that are there, and the
\* strict one throws exactly when it reaches one that is not (wacFiles.ts wacFilesIn, wacFiles).
WalkIsExact ==
    Told("walk") =>
        LET Closed(S) == RootFile \in S /\ \A p \in S \cap asked.there : asked.graph[p] \subseteq S
            reached == {p \in Paths : \A S \in SUBSET Paths : Closed(S) => p \in S}
        IN  IF answer[1] = "threw" THEN asked.strict /\ ~(reached \subseteq asked.there)
            ELSE files = reached \cap asked.there /\ (asked.strict => reached \subseteq asked.there)

\* A file is never keyed two ways: a step there and back, or a ., anywhere in a path makes no
\* difference to what it resolves to, and what it resolves to resolves to itself (wacFiles.ts
\* resolveFrom).
ResolveIsCanonical ==
    Told("resolve") =>
        LET whole == asked.dir \o asked.spec
            Same(path) == ResolveFrom(<<>>, path) = answer[1]
            With(i, more) == SubSeq(whole, 1, i) \o more \o SubSeq(whole, i + 1, Len(whole))
        IN  /\ Same(answer[1])
            /\ \A i \in 0 .. Len(whole) : Same(With(i, <<".">>)) /\ Same(With(i, <<"b", "..">>))
            /\ "." \notin Range(answer[1])
            \* it goes up as far as the path does
            /\ (\A s \in Range(whole) : s = "..") => answer[1] = whole

\* Two different lists of parts never have one key (buildCache.ts: a length in front of each part
\* cannot be mistaken for the part).
KeyIsExact == Told("key") => (answer[1][1] = answer[1][2] => asked.one = asked.two)

\* An export that is used is not reported: called or passed on one line in its own file, or in a
\* file that imports it from this one, under whatever name, or named from TypeScript as an entry
\* (deadexports.ts callers, namedFromTypeScript).  A value alone on its line is reported.
UsedIsNeverDead ==
    Told("dead") /\ answer[1] =>
        /\ \A u \in asked.here : u.word = "f" => u.form = "alone"
        /\ ~asked.private => ~asked.ts.entry /\ ~(asked.ts.method /\ asked.ts.package = "home")
        /\ ~asked.private => \A i \in asked.imports : i.from = "declaring" =>
             \A u \in asked.there : u.word = i.local => u.form = "alone"

\* The same word in a file that does not import it does not hide an export nothing uses
\* (deadexports.ts: a same-named local somewhere else is a different thing).
OrphanIsFound ==
    Told("dead") /\ ~asked.skipped /\ asked.here = {} /\ asked.imports = {}
    /\ ~asked.ts.entry /\ ~asked.ts.method => answer[1]

\* What a build reads, what it is filed under and what is called dead are exact: the walk, the
\* resolved paths, the key's framing and the uses of an export.
SourcesAreExact ==
    SrcTypeOK /\ WalkIsExact /\ ResolveIsCanonical /\ KeyIsExact /\ UsedIsNeverDead /\ OrphanIsFound
=============================================================================

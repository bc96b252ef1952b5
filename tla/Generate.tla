------------------------------ MODULE Generate ------------------------------
(***************************************************************************)
(* tools/mutate/operators.ts generate: the mutants of a file.  A file is a      *)
(* sequence of symbols, a token or a space or a line feed each; the lexer gives *)
(* a token by its line and column, and every edit is by offset.                *)
(***************************************************************************)
EXTENDS Mutants

CONSTANT Programs      \* [source, operators, perShape]

VARIABLES program, generated
generateVars == <<program, generated>>

GenInit == program \in Programs /\ generated = <<>>

-----------------------------------------------------------------------------
Space == {" ", "\n"}
Literals == {"0", "1", "0xf", "7u"}
Types == {"i32", "void", "bool", "i32?", "S"}
KindOf(symbol) ==
    IF symbol \in Literals THEN "int" ELSE IF symbol \in Types \cup {"f", "g"} THEN "ident" ELSE symbol
\* The lexer: where the tokens are, by line and column, from 1.
Feeds(source, i) == {k \in 1 .. i : source[k] = "\n"}
Lexed(source) ==
    LET places == SelectSeq([i \in 1 .. Len(source) |-> i], LAMBDA i : source[i] \notin Space)
    IN  [t \in DOMAIN places |->
            LET i == places[t] IN
            [text |-> source[i], line |-> 1 + Cardinality(Feeds(source, i)),
             col |-> i - Max({0} \cup Feeds(source, i))]]
\* offsetIndex: offsets count from 0.
OffsetOneLine(source, line, col) ==      \* mutant: a line begins with the line feed before it
    (<<0>> \o SelectSeq([i \in 1 .. Len(source) |-> i - 1], LAMBDA i : source[i + 1] = "\n"))[line] + col - 1
OffsetIndex(source, line, col) ==
    (<<0>> \o SelectSeq([i \in 1 .. Len(source) |-> i], LAMBDA i : source[i] = "\n"))[line] + col - 1
At(source, token) == OffsetIndex(source, token.line, token.col)
Slice(source, start, end) == SubSeq(source, start + 1, end)
EditOf(source, start, end, put) ==
    [start |-> start, end |-> end, put |-> put, was |-> Slice(source, start, end)]

RELATIONAL == ("<" :> {"<=", ">"}) @@ ("==" :> {"!="}) @@ (">=" :> {">", "<="})
\* bumpLiteral: hexadecimal stays so, and a suffixed literal is left alone.
Bumpable == {"0", "1", "0xf"}
BumpLiteral(text) == CASE text = "0" -> "1" [] text = "1" -> "2" [] text = "0xf" -> "0x10"
\* defaultValueFor: a struct has none.
DefaultValueFor(retType) ==
    CASE retType = <<"void">> -> <<"{", " ", "}">>
      [] retType = <<"i32">> -> <<"{", " ", "return", " ", "0", ";", " ", "}">>
      [] retType = <<"bool">> -> <<"{", " ", "return", " ", "false", ";", " ", "}">>
      [] retType = <<"i32?">> -> <<"{", " ", "return", " ", "null", ";", " ", "}">>
      [] OTHER -> <<>>
Normalise(text) == SelectSeq(text, LAMBDA s : s \notin Space)

\* The type of the function whose body opens at token open: what stands before its name, back to
\* the end of what came before.
RetType(ts, open) ==
    LET paren == Max({i \in 1 .. open : ts[i] = "(" /\ Closing(ts, i, "(", ")") = open - 1})
        from == Max({0} \cup {j \in 1 .. paren - 2 : ts[j] \in Breaks})
    IN  <<from + 1, paren - 2>>
\* extreme: a body replaced by its type's simplest value, unless that is what it is.
Same(body, replacement) == Normalise(body) = Normalise(replacement)
Extreme(source, tokens, ts) ==
    UNION {LET start == At(source, tokens[f[1]])
               end == At(source, tokens[f[2]]) + 1
               ret == RetType(ts, f[1])
               put == DefaultValueFor([k \in 1 .. ret[2] - ret[1] + 1 |-> tokens[ret[1] + k - 1].text])
           IN  IF put = <<>> \/ Same(Slice(source, start, end), put) THEN {}
               ELSE {[op |-> "extreme", edit |-> EditOf(source, start, end, put)]} :
           f \in Range(Functions1(ts))}
Relational(source, tokens) ==
    UNION {{[op |-> "relational",
             edit |-> EditOf(source, At(source, tokens[i]), At(source, tokens[i]) + 1, <<alt>>)] :
                alt \in RELATIONAL[tokens[i].text]} :
           i \in {k \in DOMAIN tokens : tokens[k].text \in DOMAIN RELATIONAL}}

\* shapeKey: the scope, and the kinds of the four tokens on either side.
Shape(ts, scopes, i) ==
    <<scopes[i], [k \in -4 .. 4 |-> IF k = 0 THEN "" ELSE IF i + k \in DOMAIN ts THEN ts[i + k] ELSE "^"]>>
Members(tokens) == {i \in DOMAIN tokens : tokens[i].text \in Bumpable}
Chosen(tokens, ts, perShape) ==
    LET scopes == ScopesAt(ts)
        shape == [i \in Members(tokens) |-> Shape(ts, scopes, i)]
        Of1(s) == SelectSeq([i \in DOMAIN tokens |-> i], LAMBDA i : i \in DOMAIN shape /\ shape[i] = s)
    IN  UNION {{Of1(s)[k + 1] : k \in Wanted(Len(Of1(s)), perShape)} : s \in Range(shape)}
Literal(source, tokens, ts, perShape) ==
    {[op |-> "literal", edit |-> EditOf(source, At(source, tokens[i]), At(source, tokens[i]) + 1,
                                        <<BumpLiteral(tokens[i].text)>>)] : i \in Chosen(tokens, ts, perShape)}
\* guard: a trap goes, and the semicolon behind it.
GuardEnd(source, tokens, i) ==
    IF i < Len(tokens) /\ tokens[i + 1].text = ";" THEN At(source, tokens[i + 1]) + 1
    ELSE At(source, tokens[i]) + 1
Guard(source, tokens) ==
    {[op |-> "guard", edit |-> EditOf(source, At(source, tokens[i]), GuardEnd(source, tokens, i), <<>>)] :
        i \in {k \in DOMAIN tokens : tokens[k].text = "trap"}}

GeneratedFrom(p) ==
    LET tokens == Lexed(p.source)
        ts == [i \in DOMAIN tokens |-> KindOf(tokens[i].text)]
        all == Extreme(p.source, tokens, ts) \cup Relational(p.source, tokens)
               \cup Literal(p.source, tokens, ts, p.perShape) \cup Guard(p.source, tokens)
    IN  {x \in all : x.op \in p.operators}
Produces == generated = <<>> /\ generated' = <<GeneratedFrom(program)>> /\ UNCHANGED program
GenNext == Produces

-----------------------------------------------------------------------------
\* Type invariant.
GenTypeOK == Len(generated) <= 1 /\
    (generated # <<>> => \A x \in generated[1] : x.op \in program.operators)

Mutated(x) == Replace(program.source, x.edit)

\* No mutant is the program itself: what it differs in is more than spaces (operators.ts: a body that
\* is the default is not a mutation; no test can tell one program from itself).
MutantIsAnother ==
    generated # <<>> => \A x \in generated[1] : Normalise(Mutated(x)) # Normalise(program.source)

\* An edit lies on the tokens it is about, on whatever line they are: a relational and a literal
\* edit on one token of their kind, a guard on a trap, an extreme edit on a whole body
\* (operators.ts offsetIndex; applyEdits slices by these offsets).
EditLiesOnItsTokens ==
    generated # <<>> => \A x \in generated[1] :
        LET was == x.edit.was first == Head(was) last == Last(was) IN
        /\ was # <<>>
        /\ CASE x.op = "relational" -> was = <<first>> /\ first \in DOMAIN RELATIONAL
             [] x.op = "literal" -> was = <<first>> /\ first \in Bumpable
             [] x.op = "guard" -> first = "trap" /\ last \in {"trap", ";"}
             [] x.op = "extreme" -> first = "{" /\ last = "}" /\ Nesting(was, 1, Len(was), "{", "}") = 0

\* A guard goes with its semicolon: a file in which every ; ends a statement is one after it, too
\* (operators.ts: the first version generated 46 mutants and all 46 failed to compile).
NoEmptyStatement(source) ==
    LET ts == Normalise(source) IN \A i \in DOMAIN ts : ts[i] = ";" => i > 1 /\ ts[i - 1] \notin {";", "{", "}"}
GuardGoesWhole ==
    generated # <<>> /\ NoEmptyStatement(program.source) =>
        \A x \in generated[1] : x.op = "guard" => NoEmptyStatement(Mutated(x))

\* A repeated statement is one experiment: of the literals of a shape no more are changed than the
\* limit, and one of every shape is (operators.ts literalWanted).
EveryShapeIsTried ==
    generated # <<>> /\ "literal" \in program.operators =>
        LET tokens == Lexed(program.source)
            ts == [i \in DOMAIN tokens |-> KindOf(tokens[i].text)]
            changed == {i \in DOMAIN tokens :
                            \E x \in generated[1] : x.op = "literal" /\ x.edit.start = At(program.source, tokens[i])}
            shape == LET scopes == ScopesAt(ts) IN [i \in Members(tokens) |-> Shape(ts, scopes, i)]
            Alike(i) == {j \in Members(tokens) : shape[j] = shape[i]}
        IN  \A i \in Members(tokens) :
                Cardinality(changed \cap Alike(i)) = Min({program.perShape, Cardinality(Alike(i))})

\* Every mutant generated is another program, differs from this one where its operator says, and
\* no shape of literal goes untried.
MutantsAreReal ==
    GenTypeOK /\ MutantIsAnother /\ EditLiesOnItsTokens /\ GuardGoesWhole /\ EveryShapeIsTried
=============================================================================

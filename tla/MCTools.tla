------------------------------- MODULE MCTools -------------------------------
(* The byte pipes (the hosts' queue and the stream transform's rings) and the tools of   *)
(* the repository.  The part that runs is chosen in the initial state; the state of the   *)
(* others stays what it was.                                                          *)
EXTENDS Stream, ByteQueue, Cache, Pool, Suite, Profile, Generate, Sources, Wire,
        Attribution, KeyParts
VARIABLE part
AllTools == {"stream", "queue", "cache", "pool", "suite", "profile", "mutants", "sources", "wire", "generate",
             "attribution", "keyparts"}

WriteSizes == {0, 1, 2, 4}
\* suite: a package without a lane, one with a file in it, and one with nothing else
ThreePackages == [f \in {"json1", "ssh1", "ssh2", "tor1"} |->
                    CASE f = "json1" -> "json" [] f = "tor1" -> "tor" [] OTHER -> "ssh"]
AllSpans == (SUBSET Lines) \ {{}}

\* mutants: functions, a table, a declaration, a struct with a method, a generic
Fragment(ts, kind, body, literal) ==
    [tokens |-> ts, kind |-> kind, body |-> body, literal |-> literal]
Declarations == {
    Fragment(<<"ident", "ident", "(", ")", "{", "int", "}">>, "function", 5, 6),
    Fragment(<<"export", "ident", "ident", "(", "ident", "ident", ",", "ident", "(", ")", ")",
               "{", "{", "int", "}", "}">>, "function", 12, 14),
    Fragment(<<"const", "ident", "ident", "=", "ident", "(", "int", ")", ";">>, "const", 0, 7),
    Fragment(<<"ident", "ident", "(", ")", ";">>, "declared", 0, 1),
    Fragment(<<"ident", "{", "ident", "ident", "(", ")", "{", "int", "}", "}">>, "struct", 0, 8),
    Fragment(<<"ident", "ident", "<", "ident", ">", "(", ")", "{", "ident", "(", ")", "{", "}",
               "int", "}">>, "generic", 0, 14) }
\* generate: functions of several types, their bodies of up to two lines; tables of literals
Pieces == {<<"\n">>, <<"return", "0", ";">>, <<" ", "return", " ", "1", ";">>, <<"f", "<", "0xf", ";">>,
           <<"trap", ";">>, <<"trap", " ", ";", "\n">>, <<"trap">>, <<"{", "}">>, <<"g", ">=", "7u", ";">>,
           <<"return", "false", ";">>}
Table(name, n) == <<"const", "i32", name, "=", "(">> \o FlattenSeq([i \in 1 .. n |-> <<"1", ",", "\n">>]) \o <<")", ";">>
AllOperators == {"relational", "literal", "guard", "extreme"}
SomePrograms ==
    {[source |-> before1 \o <<type, "f", "(", ")", " ", "{">> \o FlattenSeq(body) \o <<"}">>,
      operators |-> AllOperators, perShape |-> 3] :
        before1 \in {<<>>, <<"export", "\n">>, <<"void", "g", "(", ")", "{", "}", "\n">>},
        type \in {"void", "i32", "bool", "i32?", "S"}, body \in SeqOf(Pieces, 2)}
    \cup {[source |-> Table("f", n) \o <<"\n">> \o Table("g", m), operators |-> {"literal"}, perShape |-> 3] :
        n \in {1, 8, 12}, m \in {2, 9}}
\* attribution: two files of one or two tests, some with the same name
LineSets == {{1}, {2, 3}}
SomeSuites == {s \in [{"fa", "fb"} -> UNION {[ns -> LineSets] : ns \in {{"n"}, {"m"}, {"n", "o"}}}] :
                 DOMAIN s["fa"] # {"m"} /\ DOMAIN s["fb"] # {"n", "o"}}
SomeEdits == {{1}, {1, 2}, {2, 3}, {3}}
UpToThree == 0 .. 3
\* wire: a text with two lines, one with a byte order mark, one with a NUL; bytes that are no text
SomeTexts == {<<>>, <<97>>, <<97, 10, 98>>, <<239, 187, 191, 97>>, <<97, 0, 98>>}
SomeBytes == {<<>>, <<0>>, <<255, 1, 0, 0, 0>>}
ShortLists == SeqOf(SeqOf({"1", ":"}, 2), 2)

Init ==
    /\ part \in AllTools
    /\ StreamInit /\ QueueInit /\ CacheInit /\ PoolInit /\ ProfInit
    /\ SuiteInit /\ (part # "suite" => command = "test" /\ targets = {} /\ marker = "unset"
                                       /\ \A p1 \in Pids : owner[p1] = "none")
    /\ \/ part = "mutants" /\ MutInit
       \/ part # "mutants" /\ made = <<>> /\ given = [what |-> "spread", members |-> 1, perShape |-> 3]
    /\ \/ part = "sources" /\ SrcInit
       \/ /\ part # "sources" /\ asked = [what |-> "key", one |-> <<>>, two |-> <<>>]
          /\ queue = <<>> /\ files = {} /\ answer = <<>>
    /\ \/ part = "wire" /\ WireInit
       \/ part # "wire" /\ message = <<>> /\ payload = <<>> /\ readBack = <<>>
    /\ \/ part = "generate" /\ GenInit
       \/ part # "generate" /\ program = <<>> /\ generated = <<>>
    /\ KeyPartsInit /\ (part # "keyparts" => findable)
    /\ \/ part = "attribution" /\ AttInit
       \/ /\ part # "attribution" /\ suite1 = <<>> /\ toRunFiles = <<>> /\ left = <<>> /\ linesTo = <<>>
          /\ homeOf = <<>> /\ knownLines = {} /\ costOf = <<>> /\ merged = {} /\ selected = <<>>

Pipes == <<streamVars, queueVars>>
Pure == <<mutantVars, sourceVars, wireVars, generateVars>>
Counts == <<attributionVars, keyPartVars>>
Harness == <<Counts, cacheVars, poolVars, suiteVars, profVars>>
Next ==
    /\ \/ part = "stream" /\ StreamNext /\ UNCHANGED <<queueVars, Pure, Harness>>
       \/ part = "queue" /\ QueueNext /\ UNCHANGED <<streamVars, Pure, Harness>>
       \/ part = "mutants" /\ MutNext /\ UNCHANGED <<Pipes, sourceVars, wireVars, generateVars, Harness>>
       \/ part = "sources" /\ SrcNext /\ UNCHANGED <<Pipes, mutantVars, wireVars, generateVars, Harness>>
       \/ part = "wire" /\ WireNext /\ UNCHANGED <<Pipes, mutantVars, sourceVars, generateVars, Harness>>
       \/ part = "generate" /\ GenNext /\ UNCHANGED <<Pipes, mutantVars, sourceVars, wireVars, Harness>>
       \/ /\ part = "attribution" /\ AttNext
          /\ UNCHANGED <<Pipes, Pure, keyPartVars, cacheVars, poolVars, suiteVars, profVars>>
       \/ /\ part = "keyparts" /\ KeyPartsNext
          /\ UNCHANGED <<Pipes, Pure, attributionVars, cacheVars, poolVars, suiteVars, profVars>>
       \/ part = "cache" /\ CacheNext /\ UNCHANGED <<Pipes, Pure, Counts, poolVars, suiteVars, profVars>>
       \/ part = "pool" /\ PoolNext /\ UNCHANGED <<Pipes, Pure, Counts, cacheVars, suiteVars, profVars>>
       \/ part = "suite" /\ SuiteNext /\ UNCHANGED <<Pipes, Pure, Counts, cacheVars, poolVars, profVars>>
       \/ part = "profile" /\ ProfNext /\ UNCHANGED <<Pipes, Pure, Counts, cacheVars, poolVars, suiteVars>>
    /\ UNCHANGED part
\* The stream's threads are scheduled, when it is the stream that runs.
Spec ==
    /\ Init /\ [][Next]_<<Pipes, Pure, Harness, part>>
    /\ WF_streamVars(part = "stream" /\ Producer)
    /\ WF_streamVars(part = "stream" /\ Worker)
    /\ WF_streamVars(part = "stream" /\ Consumer)
=============================================================================

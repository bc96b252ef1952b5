----------------------------- MODULE MCServices -----------------------------
(* The programs beside the platform that must end: a TLS connection, an HTTP server, a *)
(* mutation sweep, a test that starts a server and a test that runs a program.  The part *)
(* that runs is chosen in the initial state; the state of the others stays what it was.  *)
EXTENDS TlsStream, Http, Sweep, Retries, AppRun, TLC
CONSTANT Chosen      \* the parts to choose from
VARIABLE part
AllServices == {"tls", "http", "sweep", "retries", "app"}

\* tls: a conversation with a change of cipher, a goodbye with a record behind it, records
\* that do not open and hellos that are refused or broken, a key update, and messages in
\* the wrong phase
PeerScripts ==
    {<<"hello", "ccs", "finished", "app", "app">>, <<"hello", "part", "finished", "app">>,
     <<"hello", "finished", "app", "alert", "app">>, <<"hello", "finished", "app", "bad", "app">>,
     <<"hello", "finished", "update", "refused">>,
     <<"hello", "bad", "finished", "app">>, <<"hello", "refused">>, <<"hello", "app">>,
     <<"wrong", "hello">>, <<"broken", "hello">>, <<"bad">>}
\* http: a client that pipelines two requests, and the project's own
ClientRequests == [c \in Clients |-> IF c = "pipelining" THEN <<TRUE, FALSE>> ELSE <<FALSE>>]

\* sweep: a library and an application that includes it
TestMutant(on, hash, fate, kind) ==
    [files |-> on, hash |-> hash, control |-> FALSE, excused |-> FALSE, listed |-> FALSE,
     fate |-> fate, plan |-> kind]
InOne(f, h, fate) == TestMutant({f}, f :> h, fate, "widen")
InBoth(fate) == TestMutant({"lib", "app"}, [f \in {"lib", "app"} |-> "h1"], fate, "narrow")
ControlMutant == [InOne("lib", "base", "passes") EXCEPT !.control = TRUE]
ListedMutant(fate) == [InOne("app", "h2", fate) EXCEPT !.excused = TRUE, !.listed = TRUE]
TestRosters == {
    <<>>,
    <<ControlMutant, InOne("lib", "h1", "fails"), InOne("lib", "h1", "fails")>>,
    <<InBoth("hangs"), InOne("lib", "h1", "fails"), InOne("app", "base", "passes")>>,
    <<InBoth("fails"), ControlMutant, TestMutant({"app"}, "app" :> "h2", "passes", "unhit")>>,
    <<InOne("lib", "none", "passes"), ListedMutant("passes"), ListedMutant("fails")>>,
    <<[ControlMutant EXCEPT !.hash = ("lib" :> "h1")], InOne("lib", "h1", "passes")>>,
    <<InOne("lib", "h1", "fails"), InOne("app", "h1", "passes")>> }
OwnerOf == ("lib" :> "lib") @@ ("app" :> "app")
IncludesOf == ("lib" :> {"lib"}) @@ ("app" :> {"app", "lib"})

Init ==
    /\ part \in Chosen
    /\ TlsInit /\ (part # "tls" => role = "stream" /\ peer.script = <<"bad">>)
    /\ SweepInit /\ (part # "sweep" => mutants = <<>> /\ broken = 0 /\ dryRun)
    /\ RetryInit /\ (part # "retries" => \A p \in Ports : bound[p] = "free")
    /\ HttpInit /\ AppInit
Next ==
    /\ \/ part = "tls" /\ TlsNext /\ UNCHANGED <<httpVars, sweepVars, retryVars, appVars>>
       \/ part = "http" /\ HttpNext /\ UNCHANGED <<tlsVars, sweepVars, retryVars, appVars>>
       \/ part = "sweep" /\ SweepNext /\ UNCHANGED <<tlsVars, httpVars, retryVars, appVars>>
       \/ part = "retries" /\ RetryNext /\ UNCHANGED <<tlsVars, httpVars, sweepVars, appVars>>
       \/ part = "app" /\ AppNext /\ UNCHANGED <<tlsVars, httpVars, sweepVars, retryVars>>
    /\ UNCHANGED part
\* No action a part's fairness names is enabled before the part has taken its first step, so the
\* fairness of the parts that were not chosen asks nothing.
Spec ==
    /\ Init /\ [][Next]_<<tlsVars, httpVars, sweepVars, retryVars, appVars, part>>
    /\ TlsFair /\ HttpFair /\ SweepFair /\ RetryFair /\ AppFair

\* Every service ends: sockets close, connections give their room back, a sweep whose mutants
\* hang, a server that never says it is ready and a program that wedges all come to an end.
EveryServiceEnds == OneShotCloses /\ ConnectionsEnd /\ SweepEnds /\ EveryStartEnds /\ RunEnds
=============================================================================

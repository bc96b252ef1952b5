------------------------------ MODULE KeyParts ------------------------------
(***************************************************************************)
(* harness/buildCache.ts compilerKeyParts and harnessKeyParts: the sources of    *)
(* what builds are part of a build's key.  A process has loaded them when it      *)
(* began, reads them for the key once, and may be edited under.                *)
(***************************************************************************)
EXTENDS Cache

CONSTANTS
    Processes,    \* processes that build
    MaxEdits      \* bound: edits of the compiler or the harness

ASSUME KeyPartsAssumption == MaxEdits \in Nat

VARIABLES
    onDisk,       \* the version of the sources on disk
    findable,     \* the import map leads to a directory that can be read
    process,      \* per process: [loaded, parts, raced]
    filed         \* [key, by, raced] of what has been cached
keyPartVars == <<onDisk, findable, process, filed>>

Unasked == -1      \* undefined: not asked yet
Null == -2         \* null: cannot be told
NotRunning == [loaded |-> -1, parts |-> Unasked, raced |-> FALSE]

KeyPartsInit ==
    onDisk = 0 /\ findable \in BOOLEAN /\ process = [p \in Processes |-> NotRunning] /\ filed = {}

EditSources == onDisk < MaxEdits /\ onDisk' = onDisk + 1 /\ UNCHANGED <<findable, process, filed>>
\* The compiler's directory cannot be read, or can again.
Hide == findable' = ~findable /\ UNCHANGED <<onDisk, process, filed>>
\* A process starts, and its imports are what is on disk.
StartProcess(p) ==
    /\ process' = [process EXCEPT ![p] = [NotRunning EXCEPT !.loaded = onDisk]]
    /\ UNCHANGED <<onDisk, findable, filed>>
\* compilerKeyParts, remembered once it has been told, null too.
PartsOf(p) ==
    IF process[p].parts # Unasked THEN process[p].parts ELSE IF findable THEN onDisk ELSE Null
\* A build: what cannot be keyed is built and not kept.
Build(p) ==
    /\ process[p].loaded # -1
    /\ LET parts == PartsOf(p)
           first == process[p].parts = Unasked
           raced == process[p].raced \/ (first /\ onDisk # process[p].loaded)
       IN  /\ process' = [process EXCEPT ![p].parts = parts, ![p].raced = raced]
           /\ filed' = IF parts = Null THEN filed
                       ELSE filed \cup {[key |-> parts, by |-> process[p].loaded, raced |-> raced]}
    /\ UNCHANGED <<onDisk, findable>>

KeyPartsNext == EditSources \/ Hide \/ (\E p \in Processes : StartProcess(p) \/ Build(p))
KeyPartsSpec == KeyPartsInit /\ [][KeyPartsNext]_keyPartVars

-----------------------------------------------------------------------------
\* Type invariant.
KeyPartsTypeOK ==
    onDisk \in 0 .. MaxEdits /\ \A p \in Processes : process[p].parts \in {Unasked, Null} \cup 0 .. MaxEdits

\* What is kept under a key was built by the compiler the key names, edits between a process's
\* builds notwithstanding; the one exception is an edit between the process's start and its first build,
\* before which the sources are not read (buildCache.ts: a stale artifact does the most damage when the
\* developer is editing the compiler).
KeyNamesItsCompiler == \A x \in filed : x.key = x.by \/ x.raced

\* A product taken from the cache is whole and was built by the compiler its key names, whatever
\* is killed, pruned or edited meanwhile (cached, prune and compilerKeyParts of buildCache.ts).
CacheTellsTheTruth == CacheIsSafe /\ KeyPartsTypeOK /\ KeyNamesItsCompiler
=============================================================================

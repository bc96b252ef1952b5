------------------------------- MODULE Cache -------------------------------
(***************************************************************************)
(* harness/buildCache.ts: build products kept on disk under a key made of     *)
(* everything they depend on, shared by processes that know nothing of each   *)
(* other and may be killed at any point.                                    *)
(***************************************************************************)
EXTENDS Integers, FiniteSets

CONSTANTS
    Builders,     \* processes calling cached
    Keys,         \* the keys they ask for
    Keep,         \* KEEP: products a prune leaves
    MaxAsked      \* bound: asks of cached, in all

ASSUME CacheAssumption ==
    /\ Keep \in Nat \ {0} /\ MaxAsked \in Nat
    /\ IsFiniteSet(Builders) /\ IsFiniteSet(Keys) /\ Keys # {}

VARIABLES
    product,      \* [Keys -> [at, what]]: the file under a key's name, at 0 when there is none
    tmp,          \* per builder: its temporary file, "none", "part", "whole" or "stale"
    written,      \* per builder: the time of the file it wrote last
    builder,      \* per builder: [at, key, listed]
    clock,        \* the file system's, stepped by what sets a time
    asks

cacheVars == <<product, tmp, written, builder, clock, asks>>

NoFile == [at |-> 0, what |-> "none"]
Present == {k \in Keys : product[k].what # "none"}

CacheInit ==
    /\ product = [k \in Keys |-> NoFile] /\ tmp = [b \in Builders |-> "none"]
    /\ builder = [b \in Builders |-> [at |-> "idle", key |-> CHOOSE k \in Keys : TRUE, listed |-> {}]]
    /\ written = [b \in Builders |-> 0] /\ clock = 1 /\ asks = 0

Goes(b, at) == builder' = [builder EXCEPT ![b].at = at]

\* cached: a product that is there is marked as just used and returned.
Lookup(b, k) ==
    /\ builder[b].at \in {"idle", "returned"} /\ asks < MaxAsked /\ asks' = asks + 1
    /\ IF k \in Present
       THEN /\ builder' = [builder EXCEPT ![b].at = "returned", ![b].key = k]
            /\ product' = [product EXCEPT ![k].at = clock] /\ clock' = clock + 1
       ELSE /\ builder' = [builder EXCEPT ![b].at = "produce", ![b].key = k]
            /\ UNCHANGED <<product, clock>>
    /\ UNCHANGED <<tmp, written>>
\* A name of its own in the same directory, written over time.
ProduceInPlace(b) ==      \* mutant: it is written under its final name
    /\ builder[b].at \in {"produce", "producing"}
    /\ IF builder[b].at = "produce"
       THEN /\ product' = [product EXCEPT ![builder[b].key] = [at |-> clock, what |-> "part"]]
            /\ Goes(b, "producing") /\ UNCHANGED <<tmp, written>>
       ELSE /\ product' = [product EXCEPT ![builder[b].key] = [at |-> clock, what |-> "whole"]]
            /\ tmp' = [tmp EXCEPT ![b] = "whole"] /\ written' = [written EXCEPT ![b] = clock]
            /\ Goes(b, "rename")
    /\ clock' = clock + 1 /\ UNCHANGED asks
Produce(b) ==
    /\ builder[b].at \in {"produce", "producing"}
    /\ IF builder[b].at = "produce"
       THEN /\ tmp' = [tmp EXCEPT ![b] = "part"] /\ Goes(b, "producing")
            /\ UNCHANGED <<written, clock>>
       ELSE /\ tmp' = [tmp EXCEPT ![b] = "whole"] /\ Goes(b, "rename")
            /\ written' = [written EXCEPT ![b] = clock] /\ clock' = clock + 1
    /\ UNCHANGED <<product, asks>>
\* produce throws, and cached with it: its temporary file is left.
ProduceFails(b) ==
    /\ builder[b].at = "producing" /\ Goes(b, "idle")
    /\ UNCHANGED <<product, tmp, written, clock, asks>>
\* rename replaces whatever is there, and the file keeps its time; one that fails removes the
\* temporary file and the other's product is what is returned.
Rename(b) ==
    /\ builder[b].at = "rename" /\ Goes(b, "prune") /\ tmp' = [tmp EXCEPT ![b] = "none"]
    /\ product' = IF tmp[b] = "whole"
                  THEN [product EXCEPT ![builder[b].key] = [at |-> written[b], what |-> tmp[b]]]
                  ELSE product
    /\ UNCHANGED <<written, clock, asks>>

\* prune: the directory as it is listed.  A temporary file goes only when it is older than
\* any build takes.
StaleTmps == {b \in Builders : tmp[b] = "stale"}
Newer(k) == {j \in Present : product[j].at > product[k].at}
Oldest == {k \in Present : Cardinality(Newer(k)) >= Keep}
PruneList(b) ==
    /\ builder[b].at = "prune"
    /\ tmp' = [c \in Builders |-> IF c \in StaleTmps THEN "none" ELSE tmp[c]]
    /\ builder' = [builder EXCEPT ![b].at = "remove", ![b].listed = Oldest]
    /\ UNCHANGED <<product, written, clock, asks>>
\* Then the oldest go, one at a time, by what the listing said.
PruneRemove(b) ==
    /\ builder[b].at = "remove"
    /\ IF builder[b].listed = {} THEN Goes(b, "returned") /\ UNCHANGED product
       ELSE \E k \in builder[b].listed :
              /\ product' = [product EXCEPT ![k] = NoFile]
              /\ builder' = [builder EXCEPT ![b].listed = @ \ {k}]
    /\ UNCHANGED <<tmp, written, clock, asks>>

\* A process is killed wherever it is; what it was writing is left, and grows old.
Crash(b) ==
    /\ builder[b].at \notin {"idle", "returned"} /\ Goes(b, "dead")
    /\ UNCHANGED <<product, tmp, written, clock, asks>>
GrowsOld(b) ==
    /\ tmp[b] \in {"part", "whole"} /\ builder[b].at \in {"dead", "idle"}
    /\ tmp' = [tmp EXCEPT ![b] = "stale"]
    /\ UNCHANGED <<product, written, builder, clock, asks>>

CacheNext ==
    \E b \in Builders :
      \/ \E k \in Keys : Lookup(b, k)
      \/ Produce(b) \/ ProduceFails(b) \/ Rename(b) \/ PruneList(b) \/ PruneRemove(b)
      \/ Crash(b) \/ GrowsOld(b)
CacheSpec == CacheInit /\ [][CacheNext]_cacheVars

-----------------------------------------------------------------------------
(* Properties *)

\* The cache's state is made of the parts above.
CacheTypeOK ==
    /\ \A k \in Keys : product[k].what \in {"none", "part", "whole"}
    /\ \A b \in Builders : /\ tmp[b] \in {"none", "part", "whole", "stale"}
                           /\ builder[b].key \in Keys /\ builder[b].listed \subseteq Keys
    /\ clock \in Nat /\ asks \in 0 .. MaxAsked

\* What stands under a key's name is whole: a process killed inside a build, or one that finds
\* the product while another makes it, never sees half of it.
NeverHalfWritten == \A k \in Keys : product[k].what # "part"

\* prune removes what a dead process left and never the file a live one is about to rename.
LiveTempUntouched == \A b \in Builders : builder[b].at = "rename" => tmp[b] = "whole"

\* Once every process that has made a product has pruned, the directory is within its limit,
\* however their listings and removals interleaved.
CacheIsBounded ==
    (\A b \in Builders : builder[b].at \in {"idle", "returned"}) => Cardinality(Present) <= Keep

\* Processes that build, prune and are killed in any order never see half a product, never lose a
\* live one's file, and leave the directory within its limit.
CacheIsSafe == CacheTypeOK /\ NeverHalfWritten /\ LiveTempUntouched /\ CacheIsBounded
=============================================================================

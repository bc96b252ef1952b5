-------------------------------- MODULE Family --------------------------------
(***************************************************************************)
(* Programs that start programs: the world startChild builds for a child in  *)
(* deno.ts, node.ts and browser.ts, from its parent's options.  What a world *)
(* may do, and where its standard input comes from, is decided there once,   *)
(* so what a grandchild has depends on what two different parents passed on. *)
(***************************************************************************)
EXTENDS Integers, Sequences

CONSTANT MaxWorlds   \* bound: worlds in the family

ASSUME FamilyAssumption == MaxWorlds \in Nat

Kin == {"deno", "node", "browser"}
Grants == {"read", "write", "net", "env"}
Process == 0      \* the process's own standard input
NoInput == -1     \* a page's: none
\* A world's input option: absent, or the queue of the world it was made for.
Omitted == -2

VARIABLES kin, family   \* family[i] = [parent, grants, inherit, option]

kVars == <<kin, family>>

\* The launcher's own world: any grants, and a standard input option or none.
\* A page's directory is writable only if it has one.
KInit ==
    /\ kin \in Kin
    /\ \E g \in SUBSET Grants, option \in {Omitted, 1} :
         /\ kin = "browser" => g \subseteq {"read", "write"} /\ ("write" \in g => "read" \in g)
         /\ family = <<[parent |-> 0, grants |-> g, inherit |-> FALSE, option |-> option]>>

\* What a world reads when its option is absent.
Default == IF kin = "browser" THEN NoInput ELSE Process
Input(i) == IF family[i].option = Omitted THEN Default ELSE family[i].option

Child(p, give, inherit, option) ==
    family' = Append(family, [parent |-> p, grants |-> give, inherit |-> inherit, option |-> option])
Own == Len(family) + 1      \* the queue the parent feeds with send

\* give: what was wanted and the parent has.
DenoGive(p, wanted) == {g \in Grants : g \in wanted /\ g \in family[p].grants}
NodeGive(p, wanted) == {g \in Grants : g \in wanted /\ g \in family[p].grants}
\* A page grants its directory whole: without read there is nothing to write in.
BrowserGive(p, wanted) ==
    LET give == {g \in {"read", "write"} : g \in wanted /\ g \in family[p].grants}
    IN  IF "read" \in give THEN give ELSE {}

\* Deno hands on the options its own world was given, absent or not.
DenoByOmission(p, inherit) ==      \* mutant: an inheriting child's options are left out
    IF inherit THEN Omitted ELSE Own
DenoInput(p, inherit) == IF inherit THEN family[p].option ELSE Own
\* Node spreads io: the readers its own world reads with.
NodeInput(p, inherit) == IF inherit THEN family[p].option ELSE Own
\* A page leaves the options out.
BrowserInput(p, inherit) == IF inherit THEN Omitted ELSE Own

DenoSpawnChild(p, wanted, inherit) ==
    kin = "deno" /\ Child(p, DenoGive(p, wanted), inherit, DenoInput(p, inherit))
NodeSpawnChild(p, wanted, inherit) ==
    kin = "node" /\ Child(p, NodeGive(p, wanted), inherit, NodeInput(p, inherit))
BrowserSpawnChild(p, wanted, inherit) ==
    kin = "browser" /\ Child(p, BrowserGive(p, wanted), inherit, BrowserInput(p, inherit))

KNext ==
    /\ Len(family) < MaxWorlds /\ UNCHANGED kin
    /\ \E p \in DOMAIN family, wanted \in SUBSET Grants, inherit \in BOOLEAN :
         \/ DenoSpawnChild(p, wanted, inherit)
         \/ NodeSpawnChild(p, wanted, inherit)
         \/ BrowserSpawnChild(p, wanted, inherit)

KSpec == KInit /\ [][KNext]_kVars

-----------------------------------------------------------------------------
\* A world's parent and its input option are worlds that came before it.
KTypeOK ==
    /\ kin \in Kin
    /\ \A i \in DOMAIN family :
         /\ family[i].parent \in 0 .. i - 1 /\ family[i].grants \subseteq Grants
         /\ family[i].option \in {Omitted} \cup 1 .. i

\* The worlds a world comes from.
Ancestor(a, i) ==
    LET up[k \in 0 .. Len(family)] == IF k = 0 THEN {} ELSE {k} \cup up[family[k].parent]
    IN  a \in up[family[i].parent]

\* No world can do what any of the worlds above it cannot: startChild narrows to its own
\* options, "which *is* the whole of this world's authority" (deno.ts:245).
AuthorityOnlyShrinks ==
    \A i \in DOMAIN family : \A a \in 1 .. i - 1 :
        Ancestor(a, i) => family[i].grants \subseteq family[a].grants

\* A piped child reads nobody's input but the queue made for it and handed down from it
\* by inheritance: its input is its own, or one of a line of inheriting worlds above it.
InputComesDownTheLine ==
    \A i \in DOMAIN family :
        LET o == family[i].option IN
        o > 0 => o = i \/ (Ancestor(o, i) /\ \A k \in DOMAIN family :
                               (k = i \/ Ancestor(k, i)) /\ k > o /\ Ancestor(o, k) => family[k].inherit)

Inherits == \A i \in DOMAIN family : family[i].inherit => Input(i) = Input(family[i].parent)
\* On Deno and Node "an inheriting child reads what its parent's world reads — the same
\* stream" (deno.ts:295), at every depth.
InheritsItsParentsInput == kin # "browser" => Inherits

\* A child at any depth has no authority its ancestors lack, and reads the input it was given or
\* the one that comes down an unbroken line of inheriting worlds (startChild of the hosts).
ChildGetsNoMore ==
    KTypeOK /\ AuthorityOnlyShrinks /\ InputComesDownTheLine /\ InheritsItsParentsInput
=============================================================================

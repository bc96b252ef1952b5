-------------------------------- MODULE Wire --------------------------------
(***************************************************************************)
(* The payloads that cross the bridge: provider.ts writes what a program       *)
(* asks and reads what it is answered; children.ts, child.ts, faults.ts and     *)
(* browser.ts stand on the other side.  A payload is a sequence of bytes, and    *)
(* text in it is UTF-8.                                                      *)
(***************************************************************************)
EXTENDS Integers, Sequences, SequencesExt

CONSTANTS
    Texts8,       \* texts there may be, as their UTF-8
    Bytes8,       \* byte arrays there may be: arguments, input, files, pixels
    RandomMax,    \* 1 << 20: the random bytes one call may ask for
    RandomBlock   \* 65536: what one getRandomValues fills

ASSUME WireAssumption == RandomMax \in Nat /\ RandomBlock \in Nat \ {0}

VARIABLES message, payload, readBack
wireVars == <<message, payload, readBack>>

NUL == 0
LF == 10
BOM == <<239, 187, 191>>
Names8 == {t \in Texts8 : t # <<>> /\ NUL \notin Range(t)}
NoNul == {t \in Texts8 : NUL \notin Range(t)}
Worlds8 == {"deno", "node", "browser"}
Messages ==
    [what : {"spawn"}, grants : {0, 1}, source : Texts8, args : SeqOf(Bytes8, 2), cwd : NoNul, inheritIn : BOOLEAN]
    \cup [what : {"spawnSelf"}, grants : {0, 3}, args : SeqOf(Bytes8, 2), cwd : NoNul, inheritIn : BOOLEAN]
    \cup [what : {"push"}, argv : SeqOf(NoNul, 2), stdin : Bytes8, cwd : NoNul]
    \cup [what : {"two"}, first : Texts8, second : Texts8]
    \cup [what : {"pixels"}, w : 0 .. 2, h : 0 .. 1, id : Texts8, rgba : {[i \in 1 .. 4 * n |-> i] : n \in 0 .. 2}]
    \cup [what : {"child"}, handle : {-2, -1, 1, 300}, errHandle : {-1, 2}, why : Texts8]
    \cup [what : {"captured"}, out : Bytes8, err : Bytes8]
    \cup [what : {"change"}, fault : 0 .. 2, why : Texts8]
    \cup [what : {"event"}, kind : Names8, id : NoNul, value : NoNul, x : {0, 7}, y : {3}]
    \cup [what : {"picked"}, ok : BOOLEAN, name : Texts8, error : Texts8, bytes : Bytes8]
    \cup [what : {"names"}, names : SeqOf(Names8, 2)]
    \cup [what : {"arg"}, world : Worlds8, own : SeqOf(Bytes8, 2), i : -1 .. 2]
    \cup [what : {"env"}, world : Worlds8, set : BOOLEAN, value : Texts8]
    \cup [what : {"random"}, world : Worlds8, n : -1 .. RandomMax + 1]

WireInit == message \in Messages /\ payload = <<>> /\ readBack = <<>>

-----------------------------------------------------------------------------
\* Little-endian, two's complement.
I32le(n) == <<n % 256, (n \div 256) % 256, (n \div 65536) % 256, (n \div 16777216) % 256>>
ReadI32le(p, at) ==
    LET top == p[at + 4] IN
    (IF top < 128 THEN top ELSE top - 256) * 16777216 + p[at + 3] * 65536 + p[at + 2] * 256 + p[at + 1]
\* subarray(from, to), whose ends stop at the payload's.
Sub(p, from, to) == SubSeq(p, from + 1, IF to > Len(p) THEN Len(p) ELSE to)
Rest(p, from) == Sub(p, from, Len(p))
\* A TextDecoder drops a byte order mark in front.
Unstr(b) == IF Len(b) >= 3 /\ Sub(b, 0, 3) = BOM THEN Rest(b, 3) ELSE b
Flag(on) == <<IF on THEN 1 ELSE 0>>
Prefixed(head, body) == I32le(Len(head)) \o head \o body
Joined(parts) ==
    IF parts = <<>> THEN <<>> ELSE FoldLeft(LAMBDA s, t : s \o <<NUL>> \o t, Head(parts), Tail(parts))
SplitOn(s, mark) ==
    LET cuts == <<0>> \o SelectSeq([i \in 1 .. Len(s) |-> i], LAMBDA i : s[i] = mark) \o <<Len(s) + 1>>
    IN  [k \in 1 .. Len(cuts) - 1 |-> Sub(s, cuts[k], cuts[k + 1] - 1)]

\* argvBytes and unpackArgs: how many, then each behind its length.
ArgvBytes(args) == I32le(Len(args)) \o FlattenSeq([a \in DOMAIN args |-> Prefixed(args[a], <<>>)])
UnpackArgs(p, at) ==
    FoldLeft(LAMBDA s, i : LET len == ReadI32le(p, s.at)
                           IN  [args |-> Append(s.args, Sub(p, s.at + 4, s.at + 4 + len)), at |-> s.at + 4 + len],
             [args |-> <<>>, at |-> at + 4], [i \in 1 .. ReadI32le(p, at) |-> i])

\* spawn and spawnSelf, by what follows the grants and the source.
PackSpawn(x) ==
    I32le(x.grants)
    \o (LET tail == ArgvBytes(x.args) \o Prefixed(x.cwd, Flag(x.inheritIn))
        IN  IF x.what = "spawn" THEN Prefixed(x.source, tail) ELSE tail)
UnpackSpawnSelf(p, at) ==
    LET after == UnpackArgs(p, at)
        cwdLen == ReadI32le(p, after.at)
        flagAt == after.at + 4 + cwdLen
    IN  [args |-> after.args, cwd |-> Unstr(Sub(p, after.at + 4, flagAt)), inheritIn |-> p[flagAt + 1] = 1]
UnpackSpawn(p) ==
    LET sourceLen == ReadI32le(p, 4)
        rest == UnpackSpawnSelf(p, 8 + sourceLen)
    IN  [source |-> Unstr(Sub(p, 8, 8 + sourceLen)), args |-> rest.args, cwd |-> rest.cwd,
         inheritIn |-> rest.inheritIn]
Want(p) == ReadI32le(p, 0)

\* pushChild: the arguments are joined, and their number stands in front.
PackPush(x) ==
    I32le(Len(x.argv)) \o Prefixed(Joined(x.argv), Prefixed(x.cwd, x.stdin))
UnpackPushSplit(p) ==      \* mutant: the count in front is not looked at
    LET argvLen == ReadI32le(p, 4)
        cwdAt == 8 + argvLen
        cwdEnd == cwdAt + 4 + ReadI32le(p, cwdAt)
    IN  [argv |-> SplitOn(Unstr(Sub(p, 8, cwdAt)), NUL),
         cwd |-> Unstr(Sub(p, cwdAt + 4, cwdEnd)), stdin |-> Rest(p, cwdEnd)]
UnpackPush(p) ==
    LET argvLen == ReadI32le(p, 4)
        cwdAt == 8 + argvLen
        cwdEnd == cwdAt + 4 + ReadI32le(p, cwdAt)
    IN  [argv |-> IF ReadI32le(p, 0) = 0 THEN <<>> ELSE SplitOn(Unstr(Sub(p, 8, cwdAt)), NUL),
         cwd |-> Unstr(Sub(p, cwdAt + 4, cwdEnd)), stdin |-> Rest(p, cwdEnd)]

TwoStrings(p) == LET n == ReadI32le(p, 0) IN [first |-> Unstr(Sub(p, 4, 4 + n)), second |-> Unstr(Rest(p, 4 + n))]
PackPixels(x) == I32le(x.w) \o I32le(x.h) \o Prefixed(x.id, x.rgba)
DrawPixels(p) ==
    LET n == ReadI32le(p, 8) IN
    IF Len(Rest(p, 12 + n)) # ReadI32le(p, 0) * ReadI32le(p, 4) * 4 THEN [threw |-> TRUE]
    ELSE [w |-> ReadI32le(p, 0), h |-> ReadI32le(p, 4), id |-> Unstr(Sub(p, 12, 12 + n)), rgba |-> Rest(p, 12 + n)]

\* Answers.  Of the reason a child did not start, the first line.
TwoHandles(handle, errHandle, why) == I32le(handle) \o I32le(errHandle) \o SplitOn(why, LF)[1]
ChildAnswered(p) ==
    LET handle == ReadI32le(p, 0)
    IN  [handle |-> handle, errHandle |-> ReadI32le(p, 4), error |-> IF handle < 0 THEN Unstr(Rest(p, 8)) ELSE <<>>]
PackCaptured(out, err) == Prefixed(out, err)
CapturedAnswered(p) == LET n == ReadI32le(p, 0) IN [out |-> Sub(p, 4, 4 + n), err |-> Rest(p, 4 + n)]
ChangeBytes(fault, why) == <<fault>> \o why
ChangeAnswered(p) == [fault |-> p[1], why |-> Unstr(Rest(p, 1))]
Figure(n) == <<48 + n>>      \* bound: coordinates of one digit
NextEvent(x) == Joined(<<x.kind, x.id, x.value, Figure(x.x), Figure(x.y)>>)
EventAnswered(p) ==
    LET parts == SplitOn(Unstr(p), NUL)
        Number(t) == IF t = <<>> THEN 0 ELSE t[1] - 48
    IN  [kind |-> parts[1], id |-> parts[2], value |-> parts[3], x |-> Number(parts[4]), y |-> Number(parts[5])]
NextFile(x) == Flag(x.ok) \o Prefixed(x.name, Prefixed(x.error, x.bytes))
Picked8(p) ==
    LET n == ReadI32le(p, 1) e == ReadI32le(p, 5 + n)
    IN  [ok |-> p[1] = 1, name |-> Unstr(Sub(p, 5, 5 + n)), error |-> Unstr(Sub(p, 9 + n, 9 + n + e)),
         bytes |-> Rest(p, 9 + n + e)]
ReadDir(x) == Joined(x.names)
NamesAnswered(p) == [names |-> IF p = <<>> THEN <<>> ELSE SplitOn(Unstr(p), NUL)]
\* An argument out of range is empty; a variable has a byte in front that says it is set, and a page
\* has none.
ArgOf(own, i) == IF i >= 0 /\ i < Len(own) THEN own[i + 1] ELSE <<>>
DenoArgs(x) == IF x.what = "arg" THEN ArgOf(x.own, x.i) ELSE IF x.set THEN <<1>> \o x.value ELSE <<0>>
NodeArgs(x) == IF x.what = "arg" THEN ArgOf(x.own, x.i) ELSE IF x.set THEN <<1>> \o x.value ELSE <<0>>
BrowserArgs(x) == IF x.what = "arg" THEN ArgOf(x.own, x.i) ELSE <<0>>
HostArgs(x) ==
    CASE x.world = "deno" -> DenoArgs(x) [] x.world = "node" -> NodeArgs(x) [] x.world = "browser" -> BrowserArgs(x)
MaybeBytes8(p) == [set |-> p[1] = 1, value |-> IF p[1] = 1 THEN Rest(p, 1) ELSE <<>>]
\* randomBytes(n); 1 marks a byte that has been filled.  getRandomValues throws above a block, so only
\* the world that fills block by block answers more.
Threw == <<256>>
InRange(n) == n >= 0 /\ n <= RandomMax
GetRandomValues(n) == IF n > RandomBlock THEN Threw ELSE [i \in 1 .. n |-> 1]
DenoRandom(n) == IF ~InRange(n) THEN Threw ELSE GetRandomValues(n)
NodeRandom(n) ==
    IF ~InRange(n) THEN Threw
    ELSE FlattenSeq([k \in 1 .. (n + RandomBlock - 1) \div RandomBlock |->
            LET at == (k - 1) * RandomBlock
            IN  GetRandomValues((IF at + RandomBlock < n THEN at + RandomBlock ELSE n) - at)])
BrowserRandom(n) == IF ~InRange(n) THEN Threw ELSE GetRandomValues(n)
RandomBytes(x) ==
    CASE x.world = "deno" -> DenoRandom(x.n) [] x.world = "node" -> NodeRandom(x.n)
      [] x.world = "browser" -> BrowserRandom(x.n)

-----------------------------------------------------------------------------
Written(x) ==
    CASE x.what \in {"spawn", "spawnSelf"} -> PackSpawn(x)
      [] x.what = "push" -> PackPush(x)
      [] x.what = "two" -> Prefixed(x.first, x.second)
      [] x.what = "pixels" -> PackPixels(x)
      [] x.what = "child" -> TwoHandles(x.handle, x.errHandle, x.why)
      [] x.what = "captured" -> PackCaptured(x.out, x.err)
      [] x.what = "change" -> ChangeBytes(x.fault, x.why)
      [] x.what = "event" -> NextEvent(x)
      [] x.what = "picked" -> NextFile(x)
      [] x.what = "names" -> ReadDir(x)
      [] x.what \in {"arg", "env"} -> HostArgs(x)
      [] x.what = "random" -> RandomBytes(x)
Parsed(x, p) ==
    CASE x.what = "spawn" -> UnpackSpawn(p)
      [] x.what = "spawnSelf" -> UnpackSpawnSelf(p, 4)
      [] x.what = "push" -> UnpackPush(p)
      [] x.what = "two" -> TwoStrings(p)
      [] x.what = "pixels" -> DrawPixels(p)
      [] x.what = "child" -> ChildAnswered(p)
      [] x.what = "captured" -> CapturedAnswered(p)
      [] x.what = "change" -> ChangeAnswered(p)
      [] x.what = "event" -> EventAnswered(p)
      [] x.what = "picked" -> Picked8(p)
      [] x.what = "names" -> NamesAnswered(p)
      [] x.what \in {"arg", "random"} -> p
      [] x.what = "env" -> MaybeBytes8(p)

WriteIt == payload = <<>> /\ payload' = <<Written(message)>> /\ UNCHANGED <<message, readBack>>
ReadIt ==
    /\ payload # <<>> /\ readBack = <<>> /\ readBack' = <<Parsed(message, payload[1])>>
    /\ UNCHANGED <<message, payload>>
WireNext == WriteIt \/ ReadIt

-----------------------------------------------------------------------------
\* Type invariant: a payload is bytes, or the mark of a call that threw.
WireTypeOK == /\ Len(payload) <= 1 /\ Len(readBack) <= 1
              /\ payload # <<>> => \A i \in DOMAIN payload[1] : payload[1][i] \in 0 .. 256

Crossed(what) == readBack # <<>> /\ message.what = what
\* Of texts joined, a byte order mark in front is all that is lost.
Less(parts) == IF parts = <<>> THEN parts ELSE <<Unstr(Head(parts))>> \o Tail(parts)

\* What a program asks for arrives as it was asked: a child's source, its arguments byte for byte
\* (empty ones, NULs and what is not UTF-8 included), its directory, its grants and whether it
\* inherits input; a pushed child's arguments, none told from one empty one; two strings; a picture
\* whose size fits (children.ts: three copies of a length-prefixed walk is three chances to disagree).
RequestArrives ==
    /\ Crossed("spawn") =>
        /\ Want(payload[1]) = message.grants
        /\ readBack[1] = [source |-> Unstr(message.source), args |-> message.args,
                          cwd |-> Unstr(message.cwd), inheritIn |-> message.inheritIn]
    /\ Crossed("spawnSelf") =>
        /\ Want(payload[1]) = message.grants
        /\ readBack[1] = [args |-> message.args, cwd |-> Unstr(message.cwd), inheritIn |-> message.inheritIn]
    /\ Crossed("push") =>
        readBack[1] = [argv |-> Less(message.argv), cwd |-> Unstr(message.cwd), stdin |-> message.stdin]
    /\ Crossed("two") => readBack[1] = [first |-> Unstr(message.first), second |-> Unstr(message.second)]
    /\ Crossed("pixels") =>
        readBack[1] = IF Len(message.rgba) # 4 * message.w * message.h THEN [threw |-> TRUE]
                      ELSE [w |-> message.w, h |-> message.h, id |-> Unstr(message.id), rgba |-> message.rgba]

\* What the host answers arrives as it was answered: the handles of a child, with a reason of one
\* line exactly when there is no child; a popped child's two streams apart; a fault and its words;
\* the fields of an event; a picked file's name, error and bytes; the names in a directory.
AnswerArrives ==
    /\ Crossed("child") =>
        /\ readBack[1].handle = message.handle /\ readBack[1].errHandle = message.errHandle
        /\ LF \notin Range(readBack[1].error)
        /\ readBack[1].error = IF message.handle >= 0 THEN <<>> ELSE Unstr(Head(SplitOn(message.why, LF)))
    /\ Crossed("captured") => readBack[1] = [out |-> message.out, err |-> message.err]
    /\ Crossed("change") => readBack[1] = [fault |-> message.fault, why |-> Unstr(message.why)]
    /\ Crossed("event") =>
        readBack[1] = [kind |-> Unstr(message.kind), id |-> message.id, value |-> message.value,
                       x |-> message.x, y |-> message.y]
    /\ Crossed("picked") =>
        readBack[1] = [ok |-> message.ok, name |-> Unstr(message.name), error |-> Unstr(message.error),
                       bytes |-> message.bytes]
    /\ Crossed("names") => readBack[1] = [names |-> Less(message.names)]
    /\ Crossed("arg") => readBack[1] = IF message.i \in 0 .. Len(message.own) - 1 THEN message.own[message.i + 1] ELSE <<>>
    /\ Crossed("env") /\ message.world # "browser" =>
        readBack[1].set = message.set /\ (message.set => readBack[1].value = message.value)

\* Random bytes are refused or random to the last: what is answered has the length asked for and no
\* byte that was not filled, and within one block no world refuses, nor Node below the
\* limit (node.ts RANDOM_BYTES fills block by block; deno.ts and browser.ts fill at once).
RandomIsWhole ==
    Crossed("random") =>
        IF readBack[1] = Threw THEN message.n \notin 0 .. (IF message.world = "node" THEN RandomMax ELSE RandomBlock)
        ELSE /\ Len(readBack[1]) = message.n /\ message.n <= RandomMax
             /\ \A i \in DOMAIN readBack[1] : readBack[1][i] = 1

\* Both sides of the bridge read what the other wrote: requests, answers and random bytes.
PayloadsCross == WireTypeOK /\ RequestArrives /\ AnswerArrives /\ RandomIsWhole
=============================================================================

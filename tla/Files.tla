-------------------------------- MODULE Files --------------------------------
(***************************************************************************)
(* The streams and files of a world: source, sink, the stack of pushed       *)
(* programs (child.ts) and the handlers over them in deno.ts, node.ts and    *)
(* browser.ts, with the decoding provider.ts gives their answers.           *)
(*                                                                         *)
(* A handler runs to its first await in one step, and each later await ends  *)
(* another: handlers of other tickets come between.  write and readChunk     *)
(* block the program.  A path is a name; a write is a sequence of tokens     *)
(* <<call, i>>.                                                             *)
(***************************************************************************)
EXTENDS Integers, Sequences, FiniteSets

CONSTANTS
    Paths,       \* names the program uses
    ShortWrites, \* BOOLEAN: the kernel may take a part of a file's write
    CAP,         \* what one pushed program may write
    MaxOpening,  \* bound: calls in flight together
    FileCalls    \* bound: calls that write, push or wait

ASSUME FilesAssumption ==
    CAP \in Nat /\ FileCalls \in Nat /\ MaxOpening \in Nat
    /\ ShortWrites \in BOOLEAN /\ "" \notin Paths

Worlds == {"deno", "node", "browser"}
Absent == -1
Dir == -2
Sizes == {1, 2}

VARIABLES
    world, grants,     \* which host, and the file grants the launcher gave
    disk,              \* name -> Absent, Dir or the call whose bytes it holds
    files,             \* every file opened: [name, mode, open, got]
    source, sink,      \* 0 for none, or the file's place in files
    opening,           \* calls between two awaits
    frames,            \* the pushed programs: [fed, out]
    stdout, captured,  \* what reached standard output, and what pops answered with
    outputFailure,
    made,              \* history: mkdirs that answered ok, by name, since it was absent
    acked,             \* history: tokens whose write answered true
    inside,            \* history: calls made while a program was pushed
    overlapped,        \* history: two opens of one stream were in flight together
    unsaid,            \* history: a call without its grant was told something else
    recvs,             \* RECV(0) calls waiting for the host's standard input
    strayed,           \* history: the operations that gave it to a pushed program
    fileCalls          \* such calls made so far

streamVars == <<files, source, sink>>
histVars == <<made, acked, inside, overlapped, unsaid, recvs, strayed>>
fVars == <<world, grants, disk, streamVars, opening, frames, stdout, captured,
           outputFailure, histVars, fileCalls>>

\* A page's directory is one grant: it cannot be written without being readable.
FInit ==
    /\ world \in Worlds /\ grants \in SUBSET {"read", "write"}
    /\ world = "browser" /\ "write" \in grants => "read" \in grants
    /\ disk = [n \in Paths |-> Absent]
    /\ files = <<>> /\ source = 0 /\ sink = 0 /\ opening = {}
    /\ frames = <<>> /\ stdout = <<>> /\ captured = <<>> /\ outputFailure = ""
    /\ made = [n \in Paths |-> 0] /\ acked = {} /\ inside = {} /\ overlapped = FALSE
    /\ unsaid = FALSE /\ recvs = {} /\ strayed = {} /\ fileCalls = 0

-----------------------------------------------------------------------------
(* ChildStack *)

Active == frames # <<>>
Top == frames[Len(frames)]
SetTop(f) == [frames EXCEPT ![Len(frames)] = f]

Tokens(n) == [i \in 1 .. n |-> <<fileCalls + 1, i>>]
Fits(n) == Len(Top.out) + n <= CAP

ThisCall ==
    /\ fileCalls < FileCalls
    /\ fileCalls' = fileCalls + 1
    /\ inside' = IF Active THEN inside \cup {fileCalls + 1} ELSE inside

Push(fed) ==
    /\ ThisCall
    /\ frames' = Append(frames, [fed |-> fed, out |-> <<>>])
    /\ UNCHANGED <<world, grants, disk, streamVars, opening, stdout, captured, outputFailure,
                   made, acked, overlapped, unsaid, recvs, strayed>>
Pop ==
    /\ captured' = IF Active THEN Append(captured, Top.out) ELSE captured
    /\ frames' = IF Active THEN SubSeq(frames, 1, Len(frames) - 1) ELSE frames
    /\ UNCHANGED <<world, grants, disk, streamVars, opening, stdout, outputFailure,
                   made, acked, inside, fileCalls, overlapped, unsaid, recvs, strayed>>

\* Core.log: the line and its newline are kept with the output, and a full frame
\* drops them without a word.
Log ==
    /\ ThisCall
    /\ LET t == Tokens(1) IN
       IF ~Active THEN stdout' = stdout \o t /\ UNCHANGED frames
       ELSE /\ frames' = IF Fits(1) THEN SetTop([Top EXCEPT !.out = @ \o t]) ELSE frames
            /\ UNCHANGED stdout
    /\ UNCHANGED <<world, grants, disk, streamVars, opening, captured, outputFailure,
                   made, acked, overlapped, unsaid, recvs, strayed>>
\* Diagnostics are kept without a cap; what they say is left out.
Warn == UNCHANGED fVars

DenoPush(fed) == world = "deno" /\ Push(fed)
NodePush(fed) == world = "node" /\ Push(fed)
BrowserPush(fed) == world = "browser" /\ Push(fed)
DenoLog == world = "deno" /\ Log
NodeLog == world = "node" /\ Log
BrowserLog == world = "browser" /\ Log
DenoWarn == world = "deno" /\ Warn
NodeWarn == world = "node" /\ Warn
BrowserWarn == world = "browser" /\ Warn

-----------------------------------------------------------------------------
(* WRITE_STDOUT and WRITE_STDERR *)

Reasons == {"", "disk full"}     \* a broken pipe is recorded as no reason at all
WriteUnchanged ==
    UNCHANGED <<world, grants, disk, source, sink, opening, captured, made, overlapped,
                unsaid, recvs, strayed>>

\* A pushed program's write is kept, or refused whole when its buffer is full.
WriteInside(n) ==
    /\ Active
    /\ IF Fits(n)
       THEN /\ frames' = SetTop([Top EXCEPT !.out = @ \o Tokens(n)])
            /\ acked' = acked \cup {Tokens(n)[i] : i \in 1 .. n}
       ELSE UNCHANGED <<frames, acked>>
    /\ UNCHANGED <<files, stdout, outputFailure>>

\* k of the n tokens reach where they were going.
Reach(n, k) ==
    LET t == SubSeq(Tokens(n), 1, k) IN
    IF sink # 0 THEN files' = [files EXCEPT ![sink].got = @ \o t] /\ UNCHANGED stdout
                ELSE stdout' = stdout \o t /\ UNCHANGED files
WriteOut(n) ==
    /\ ~Active
    /\ Reach(n, n) /\ acked' = acked \cup {Tokens(n)[i] : i \in 1 .. n}
    /\ UNCHANGED <<frames, outputFailure>>
\* It fails part-way: recorded, and the program's write answers false.
WriteFails(n, k, why) ==
    /\ ~Active /\ k < n
    /\ Reach(n, k) /\ outputFailure' = why
    /\ UNCHANGED <<frames, acked>>

\* Deno writes until everything is written.
DenoWrite(n) ==
    /\ world = "deno" /\ ThisCall /\ WriteUnchanged
    /\ \/ WriteInside(n) \/ WriteOut(n)
       \/ \E k \in 0 .. n - 1, why \in Reasons : WriteFails(n, k, why)
\* Node's file is written with one call whose count nobody looks at.
NodeWrite(n) ==
    /\ world = "node" /\ ThisCall /\ WriteUnchanged
    /\ \/ WriteInside(n) \/ WriteOut(n)
       \/ \E why \in Reasons : WriteFails(n, 0, why)
NodeWriteShort(n) ==
    /\ ShortWrites /\ world = "node" /\ ThisCall /\ WriteUnchanged
    /\ ~Active /\ sink # 0 /\ n > 1
    /\ Reach(n, n - 1) /\ acked' = acked \cup {Tokens(n)[i] : i \in 1 .. n}
    /\ UNCHANGED <<frames, outputFailure>>
\* A page has no pipe to break, and its own writer is not waited for.
BrowserWrite(n) ==
    /\ world = "browser" /\ ThisCall /\ WriteUnchanged
    /\ \/ WriteInside(n) \/ WriteOut(n)
       \/ sink # 0 /\ WriteFails(n, 0, "disk full")
\* Standard error is never redirected.
Complain == UNCHANGED <<world, grants, disk, streamVars, opening, frames, stdout, captured,
                        histVars, fileCalls>>
DenoWriteErr ==
    world = "deno" /\ Complain
        /\ (UNCHANGED outputFailure \/ (~Active /\ outputFailure' \in Reasons))
NodeWriteErr ==
    world = "node" /\ Complain
        /\ (UNCHANGED outputFailure \/ (~Active /\ outputFailure' \in Reasons))
BrowserWriteErr == world = "browser" /\ Complain /\ UNCHANGED outputFailure

-----------------------------------------------------------------------------
(* READ_CHUNK, READ_STDIN and RECV(0) *)

SupplyUnfed ==       \* mutant: a pushed program that was fed nothing more asks the host
    IF source # 0 THEN "file"
    ELSE IF Active /\ Top.fed > 0 THEN "fed" ELSE "standard input"
\* Where a readChunk's bytes come from: source is looked at first.  READ_STDIN never
\* looks at it.
Supply ==
    IF source # 0 THEN "file"
    ELSE IF Active THEN "fed" ELSE "standard input"
SupplyAll == IF Active THEN "fed" ELSE "standard input"
ReadUnchanged ==
    UNCHANGED <<world, grants, disk, streamVars, opening, stdout, captured, outputFailure,
                made, acked, inside, fileCalls, overlapped, unsaid, recvs>>
Strays(op, from) ==
    strayed' = IF Active /\ from = "standard input" THEN strayed \cup {op} ELSE strayed

Reads(from) ==
    /\ frames' = IF from = "fed" /\ Top.fed > 0 THEN SetTop([Top EXCEPT !.fed = @ - 1]) ELSE frames
    /\ Strays("readChunk", from) /\ ReadUnchanged
DenoReadChunk == world = "deno" /\ Reads(Supply)
NodeReadChunk == world = "node" /\ Reads(Supply)
BrowserReadChunk == world = "browser" /\ Reads(Supply)

ReadAll ==
    /\ frames' = IF SupplyAll = "fed" THEN SetTop([Top EXCEPT !.fed = 0]) ELSE frames
    /\ Strays("readStdin", SupplyAll) /\ ReadUnchanged
DenoReadStdin == world = "deno" /\ ReadAll
NodeReadStdin == world = "node" /\ ReadAll
BrowserReadStdin == world = "browser" /\ ReadAll

\* RECV of handle 0 asks neither source nor the stack: it waits for the host's standard
\* input (or what a spawned world was piped) whoever asked, and programs are pushed and
\* popped meanwhile.
RecvStdin ==
    /\ ThisCall /\ recvs' = recvs \cup {fileCalls + 1}
    /\ UNCHANGED <<world, grants, disk, streamVars, opening, frames, stdout, captured, outputFailure,
                   made, acked, overlapped, unsaid, strayed>>
RecvAnswers(c) ==
    /\ recvs' = recvs \ {c}
    /\ strayed' = IF c \in inside THEN strayed \cup {"recv"} ELSE strayed
    /\ UNCHANGED <<world, grants, disk, streamVars, opening, frames, stdout, captured, outputFailure,
                   made, acked, inside, fileCalls, overlapped, unsaid>>
DenoRecvInput == world = "deno" /\ (RecvStdin \/ \E c \in recvs : RecvAnswers(c))
NodeRecvInput == world = "node" /\ (RecvStdin \/ \E c \in recvs : RecvAnswers(c))
\* A page's own standard input is at its end at once; a child's is what its parent sent.
BrowserRecvInput == world = "browser" /\ (UNCHANGED fVars \/ RecvStdin \/ \E c \in recvs : RecvAnswers(c))

-----------------------------------------------------------------------------
(* OPEN_INPUT and OPEN_OUTPUT *)

Streams == {"in", "out"}
Needs(s) == IF s = "in" THEN "read" ELSE "write"
Held(s) == IF s = "in" THEN source ELSE sink
Hold(s, i) == IF s = "in" THEN source' = i /\ UNCHANGED sink ELSE sink' = i /\ UNCHANGED source
CloseFile(i) == [j \in DOMAIN files |-> IF j = i THEN [files[j] EXCEPT !.open = FALSE] ELSE files[j]]

Opening(s, name, stage) ==
    /\ Cardinality(opening) < MaxOpening
    /\ opening' = opening \cup {[call |-> fileCalls + 1, op |-> s, name |-> name, to |-> "",
                                 stage |-> stage]}
    /\ overlapped' = (overlapped \/ \E o \in opening : o.op = s)
Advance(o, stage) == opening' = (opening \ {o}) \cup {[o EXCEPT !.stage = stage]}
OpenUnchanged ==
    UNCHANGED <<world, grants, disk, frames, stdout, captured, outputFailure, made, acked, recvs, strayed>>

ChangeOf(thrown, fault) == IF thrown THEN "other" ELSE fault
Refused(thrown) == unsaid' = (unsaid \/ ChangeOf(thrown, "not granted") # "not granted")

\* Deno closes the stream it holds before its first await.
DenoOpenForgets(s, name) ==      \* mutant: the stream is let go of and not closed
    /\ world = "deno" /\ ThisCall /\ OpenUnchanged
    /\ UNCHANGED files /\ Hold(s, 0)
    /\ \/ name \in Paths /\ Needs(s) \in grants /\ Opening(s, name, "open") /\ UNCHANGED unsaid
       \/ name \notin Paths /\ UNCHANGED <<opening, overlapped, unsaid>>
DenoOpen(s, name) ==
    /\ world = "deno" /\ ThisCall /\ OpenUnchanged
    /\ files' = CloseFile(Held(s)) /\ Hold(s, 0)
    /\ \/ name \in Paths /\ Needs(s) \in grants /\ Opening(s, name, "open") /\ UNCHANGED unsaid
       \/ name \in Paths /\ Needs(s) \notin grants /\ Refused(FALSE) /\ UNCHANGED <<opening, overlapped>>
       \/ name \notin Paths /\ UNCHANGED <<opening, overlapped, unsaid>>

\* Node waits for the close, and forgets the stream only then.
NodeOpen(s, name) ==
    /\ world = "node" /\ ThisCall /\ OpenUnchanged
    /\ files' = CloseFile(Held(s)) /\ UNCHANGED <<source, sink, unsaid>>
    /\ Opening(s, name, "closing")
NodeClosed(o) ==
    /\ world = "node" /\ o.stage = "closing"
    /\ OpenUnchanged /\ Hold(o.op, 0) /\ UNCHANGED <<files, overlapped, inside, fileCalls>>
    /\ \/ o.name \in Paths /\ Needs(o.op) \in grants /\ Advance(o, "open") /\ UNCHANGED unsaid
       \/ o.name \in Paths /\ Needs(o.op) \notin grants /\ Refused(FALSE) /\ opening' = opening \ {o}
       \/ o.name \notin Paths /\ opening' = opening \ {o} /\ UNCHANGED unsaid

\* A page's input is a blob; its output file is closed behind an await.
BrowserOpenInput(name) ==
    /\ world = "browser" /\ ThisCall /\ OpenUnchanged
    /\ files' = CloseFile(source) /\ Hold("in", 0)
    /\ \/ name \in Paths /\ "read" \in grants /\ Opening("in", name, "open") /\ UNCHANGED unsaid
       \/ name \in Paths /\ "read" \notin grants /\ Refused(FALSE) /\ UNCHANGED <<opening, overlapped>>
       \/ name \notin Paths /\ UNCHANGED <<opening, overlapped, unsaid>>
BrowserOpenOutput(name) ==
    /\ world = "browser" /\ ThisCall /\ OpenUnchanged /\ UNCHANGED <<source, sink>>
    /\ \/ /\ sink # 0 /\ files' = CloseFile(sink)
          /\ Opening("out", name, "closing") /\ UNCHANGED unsaid
       \/ /\ sink = 0 /\ UNCHANGED files
          /\ \/ name \in Paths /\ "write" \in grants /\ Opening("out", name, "open") /\ UNCHANGED unsaid
             \/ name \in Paths /\ "write" \notin grants /\ Refused(TRUE) /\ UNCHANGED <<opening, overlapped>>
             \/ name \notin Paths /\ UNCHANGED <<opening, overlapped, unsaid>>
BrowserClosed(o) ==
    /\ world = "browser" /\ o.op = "out" /\ o.stage = "closing"
    /\ OpenUnchanged /\ Hold("out", 0) /\ UNCHANGED <<files, overlapped, inside, fileCalls>>
    /\ \/ o.name \in Paths /\ "write" \in grants /\ Advance(o, "open") /\ UNCHANGED unsaid
       \/ o.name \in Paths /\ "write" \notin grants /\ Refused(TRUE) /\ opening' = opening \ {o}
       \/ o.name \notin Paths /\ opening' = opening \ {o} /\ UNCHANGED unsaid

\* The file is open, and becomes the stream whatever the stream is by now.
Opened(o) ==
    /\ o.stage = "open"
    /\ o.op = "in" => disk[o.name] >= 0
    /\ o.op = "out" => disk[o.name] # Dir
    /\ files' = Append(files, [name |-> o.name, mode |-> o.op, open |-> TRUE, got |-> <<>>])
    /\ Hold(o.op, Len(files) + 1)
    /\ disk' = IF o.op = "out" THEN [disk EXCEPT ![o.name] = o.call] ELSE disk
    /\ opening' = opening \ {o}
    /\ UNCHANGED <<world, grants, frames, stdout, captured, outputFailure, histVars, fileCalls>>
Unopened(o) == o.op \in Streams /\ o.stage = "open" /\ opening' = opening \ {o}
    /\ UNCHANGED <<world, grants, disk, streamVars, frames, stdout, captured, outputFailure,
                   histVars, fileCalls>>
DenoOpened(o) == world = "deno" /\ o.op \in Streams /\ (Opened(o) \/ Unopened(o))
NodeOpened(o) == world = "node" /\ o.op \in Streams /\ (Opened(o) \/ Unopened(o))
BrowserOpened(o) == world = "browser" /\ o.op \in Streams /\ (Opened(o) \/ Unopened(o))

-----------------------------------------------------------------------------
(* WRITE_FILE, MKDIR, REMOVE and RENAME, and the reads that change nothing *)

Changes == {"writeFile", "mkdir", "remove", "rename"}
Begin(op, name, to) ==
    /\ Cardinality(opening) < MaxOpening
    /\ opening' = opening \cup {[call |-> fileCalls + 1, op |-> op, name |-> name, to |-> to,
                                 stage |-> "work"]}
AskChange(op, name, to, granted) ==
    /\ ThisCall /\ OpenUnchanged /\ UNCHANGED <<streamVars, overlapped>>
    /\ \/ granted /\ Begin(op, name, to) /\ UNCHANGED unsaid
       \/ ~granted /\ Refused(FALSE) /\ UNCHANGED opening
DenoChange(op, name, to) == world = "deno" /\ AskChange(op, name, to, "write" \in grants)
NodeChange(op, name, to) == world = "node" /\ AskChange(op, name, to, "write" \in grants)
BrowserChange(op, name, to) == world = "browser" /\ AskChange(op, name, to, "write" \in grants)

ChangeUnchanged ==
    UNCHANGED <<world, grants, streamVars, frames, stdout, captured, outputFailure,
                acked, inside, overlapped, unsaid, recvs, strayed, fileCalls>>
\* disk becomes d; made counts the mkdirs that answered ok while a name is a directory.
Onto(d, fresh) ==
    /\ disk' = d
    /\ made' = [n \in Paths |-> IF d[n] # Dir THEN 0
                               ELSE IF n = fresh THEN made[n] + 1
                               ELSE IF disk[n] = Dir THEN made[n] ELSE 1]

WriteFile(o) ==
    o.op = "writeFile" /\ disk[o.name] # Dir /\ Onto([disk EXCEPT ![o.name] = o.call], "")
Mkdir(o) ==
    o.op = "mkdir" /\ disk[o.name] = Absent /\ Onto([disk EXCEPT ![o.name] = Dir], o.name)
Remove(o) ==
    o.op = "remove" /\ disk[o.name] # Absent /\ Onto([disk EXCEPT ![o.name] = Absent], "")
Rename(o) ==
    /\ o.op = "rename" /\ disk[o.name] # Absent /\ disk[o.to] # Dir
    /\ Onto([disk EXCEPT ![o.name] = Absent, ![o.to] = disk[o.name]], "")

\* changed: it worked, or the reply is a fault.
Lands(o, effect) ==
    /\ o.op \in Changes /\ opening' = opening \ {o} /\ ChangeUnchanged
    /\ effect \/ UNCHANGED <<disk, made>>
DenoChanged(o) ==
    world = "deno" /\ Lands(o, WriteFile(o) \/ Mkdir(o) \/ Remove(o) \/ Rename(o))
NodeChanged(o) ==
    world = "node" /\ Lands(o, WriteFile(o) \/ Mkdir(o) \/ Remove(o) \/ Rename(o))

BrowserChanged(o) ==
    /\ world = "browser" /\ o.stage = "work" /\ o.op \in {"writeFile", "remove"}
    /\ Lands(o, WriteFile(o) \/ Remove(o))
\* No exclusive create: the page asks first and makes it afterwards.
BrowserMkdirLook(o) ==
    /\ world = "browser" /\ o.op = "mkdir" /\ o.stage = "work"
    /\ IF disk[o.name] = Absent THEN Advance(o, "make") ELSE opening' = opening \ {o}
    /\ ChangeUnchanged /\ UNCHANGED <<disk, made>>
BrowserMkdirMake(o) ==
    /\ world = "browser" /\ o.op = "mkdir" /\ o.stage = "make"
    /\ opening' = opening \ {o} /\ ChangeUnchanged
    /\ IF disk[o.name] < 0 THEN Onto([disk EXCEPT ![o.name] = Dir], o.name)
                            ELSE UNCHANGED <<disk, made>>
\* No rename: a copy, and later a delete.
BrowserRenameCopy(o) ==
    /\ world = "browser" /\ o.op = "rename" /\ o.stage = "work" /\ ChangeUnchanged
    /\ IF disk[o.name] >= 0 /\ disk[o.to] # Dir
       THEN Advance(o, "delete") /\ Onto([disk EXCEPT ![o.to] = disk[o.name]], "")
       ELSE opening' = opening \ {o} /\ UNCHANGED <<disk, made>>
BrowserRenameDelete(o) ==
    /\ world = "browser" /\ o.op = "rename" /\ o.stage = "delete" /\ ChangeUnchanged
    /\ opening' = opening \ {o} /\ Onto([disk EXCEPT ![o.name] = Absent], "")

\* READ_FILE, STAT, LINK_STAT, READ_DIR, the clocks, CWD and SLEEP_MILLIS: refused or answered, and
\* nothing moves.
Look == UNCHANGED fVars
DenoReadFile == world = "deno" /\ Look
DenoStat == world = "deno" /\ Look
NodeReadFile == world = "node" /\ Look
NodeStat == world = "node" /\ Look
BrowserReadFile == world = "browser" /\ Look
BrowserStat == world = "browser" /\ Look
DenoClock == world = "deno" /\ Look
NodeClock == world = "node" /\ Look
BrowserClock == world = "browser" /\ Look
-----------------------------------------------------------------------------
Programs ==
    \/ \E fed \in 0 .. 1 : DenoPush(fed) \/ NodePush(fed) \/ BrowserPush(fed)
    \/ Pop
    \/ DenoLog \/ NodeLog \/ BrowserLog \/ DenoWarn \/ NodeWarn \/ BrowserWarn
    \/ \E n \in Sizes : DenoWrite(n) \/ NodeWrite(n) \/ NodeWriteShort(n) \/ BrowserWrite(n)
    \/ DenoWriteErr \/ NodeWriteErr \/ BrowserWriteErr
    \/ DenoReadChunk \/ NodeReadChunk \/ BrowserReadChunk
    \/ DenoReadStdin \/ NodeReadStdin \/ BrowserReadStdin
    \/ DenoRecvInput \/ NodeRecvInput \/ BrowserRecvInput
    \/ DenoReadFile \/ NodeReadFile \/ BrowserReadFile
    \/ DenoStat \/ NodeStat \/ BrowserStat \/ DenoClock \/ NodeClock \/ BrowserClock
Opens ==
    \E name \in Paths \cup {""} :
        \/ \E s \in Streams : DenoOpen(s, name) \/ NodeOpen(s, name)
        \/ BrowserOpenInput(name) \/ BrowserOpenOutput(name)
Asks ==
    \E op \in Changes, name \in Paths, to \in Paths :
        /\ (op = "rename") = (name # to)
        /\ DenoChange(op, name, to) \/ NodeChange(op, name, to) \/ BrowserChange(op, name, to)
Resumes(o) ==
    \/ NodeClosed(o) \/ BrowserClosed(o)
    \/ DenoOpened(o) \/ NodeOpened(o) \/ BrowserOpened(o)
    \/ DenoChanged(o) \/ NodeChanged(o) \/ BrowserChanged(o)
    \/ BrowserMkdirLook(o) \/ BrowserMkdirMake(o)
    \/ BrowserRenameCopy(o) \/ BrowserRenameDelete(o)

FNext == Programs \/ Opens \/ Asks \/ \E o \in opening : Resumes(o)
FSpec == FInit /\ [][FNext]_fVars

-----------------------------------------------------------------------------
(* What must hold *)

Times(t, s) == Cardinality({i \in DOMAIN s : s[i] = t})
Places == <<stdout>> \o captured \o [i \in DOMAIN files |-> files[i].got]
                               \o [i \in DOMAIN frames |-> frames[i].out]
Before(t, u) == t[1] < u[1] \/ (t[1] = u[1] /\ t[2] < u[2])

\* The streams, files and reasons are what they should be: a broken pipe leaves no reason
\* (deno.ts:493).
FTypeOK ==
    /\ world \in Worlds /\ grants \subseteq {"read", "write"}
    /\ \A n \in Paths : disk[n] \in Dir .. FileCalls /\ made[n] \in Nat
    /\ source \in 0 .. Len(files) /\ sink \in 0 .. Len(files)
    /\ \A f \in opening : f.stage \in {"closing", "open", "work", "make", "delete"}
    /\ outputFailure \in Reasons /\ fileCalls \in 0 .. FileCalls

\* Bytes a write acknowledged are in exactly one place: standard output, the file
\* that was the output, the pushed program's buffer, or what its pop answered with.
\* child.ts:131-142 is about every way this went wrong.
AcknowledgedIsWritten ==
    LET places == Places IN
    /\ \A t \in acked : \E p \in DOMAIN places :
           /\ Times(t, places[p]) = 1
           /\ \A q \in DOMAIN places \ {p} : Times(t, places[q]) = 0
    /\ \A p \in DOMAIN places : \A i \in 1 .. Len(places[p]) - 1 :
           Before(places[p][i], places[p][i + 1])

\* What a pushed program writes stays in its buffer, within the cap, and never reaches
\* the parent's output or file (child.ts:136-138).
InsideStaysInside ==
    /\ \A i \in DOMAIN frames : Len(frames[i].out) <= CAP
    /\ \A i \in DOMAIN stdout : stdout[i][1] \notin inside
    /\ \A k \in DOMAIN files : \A i \in DOMAIN files[k].got : files[k].got[i][1] \notin inside

\* "A pushed child reads what it was fed and then end of input - never the parent's own
\* standard input" (deno.ts:599-600) holds of readChunk and readStdin, over any nesting of
\* pushes and with source opened and closed meanwhile.  It does not hold of RECV(0), which
\* gives a pushed program the host's input in all three hosts (deno.ts:679, node.ts:558,
\* browser.ts:791); an answer that comes while a program is pushed goes to whoever asked.
NeverTheTerminal == strayed \subseteq {"recv"}

\* "Opening another output closes the previous one, and so does opening nothing"
\* (platform.wac:865): no file stays open that is not the current input or output,
\* unless the program had two opens of one stream in flight.
NoFileLeftOpen ==
    overlapped \/ \A i \in DOMAIN files : files[i].open => i \in {source, sink}

\* Without the write grant no step touches the disk, whatever was in flight.
UngrantedTouchesNothing == [][("write" \notin grants) => UNCHANGED disk]_fVars

\* Of several mkdirs of one name only one answers ok while the directory stays
\* (platform.wac's mkdir without parents).  A page cannot promise it: it looks first
\* and creates later.
MkdirOnce == world # "browser" => \A n \in Paths : made[n] <= 1

\* A call refused for want of a grant is told that, on Deno and Node; a page's
\* openOutput throws and provider.ts's change can only say "other".
RefusalIsSaid == world # "browser" => ~unsaid

\* A byte acknowledged is in exactly one place, a pushed program's bytes stay inside, and its
\* readChunk and readStdin never take the terminal's (child.ts, READ_CHUNK and WRITE_STDOUT of the three hosts).
BytesAreInOnePlace ==
    FTypeOK /\ AcknowledgedIsWritten /\ InsideStaysInside /\ NeverTheTerminal

\* Files are accounted for: none stays open unseen, one mkdir of a name succeeds, a refusal for
\* want of a grant is told as that, and no step of an ungranted world touches the disk.
FilesAreAccounted == [](NoFileLeftOpen /\ MkdirOnce /\ RefusalIsSaid) /\ UngrantedTouchesNothing
=============================================================================

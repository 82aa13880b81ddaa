------------------------------ MODULE Commands ------------------------------
(***************************************************************************)
(* What the commands of `ferro-protect` do once CliRun has dispatched      *)
(* them: call the library, and bring the result to standard output or to   *)
(* the file of `cameras snapshot --out` (main.rs, commands/, output.rs,    *)
(* cameras.rs of the library).                                             *)
(*                                                                         *)
(* The library call is CallContract, which ProtectClient implements.       *)
(*                                                                         *)
(* Output is counted in units of bytes.  std's LineWriter holds the units  *)
(* after the last newline back until more follows or the process exits.    *)
(* The file keeps, for every unit, who wrote it.  Invocations may run at   *)
(* the same time, share the path of --out, and be killed at any point.     *)
(***************************************************************************)
EXTENDS Naturals, Sequences

CONSTANTS Invocations,
          CommandLines,  \* commands with their flags
          MaxAttempts,   \* max_retries + 1 of the default RetryConfig
          BufferSize,    \* of std's LineWriter; 1024 bytes
          TextLines,     \* lengths of human output
          JsonTexts,     \* values as serde_json writes them, call by call
          Images,        \* the bodies of snapshots
          OldLength      \* length of what is at the path of --out before

Qualities == {"high", "medium", "low", "package"}

\* What one write_all is given: the units up to the last newline, and after it.
Pieces == [lines : Nat, tail : Nat]
Size(piece) == piece.lines + piece.tail

\* The commands that print the answer to one request.
InfoCommands == {"info"}
CameraCommands == {"cameras list", "cameras get", "cameras talkback"}
ChimeCommands == {"chimes list", "chimes get"}
FileCommands == {"files list"}
LightCommands == {"lights list", "lights get"}
LiveviewCommands == {"liveviews list", "liveviews get"}
NvrCommands == {"nvrs get"}
SensorCommands == {"sensors list", "sensors get"}
ViewerCommands == {"viewers list", "viewers get"}

TextCommands ==
    UNION {InfoCommands, CameraCommands, ChimeCommands, FileCommands, LightCommands,
           LiveviewCommands, NvrCommands, SensorCommands, ViewerCommands}

\* The commands that print without a request.
LocalCommands == {"config show", "config path", "config template --stdout"}

Actions == TextCommands \cup LocalCommands \cup {"cameras rtsps", "cameras snapshot"}

ASSUME CommandsAssumption ==
    /\ CommandLines \subseteq [action : Actions, json : BOOLEAN, out : BOOLEAN,
                               terminal : BOOLEAN, qualities : Seq(Qualities)]
    /\ MaxAttempts \in Nat \ {0}
    /\ BufferSize \in Nat \ {0}
    /\ TextLines \subseteq Nat \ {0}
    /\ JsonTexts \subseteq Seq(Pieces)
    /\ Images \subseteq Pieces
    /\ OldLength \in Nat

Old == "old"
Hole == "hole"
NoOne == "none"

ASSUME OwnersAssumption == {Old, Hole, NoOne} \cap Invocations = {}

VARIABLES
    command,    \* the command line of each invocation
    pc,         \* where it is
    exit,       \* how it ended
    populated,  \* the qualities the server made streams for
    streams,    \* what rtsps_stream returned
    rest,       \* what is still to be handed to stdout, call by call
    written,    \* units handed to stdout
    delivered,  \* units that have left the process by it
    image,      \* the body of the snapshot
    offset,     \* units of it written to the file
    file,       \* the path of --out
    opener,     \* history: who created the file last
    contended,  \* history: whether another was writing it then
    \* the library's contract:
    budget, effects, outcome

callVars == <<budget, effects, outcome>>
streamVars == <<populated, streams>>
stdoutVars == <<rest, written, delivered>>
fileVars == <<image, offset, file, opener, contended>>
vars == <<command, pc, exit, streamVars, stdoutVars, fileVars, callVars>>

Call == INSTANCE CallContract WITH Calls <- Invocations, MaxBudget <- MaxAttempts

TypeOK ==
    /\ command \in [Invocations -> CommandLines]
    /\ pc \in [Invocations ->
                 {"start", "calling", "printing", "fetched", "writing", "done"}]
    /\ exit \in [Invocations -> {"running", "success", "failure", "killed"}]
    /\ populated \in [Invocations -> SUBSET Qualities]
    /\ DOMAIN streams = Invocations
    /\ rest \in [Invocations -> Seq(Pieces)]
    /\ written \in [Invocations -> Nat]
    /\ delivered \in [Invocations -> Nat]
    /\ \A i \in Invocations : delivered[i] <= written[i]
    /\ image \in [Invocations -> Pieces]
    /\ offset \in [Invocations -> Nat]
    /\ \A i \in Invocations :
           /\ offset[i] <= Size(image[i])
           /\ pc[i] \in {"start", "calling"} => offset[i] = 0
    /\ file \in Seq(Invocations \cup {Old, Hole})
    /\ opener \in Invocations \cup {NoOne}
    /\ contended \in BOOLEAN
    /\ Call!TypeOK

OldFile == [k \in 1..OldLength |-> Old]
Nothing == [lines |-> 0, tail |-> 0]

\* Every endpoint of the library goes through the stack that retries.
Init ==
    /\ command \in [Invocations -> CommandLines]
    /\ pc = [i \in Invocations |-> "start"]
    /\ exit = [i \in Invocations |-> "running"]
    /\ populated = [i \in Invocations |-> {}]
    /\ streams = [i \in Invocations |-> <<>>]
    /\ rest = [i \in Invocations |-> <<>>]
    /\ written = [i \in Invocations |-> 0]
    /\ delivered = [i \in Invocations |-> 0]
    /\ image = [i \in Invocations |-> Nothing]
    /\ offset = [i \in Invocations |-> 0]
    /\ file = OldFile
    /\ opener = NoOne
    /\ contended = FALSE
    /\ Call!Init
    /\ budget = [i \in Invocations |-> MaxAttempts]

-----------------------------------------------------------------------------
Goto(i, label) == pc' = [pc EXCEPT ![i] = label]

\* main returns, or the process is killed.
Exit(i, how) == Goto(i, "done") /\ exit' = [exit EXCEPT ![i] = how]

Snapshot(i) == command[i].action = "cameras snapshot"
Fetches(i) == command[i].action \notin LocalCommands

\* A snapshot has no JSON form: refused before anything is sent.
Refuse(i) ==
    /\ pc[i] = "start"
    /\ Snapshot(i) /\ command[i].json
    /\ Exit(i, "failure")
    /\ UNCHANGED <<command, streamVars, stdoutVars, fileVars, callVars>>

\* Mutant of Request: the file is opened before the image is there.
RequestTruncating(i) ==
    /\ pc[i] = "start"
    /\ Fetches(i)
    /\ ~ (Snapshot(i) /\ command[i].json)
    /\ Goto(i, "calling")
    /\ file' = IF command[i].out THEN <<>> ELSE file
    /\ UNCHANGED <<command, exit, image, offset, opener, contended, streamVars, stdoutVars,
                   callVars>>

\* The method of the library is called.
Request(i) ==
    /\ pc[i] = "start"
    /\ Fetches(i)
    /\ ~ (Snapshot(i) /\ command[i].json)
    /\ Goto(i, "calling")
    /\ UNCHANGED <<command, exit, streamVars, stdoutVars, fileVars, callVars>>

\* The server carries the request out, in time or not.
Serve(i) ==
    /\ pc[i] # "start" /\ Fetches(i)
    /\ Call!Apply(i)
    /\ UNCHANGED <<command, pc, exit, streamVars, stdoutVars, fileVars>>

\* The method returns an error: `?` of the command.
CallFails(i) ==
    /\ pc[i] = "calling"
    /\ Call!Return(i, "refused") \/ Call!Return(i, "unknown")
    /\ Exit(i, "failure")
    /\ UNCHANGED <<command, streamVars, stdoutVars, fileVars>>

-----------------------------------------------------------------------------
\* Every renderer ends its text with a newline.
HumanText(n) == [lines |-> n, tail |-> 0]

\* Mutant of JsonOutput: the value is all that is written.
JsonOutputUnterminated(text) == text

\* The pretty printer's calls, and the newline.
JsonOutput(text) == Append(text, [lines |-> 1, tail |-> 0])

\* `emit`.
Output(i) ==
    IF command[i].json /\ command[i].action # "config template --stdout"
    THEN {JsonOutput(text) : text \in JsonTexts}
    ELSE {<<HumanText(n)>> : n \in TextLines}

Emit(i, output) ==
    /\ rest' = [rest EXCEPT ![i] = output]
    /\ Goto(i, "printing")
    /\ UNCHANGED <<command, exit, written, delivered, fileVars>>

\* The config commands read their file and print, or fail.
PrintLocal(i) ==
    /\ pc[i] = "start"
    /\ command[i].action \in LocalCommands
    /\ \/ \E output \in Output(i) : Emit(i, output) /\ UNCHANGED <<streamVars, callVars>>
       \/ /\ command[i].action # "config template --stdout"
          /\ Exit(i, "failure")
          /\ UNCHANGED <<command, streamVars, stdoutVars, fileVars, callVars>>

PrintAnswer(i) ==
    /\ pc[i] = "calling"
    /\ command[i].action \in TextCommands
    /\ Call!Return(i, "ok")
    /\ \E output \in Output(i) : Emit(i, output)
    /\ UNCHANGED streamVars

\* Mutant of StreamsInRequestOrder: the order of the fields of the answer.
StreamsInAnswerOrder(requested, created) ==
    SelectSeq(<<"high", "medium", "low", "package">>,
              LAMBDA q : q \in created /\ \E k \in DOMAIN requested : requested[k] = q)

\* One pass over the request: a quality without a stream is dropped, one that is
\* asked for twice stays.
StreamsInRequestOrder(requested, created) ==
    LET streamsOf[n \in 0..Len(requested)] ==
            IF n = 0 THEN <<>>
            ELSE IF requested[n] \in created THEN Append(streamsOf[n - 1], requested[n])
            ELSE streamsOf[n - 1]
    IN  streamsOf[Len(requested)]

\* `cameras rtsps`: the server decides which of the streams it makes.
PrintStreams(i) ==
    /\ pc[i] = "calling"
    /\ command[i].action = "cameras rtsps"
    /\ Call!Return(i, "ok")
    /\ \E created \in SUBSET Qualities :
           /\ populated' = [populated EXCEPT ![i] = created]
           /\ streams' = [streams EXCEPT
                 ![i] = StreamsInRequestOrder(command[i].qualities, created)]
    /\ \E output \in Output(i) : Emit(i, output)

\* `cameras snapshot`: the whole body has arrived.
FetchImage(i) ==
    /\ pc[i] = "calling"
    /\ Snapshot(i)
    /\ Call!Return(i, "ok")
    /\ \E body \in Images : image' = [image EXCEPT ![i] = body]
    /\ Goto(i, "fetched")
    /\ UNCHANGED <<command, exit, streamVars, stdoutVars, offset, file, opener, contended>>

\* write_snapshot without --out.  The terminal is refused only now.
PrintImage(i) ==
    /\ pc[i] = "fetched"
    /\ ~ command[i].out
    /\ IF command[i].terminal
       THEN Exit(i, "failure") /\ UNCHANGED <<command, stdoutVars, fileVars>>
       ELSE Emit(i, <<image[i]>>)
    /\ UNCHANGED <<streamVars, callVars>>

-----------------------------------------------------------------------------
\* How much has left the process when LineWriter accepts a piece: a tail that
\* does not fit the buffer goes out at once, lines do, and otherwise the piece
\* stays behind; what the buffer holds makes room for it first.
DeliveredWith(i, piece) ==
    IF piece.tail >= BufferSize THEN written[i] + Size(piece)
    ELSE IF piece.lines > 0 THEN written[i] + piece.lines
    ELSE IF written[i] - delivered[i] + piece.tail > BufferSize THEN written[i]
    ELSE delivered[i]

\* write_all on the locked stdout.
Write(i) ==
    /\ pc[i] = "printing"
    /\ rest[i] # <<>>
    /\ rest' = [rest EXCEPT ![i] = Tail(@)]
    /\ written' = [written EXCEPT ![i] = @ + Size(Head(rest[i]))]
    /\ delivered' = [delivered EXCEPT ![i] = DeliveredWith(i, Head(rest[i]))]
    /\ UNCHANGED <<command, pc, exit, streamVars, fileVars, callVars>>

\* The other side is gone or full: a part of what should have left has not, and
\* the command returns the error.  (For `config path` println! panics.)  What
\* the exit then flushes is left out.
WriteFails(i) ==
    /\ pc[i] = "printing"
    /\ rest[i] # <<>>
    /\ \E n \in delivered[i]..(DeliveredWith(i, Head(rest[i])) - 1) :
           delivered' = [delivered EXCEPT ![i] = n]
    /\ written' = [written EXCEPT ![i] = @ + Size(Head(rest[i]))]
    /\ Exit(i, "failure")
    /\ UNCHANGED <<command, rest, streamVars, fileVars, callVars>>

\* main returns Ok, which fixes the exit code; then std flushes what LineWriter
\* still holds, and ignores a failure.
Finish(i) ==
    /\ pc[i] = "printing"
    /\ rest[i] = <<>>
    /\ \E n \in delivered[i]..written[i] : delivered' = [delivered EXCEPT ![i] = n]
    /\ Exit(i, "success")
    /\ UNCHANGED <<command, rest, written, streamVars, fileVars, callVars>>

-----------------------------------------------------------------------------
Writing(i) == pc[i] = "writing"

\* Mutant of CreateFile: what is there is not truncated.
CreateFileKeeping(i) ==
    /\ pc[i] = "fetched"
    /\ command[i].out
    /\ Goto(i, "writing")
    /\ file' = file
    /\ opener' = i
    /\ contended' = (\E j \in Invocations \ {i} : Writing(j))
    /\ UNCHANGED <<command, exit, image, offset, streamVars, stdoutVars, callVars>>

\* File::create.
CreateFile(i) ==
    /\ pc[i] = "fetched"
    /\ command[i].out
    /\ Goto(i, "writing")
    /\ file' = <<>>
    /\ opener' = i
    /\ contended' = (\E j \in Invocations \ {i} : Writing(j))
    /\ UNCHANGED <<command, exit, image, offset, streamVars, stdoutVars, callVars>>

\* Writing behind the end of a file that another has truncated leaves a hole.
Overlay(i, n) ==
    [k \in 1..(IF Len(file) > offset[i] + n THEN Len(file) ELSE offset[i] + n) |->
        IF k > offset[i] /\ k <= offset[i] + n THEN i
        ELSE IF k <= Len(file) THEN file[k] ELSE Hole]

\* Mutant of WriteFile: after a short write, the whole image again.
WriteFileAgain(i) ==
    /\ Writing(i)
    /\ \E n \in 1..Size(image[i]) :
           /\ file' = Overlay(i, n)
           /\ offset' = [offset EXCEPT ![i] = @ + n]
    /\ UNCHANGED <<command, pc, exit, image, opener, contended, streamVars, stdoutVars,
                   callVars>>

\* One write(2) of write_all: some of what is left.
WriteFile(i) ==
    /\ Writing(i)
    /\ \E n \in 1..(Size(image[i]) - offset[i]) :
           /\ file' = Overlay(i, n)
           /\ offset' = [offset EXCEPT ![i] = @ + n]
    /\ UNCHANGED <<command, pc, exit, image, opener, contended, streamVars, stdoutVars,
                   callVars>>

FileWritten(i) ==
    /\ Writing(i)
    /\ offset[i] = Size(image[i])
    /\ Exit(i, "success")
    /\ UNCHANGED <<command, streamVars, stdoutVars, fileVars, callVars>>

\* The file cannot be created, or a write(2) fails.
FileFails(i) ==
    /\ \/ pc[i] = "fetched" /\ command[i].out
       \/ Writing(i) /\ offset[i] < Size(image[i])
    /\ Exit(i, "failure")
    /\ UNCHANGED <<command, streamVars, stdoutVars, fileVars, callVars>>

Kill(i) ==
    /\ pc[i] \notin {"start", "done"}
    /\ Exit(i, "killed")
    /\ UNCHANGED <<command, streamVars, stdoutVars, fileVars, callVars>>

Step(i) ==
    \/ Refuse(i) \/ Request(i) \/ Serve(i) \/ CallFails(i)
    \/ PrintLocal(i) \/ PrintAnswer(i) \/ PrintStreams(i) \/ FetchImage(i) \/ PrintImage(i)
    \/ Write(i) \/ WriteFails(i) \/ Finish(i)
    \/ CreateFile(i) \/ WriteFile(i) \/ FileWritten(i) \/ FileFails(i)
    \/ Kill(i)

Next == \E i \in Invocations : Step(i)

Spec == Init /\ [][Next]_vars

-----------------------------------------------------------------------------
ToStdout(i) == Snapshot(i) /\ ~ command[i].out

\* Exit code 0 can be believed: the server carried the request out, and the
\* whole result has left the process -- for text through LineWriter, although
\* the last flush is not checked; for --out in the file.  Only an image that
\* goes to stdout is left out.
SuccessMeansDone ==
    \A i \in Invocations : exit[i] = "success" =>
        /\ Fetches(i) => effects[i] >= 1
        /\ (Snapshot(i) /\ command[i].out) => offset[i] = Size(image[i])
        /\ ~ Snapshot(i) => rest[i] = <<>> /\ delivered[i] = written[i]

\* The file of --out survives every failure before the image has arrived, and
\* every other command: kills, refusals, errors, late answers.
OldSnapshotKept ==
    (\A i \in Invocations : outcome[i] # "ok" \/ ~ Snapshot(i)) => file = OldFile

\* Unless two write at once, the file holds nothing but what its last opener
\* has written so far, from the start: no remains of a longer image, of a
\* killed invocation or of one that failed.
NoRemains ==
    (opener # NoOne /\ ~ contended) => file = [k \in 1..offset[opener] |-> opener]

\* The streams are exactly those requested ones that the server made, in the
\* order and the number in which they were requested.
InRequestOrder(result, asked, created) ==
    \E position \in [DOMAIN result -> DOMAIN asked] :
        /\ \A j, k \in DOMAIN position : j < k => position[j] < position[k]
        /\ {position[k] : k \in DOMAIN position} = {k \in DOMAIN asked : asked[k] \in created}
        /\ \A k \in DOMAIN position : result[k] = asked[position[k]]

StreamsAsRequested ==
    \A i \in Invocations : InRequestOrder(streams[i], command[i].qualities, populated[i])
=============================================================================

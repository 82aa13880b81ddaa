----------------------------- MODULE MCCommands -----------------------------
(***************************************************************************)
(* Commands for TLC: one invocation of any command; when it is a snapshot  *)
(* with --out, a second one with the same path runs beside it.             *)
(***************************************************************************)
EXTENDS Commands

CONSTANTS First, Second, MaxQualities

Requests == UNION {[1..n -> Qualities] : n \in 1..MaxQualities}

CommandLine(action, json, out, terminal, qualities) ==
    [action |-> action, json |-> json, out |-> out, terminal |-> terminal,
     qualities |-> qualities]

MCCommandLines ==
    {CommandLine(action, json, FALSE, FALSE, <<>>) :
         action \in TextCommands \cup LocalCommands, json \in BOOLEAN}
    \cup {CommandLine("cameras rtsps", json, FALSE, FALSE, asked) :
              json \in BOOLEAN, asked \in Requests}
    \cup {CommandLine("cameras snapshot", json, out, terminal, <<>>) :
              json \in BOOLEAN, out \in BOOLEAN, terminal \in BOOLEAN}

ToFile == CommandLine("cameras snapshot", FALSE, TRUE, FALSE, <<>>)

Piece(lines, tail) == [lines |-> lines, tail |-> tail]

\* An empty list, a value in several calls, one that overflows the buffer.
MCJsonTexts ==
    {<<Piece(0, 1)>>, <<Piece(0, 1), Piece(2, 1), Piece(0, 2)>>, <<Piece(0, 3), Piece(0, 1)>>}

MCImages == {Piece(0, 0), Piece(0, 1), Piece(1, 1), Piece(2, 0), Piece(1, 2)}

MCInit == Init /\ command[Second] = ToFile

\* All invocations have ended.
Ended ==
    /\ \A i \in Invocations : pc[i] = "done" \/ (i = Second /\ command[First] # ToFile)
    /\ UNCHANGED vars

MCNext == Step(First) \/ (command[First] = ToFile /\ Step(Second)) \/ Ended

MCSpec == MCInit /\ [][MCNext]_vars

\* What the documentation says and the code does not do.  commands/cameras.rs,
\* of `run`: "Bubbles up [...] any I/O error from formatting/printing": when a
\* snapshot to stdout exits with 0, all of it has been delivered.
PrintErrorsSurface ==
    \A i \in Invocations :
        (exit[i] = "success" /\ ToStdout(i)) => delivered[i] = written[i]
=============================================================================

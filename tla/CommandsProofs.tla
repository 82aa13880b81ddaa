--------------------------- MODULE CommandsProofs ---------------------------
(***************************************************************************)
(* Theorems about Commands, for every number of invocations, every command *)
(* line, output, image and buffer size.                                    *)
(***************************************************************************)
EXTENDS Commands, SequenceTheorems, SetInduction, TLAPS

\* What the assumptions say of single constants.
LEMMA Constants ==
    /\ MaxAttempts \in Nat /\ MaxAttempts >= 1
    /\ BufferSize \in Nat /\ BufferSize >= 1
    /\ OldLength \in Nat
    /\ Old \notin Invocations /\ Hole \notin Invocations /\ NoOne \notin Invocations
BY CommandsAssumption, OwnersAssumption

LEMMA LineTypes ==
    ASSUME NEW line \in CommandLines
    PROVE  /\ line.action \in Actions
           /\ line.json \in BOOLEAN /\ line.out \in BOOLEAN /\ line.terminal \in BOOLEAN
           /\ line.qualities \in Seq(Qualities)
<1>1. line \in [action : Actions, json : BOOLEAN, out : BOOLEAN,
                terminal : BOOLEAN, qualities : Seq(Qualities)]
  BY CommandsAssumption
<1> QED BY <1>1

LEMMA ConstantSequence ==
    ASSUME NEW S, NEW n \in Nat, NEW e \in S
    PROVE  /\ [k \in 1..n |-> e] \in Seq(S)
           /\ Len([k \in 1..n |-> e]) = n
OBVIOUS

\* What a command hands to LineWriter ends in a newline.
EndsLine(output) ==
    /\ output \in Seq(Pieces)
    /\ output # <<>>
    /\ output[Len(output)].tail = 0
    /\ output[Len(output)].lines >= 1

LEMMA OutputEndsLine ==
    ASSUME NEW i, NEW output \in Output(i)
    PROVE  EndsLine(output)
<1>1. ASSUME NEW text \in JsonTexts
      PROVE  EndsLine(JsonOutput(text))
  <2>1. text \in Seq(Pieces)
    BY CommandsAssumption
  <2>2. [lines |-> 1, tail |-> 0] \in Pieces
    BY DEF Pieces
  <2> QED BY <2>1, <2>2 DEF EndsLine, JsonOutput
<1>2. ASSUME NEW n \in TextLines
      PROVE  EndsLine(<<HumanText(n)>>)
  <2>1. n \in Nat /\ n >= 1
    BY CommandsAssumption
  <2>2. HumanText(n) \in Pieces
    BY <2>1 DEF HumanText, Pieces
  <2> QED BY <2>1, <2>2 DEF EndsLine, HumanText
<1> QED BY <1>1, <1>2 DEF Output

\* A piece leaves between nothing and all of what has been written behind it.
LEMMA DeliveredBounds ==
    ASSUME TypeOK, NEW i \in Invocations, NEW piece \in Pieces
    PROVE  /\ DeliveredWith(i, piece) \in Nat
           /\ written[i] + Size(piece) \in Nat
           /\ delivered[i] <= DeliveredWith(i, piece)
           /\ DeliveredWith(i, piece) <= written[i] + Size(piece)
           /\ (piece.tail = 0 /\ piece.lines >= 1)
                  => DeliveredWith(i, piece) = written[i] + Size(piece)
<1>1. piece.lines \in Nat /\ piece.tail \in Nat
  BY DEF Pieces
<1>2. written[i] \in Nat /\ delivered[i] \in Nat /\ delivered[i] <= written[i]
  BY DEF TypeOK
<1> QED BY <1>1, <1>2, Constants DEF DeliveredWith, Size
-----------------------------------------------------------------------------
(* Types *)

LEMMA CallTypes ==
    ASSUME TypeOK, NEW i \in Invocations,
           Call!Apply(i) \/ (\E r \in {"ok", "refused", "unknown"} : Call!Return(i, r))
    PROVE  Call!TypeOK'
<1>1. CASE Call!Apply(i)
  BY <1>1, Constants DEF TypeOK, Call!TypeOK, Call!Apply, Call!Results
<1>2. CASE \E r \in {"ok", "refused", "unknown"} : Call!Return(i, r)
  BY <1>2 DEF TypeOK, Call!TypeOK, Call!Return, Call!Results
<1> QED BY <1>1, <1>2

LEMMA TypeInit == Init => TypeOK
<1> SUFFICES ASSUME Init PROVE TypeOK
  OBVIOUS
<1>1. file \in Seq(Invocations \cup {Old, Hole})
  BY Constants, ConstantSequence DEF Init, OldFile
<1>2. Nothing \in Pieces /\ Size(Nothing) = 0
  BY DEF Nothing, Pieces, Size
<1>3. Call!TypeOK
  BY Constants DEF Init, Call!Init, Call!TypeOK, Call!Results
<1>4. <<>> \in Seq(Pieces)
  OBVIOUS
<1>5. \A i \in Invocations :
          /\ offset[i] <= Size(image[i])
          /\ pc[i] \in {"start", "calling"} => offset[i] = 0
  <2> SUFFICES ASSUME NEW i \in Invocations
               PROVE  offset[i] <= Size(image[i]) /\ offset[i] = 0
    OBVIOUS
  <2>1. offset[i] = 0 /\ image[i] = Nothing
    BY DEF Init
  <2> QED BY <2>1, <1>2
<1>6. ASSUME NEW i \in Invocations PROVE delivered[i] <= written[i]
  <2>1. delivered[i] = 0 /\ written[i] = 0
    BY DEF Init
  <2> QED BY <2>1
<1>7. /\ populated \in [Invocations -> SUBSET Qualities]
      /\ DOMAIN streams = Invocations
      /\ opener \in Invocations \cup {NoOne}
      /\ contended \in BOOLEAN
  BY Zenon DEF Init
<1>8. /\ pc \in [Invocations ->
                 {"start", "calling", "printing", "fetched", "writing", "done"}]
      /\ exit \in [Invocations -> {"running", "success", "failure", "killed"}]
  BY DEF Init
<1>9. /\ command \in [Invocations -> CommandLines]
      /\ rest \in [Invocations -> Seq(Pieces)]
      /\ written \in [Invocations -> Nat]
      /\ delivered \in [Invocations -> Nat]
      /\ image \in [Invocations -> Pieces]
      /\ offset \in [Invocations -> Nat]
  BY <1>2, <1>4 DEF Init
<1>10. \A i \in Invocations : delivered[i] <= written[i]
  BY <1>6
<1> QED BY <1>1, <1>3, <1>5, <1>7, <1>8, <1>9, <1>10 DEF TypeOK

\* What an invocation does before it has a result to print or to write.
LEMMA TypeStepCall ==
    ASSUME TypeOK, NEW i \in Invocations,
           Refuse(i) \/ Request(i) \/ Serve(i) \/ CallFails(i) \/ Kill(i)
    PROVE  TypeOK'
<1>1. CASE Refuse(i)
  BY <1>1 DEF Refuse, Exit, Goto, TypeOK, streamVars, stdoutVars, fileVars, callVars,
              Call!TypeOK
<1>2. CASE Request(i)
  BY <1>2 DEF Request, Goto, TypeOK, streamVars, stdoutVars, fileVars, callVars, Call!TypeOK
<1>3. CASE Serve(i)
  <2>1. Call!TypeOK'
    BY <1>3, CallTypes DEF Serve
  <2> QED BY <1>3, <2>1 DEF Serve, TypeOK, streamVars, stdoutVars, fileVars
<1>4. CASE CallFails(i)
  <2>1. Call!TypeOK'
    BY <1>4, CallTypes DEF CallFails
  <2> QED BY <1>4, <2>1 DEF CallFails, Exit, Goto, TypeOK, streamVars, stdoutVars, fileVars
<1>5. CASE Kill(i)
  BY <1>5 DEF Kill, Exit, Goto, TypeOK, streamVars, stdoutVars, fileVars, callVars,
              Call!TypeOK
<1> QED BY <1>1, <1>2, <1>3, <1>4, <1>5

LEMMA PrintTypes ==
    ASSUME TypeOK, NEW i \in Invocations, NEW output \in Seq(Pieces), Emit(i, output)
    PROVE  /\ command' \in [Invocations -> CommandLines]
           /\ pc' \in [Invocations ->
                         {"start", "calling", "printing", "fetched", "writing", "done"}]
           /\ rest' \in [Invocations -> Seq(Pieces)]
           /\ UNCHANGED <<exit, written, delivered, image, offset, file, opener, contended>>
           /\ \A j \in Invocations :
                  /\ offset[j] <= Size(image[j])
                  /\ pc'[j] \in {"start", "calling"} => offset[j] = 0
BY DEF Emit, Goto, TypeOK, fileVars

\* The steps that start to print.
LEMMA TypeStepPrint ==
    ASSUME TypeOK, NEW i \in Invocations,
           PrintLocal(i) \/ PrintAnswer(i) \/ PrintStreams(i) \/ FetchImage(i) \/ PrintImage(i)
    PROVE  TypeOK'
<1>0. \A output \in Output(i) : output \in Seq(Pieces)
  BY OutputEndsLine DEF EndsLine
<1>1. CASE PrintLocal(i)
  <2>1. CASE \E output \in Output(i) : Emit(i, output) /\ UNCHANGED <<streamVars, callVars>>
    <3>1. PICK output \in Output(i) : Emit(i, output) /\ UNCHANGED <<streamVars, callVars>>
      BY <2>1
    <3>2. output \in Seq(Pieces)
      BY <1>0
    <3> QED BY <3>1, <3>2, PrintTypes DEF TypeOK, streamVars, callVars, Call!TypeOK
  <2>2. CASE Exit(i, "failure")
             /\ UNCHANGED <<command, streamVars, stdoutVars, fileVars, callVars>>
    BY <2>2 DEF Exit, Goto, TypeOK, streamVars, stdoutVars, fileVars, callVars, Call!TypeOK
  <2> QED BY <1>1, <2>1, <2>2 DEF PrintLocal
<1>2. CASE PrintAnswer(i)
  <2>1. PICK output \in Output(i) : Emit(i, output)
    BY <1>2 DEF PrintAnswer
  <2>2. Call!TypeOK'
    BY <1>2, CallTypes DEF PrintAnswer
  <2> QED BY <1>2, <2>1, <2>2, <1>0, PrintTypes DEF PrintAnswer, TypeOK, streamVars
<1>3. CASE PrintStreams(i)
  <2>1. PICK output \in Output(i) : Emit(i, output)
    BY <1>3 DEF PrintStreams
  <2>2. Call!TypeOK'
    BY <1>3, CallTypes DEF PrintStreams
  <2>3. PICK created \in SUBSET Qualities :
            /\ populated' = [populated EXCEPT ![i] = created]
            /\ streams' = [streams EXCEPT
                  ![i] = StreamsInRequestOrder(command[i].qualities, created)]
    BY <1>3 DEF PrintStreams
  <2> QED BY <2>1, <2>2, <2>3, <1>0, PrintTypes DEF TypeOK
<1>4. CASE FetchImage(i)
  <2>1. Call!TypeOK'
    BY <1>4, CallTypes DEF FetchImage
  <2>2. PICK body \in Images : image' = [image EXCEPT ![i] = body]
    BY <1>4 DEF FetchImage
  <2>3. body \in Pieces /\ Size(body) \in Nat
    BY CommandsAssumption DEF Pieces, Size
  <2> QED BY <1>4, <2>1, <2>2, <2>3 DEF FetchImage, Goto, TypeOK, streamVars, stdoutVars
<1>5. CASE PrintImage(i)
  <2>1. CASE Emit(i, <<image[i]>>)
    <3>1. <<image[i]>> \in Seq(Pieces)
      BY DEF TypeOK
    <3> QED BY <1>5, <2>1, <3>1, PrintTypes
            DEF PrintImage, TypeOK, streamVars, callVars, Call!TypeOK
  <2>2. CASE Exit(i, "failure") /\ UNCHANGED <<command, stdoutVars, fileVars>>
    BY <1>5, <2>2
       DEF PrintImage, Exit, Goto, TypeOK, streamVars, stdoutVars, fileVars, callVars,
           Call!TypeOK
  <2> QED BY <1>5, <2>1, <2>2 DEF PrintImage
<1> QED BY <1>1, <1>2, <1>3, <1>4, <1>5

\* Overlay writes n units at the offset and touches nothing else.
LEMMA OverlayTypes ==
    ASSUME TypeOK, NEW i \in Invocations, NEW n \in Nat
    PROVE  /\ Overlay(i, n) \in Seq(Invocations \cup {Old, Hole})
           /\ Len(Overlay(i, n)) =
                  (IF Len(file) > offset[i] + n THEN Len(file) ELSE offset[i] + n)
<1> DEFINE length == IF Len(file) > offset[i] + n THEN Len(file) ELSE offset[i] + n
           Owners == Invocations \cup {Old, Hole}
<1>1. file \in Seq(Owners) /\ Len(file) \in Nat /\ offset[i] \in Nat
  BY DEF TypeOK
<1>2. length \in Nat
  BY <1>1
<1>3. ASSUME NEW k \in 1..length
      PROVE  (IF k > offset[i] /\ k <= offset[i] + n THEN i
              ELSE IF k <= Len(file) THEN file[k] ELSE Hole) \in Owners
  <2>1. CASE k <= Len(file)
    <3>1. k \in 1..Len(file)
      BY <2>1, <1>2
    <3>2. file[k] \in Owners
      BY <3>1, <1>1
    <3> QED BY <3>2, <2>1
  <2>2. CASE ~ (k <= Len(file))
    BY <2>2
  <2> QED BY <2>1, <2>2
<1>4. Overlay(i, n) \in [1..length -> Owners]
  BY <1>3 DEF Overlay
<1>5. Overlay(i, n) = [k \in 1..length |-> Overlay(i, n)[k]]
  BY <1>4
<1> HIDE DEF length, Owners
<1>6. Overlay(i, n) \in Seq(Owners) /\ Len(Overlay(i, n)) = length
  BY <1>2, <1>4, <1>5
<1> QED BY <1>6 DEF length, Owners

\* The steps on stdout.
LEMMA TypeStepStdout ==
    ASSUME TypeOK, NEW i \in Invocations, Write(i) \/ WriteFails(i) \/ Finish(i)
    PROVE  TypeOK'
<1>1. ASSUME rest[i] # <<>>
      PROVE  /\ Head(rest[i]) \in Pieces
             /\ Tail(rest[i]) \in Seq(Pieces)
  BY <1>1 DEF TypeOK
<1>2. CASE Write(i)
  <2>1. Head(rest[i]) \in Pieces /\ Tail(rest[i]) \in Seq(Pieces)
    BY <1>1, <1>2 DEF Write
  <2>2. /\ DeliveredWith(i, Head(rest[i])) \in Nat
        /\ written[i] + Size(Head(rest[i])) \in Nat
        /\ DeliveredWith(i, Head(rest[i])) <= written[i] + Size(Head(rest[i]))
    BY <2>1, DeliveredBounds
  <2>3. /\ rest' \in [Invocations -> Seq(Pieces)]
        /\ written' \in [Invocations -> Nat]
        /\ delivered' \in [Invocations -> Nat]
    BY <1>2, <2>1, <2>2 DEF Write, TypeOK
  <2>4. ASSUME NEW j \in Invocations PROVE delivered'[j] <= written'[j]
    BY <1>2, <2>2 DEF Write, TypeOK
  <2> QED BY <1>2, <2>3, <2>4
          DEF Write, TypeOK, streamVars, fileVars, callVars, Call!TypeOK
<1>3. CASE WriteFails(i)
  <2>1. Head(rest[i]) \in Pieces
    BY <1>1, <1>3 DEF WriteFails
  <2>2. /\ DeliveredWith(i, Head(rest[i])) \in Nat
        /\ written[i] + Size(Head(rest[i])) \in Nat
        /\ DeliveredWith(i, Head(rest[i])) <= written[i] + Size(Head(rest[i]))
    BY <2>1, DeliveredBounds
  <2>3. PICK n \in delivered[i]..(DeliveredWith(i, Head(rest[i])) - 1) :
            delivered' = [delivered EXCEPT ![i] = n]
    BY <1>3 DEF WriteFails
  <2>4. delivered[i] \in Nat
    BY DEF TypeOK
  <2>5. n \in Nat /\ n <= written[i] + Size(Head(rest[i]))
    BY <2>2, <2>3, <2>4
  <2>6. written' \in [Invocations -> Nat] /\ delivered' \in [Invocations -> Nat]
    BY <1>3, <2>2, <2>3, <2>5 DEF WriteFails, TypeOK
  <2>7. ASSUME NEW j \in Invocations PROVE delivered'[j] <= written'[j]
    BY <1>3, <2>2, <2>3, <2>5 DEF WriteFails, TypeOK
  <2> QED BY <1>3, <2>6, <2>7
          DEF WriteFails, Exit, Goto, TypeOK, streamVars, fileVars, callVars, Call!TypeOK
<1>4. CASE Finish(i)
  <2>1. PICK n \in delivered[i]..written[i] : delivered' = [delivered EXCEPT ![i] = n]
    BY <1>4 DEF Finish
  <2>2. delivered[i] \in Nat /\ written[i] \in Nat
    BY DEF TypeOK
  <2>3. n \in Nat /\ n <= written[i]
    BY <2>1, <2>2
  <2>4. delivered' \in [Invocations -> Nat]
    BY <2>1, <2>3 DEF TypeOK
  <2>5. ASSUME NEW j \in Invocations PROVE delivered'[j] <= written[j]
    BY <2>1, <2>3 DEF TypeOK
  <2> QED BY <1>4, <2>4, <2>5
          DEF Finish, Exit, Goto, TypeOK, streamVars, fileVars, callVars, Call!TypeOK
<1> QED BY <1>2, <1>3, <1>4

\* The steps on the file of --out.
LEMMA TypeStepFile ==
    ASSUME TypeOK, NEW i \in Invocations,
           CreateFile(i) \/ WriteFile(i) \/ FileWritten(i) \/ FileFails(i)
    PROVE  TypeOK'
<1>1. CASE CreateFile(i)
  <2>1. file' \in Seq(Invocations \cup {Old, Hole})
    BY <1>1 DEF CreateFile
  <2>2. contended' \in BOOLEAN
    BY <1>1, Zenon DEF CreateFile
  <2> QED BY <1>1, <2>1, <2>2
          DEF CreateFile, Goto, TypeOK, streamVars, stdoutVars, callVars, Call!TypeOK
<1>2. CASE WriteFile(i)
  <2>1. PICK n \in 1..(Size(image[i]) - offset[i]) :
            /\ file' = Overlay(i, n)
            /\ offset' = [offset EXCEPT ![i] = @ + n]
    BY <1>2 DEF WriteFile
  <2>2. image[i] \in Pieces /\ offset[i] \in Nat
    BY DEF TypeOK
  <2>3. Size(image[i]) \in Nat
    BY <2>2 DEF Pieces, Size
  <2>4. n \in Nat /\ offset[i] + n \in Nat /\ offset[i] + n <= Size(image[i])
    BY <2>1, <2>2, <2>3
  <2>5. file' \in Seq(Invocations \cup {Old, Hole})
    BY <2>1, <2>4, OverlayTypes
  <2>6. offset' \in [Invocations -> Nat]
    BY <2>1, <2>4 DEF TypeOK
  <2>7. ASSUME NEW j \in Invocations
        PROVE  /\ offset'[j] <= Size(image[j])
               /\ pc[j] \in {"start", "calling"} => offset'[j] = 0
    BY <1>2, <2>1, <2>4 DEF WriteFile, Writing, TypeOK
  <2> QED BY <1>2, <2>5, <2>6, <2>7
          DEF WriteFile, TypeOK, streamVars, stdoutVars, callVars, Call!TypeOK
<1>3. CASE FileWritten(i)
  BY <1>3 DEF FileWritten, Exit, Goto, TypeOK, streamVars, stdoutVars, fileVars, callVars,
              Call!TypeOK
<1>4. CASE FileFails(i)
  BY <1>4 DEF FileFails, Exit, Goto, TypeOK, streamVars, stdoutVars, fileVars, callVars,
              Call!TypeOK
<1> QED BY <1>1, <1>2, <1>3, <1>4

LEMMA TypeNext == TypeOK /\ [Next]_vars => TypeOK'
<1> SUFFICES ASSUME TypeOK, [Next]_vars PROVE TypeOK'
  OBVIOUS
<1>1. ASSUME NEW i \in Invocations, Step(i) PROVE TypeOK'
  BY <1>1, TypeStepCall, TypeStepPrint, TypeStepStdout, TypeStepFile DEF Step
<1>2. CASE UNCHANGED vars
  BY <1>2 DEF vars, TypeOK, streamVars, stdoutVars, fileVars, callVars, Call!TypeOK
<1> QED BY <1>1, <1>2 DEF Next

\* Every variable keeps its type; an invocation never delivers more than it was
\* given, nor writes more to the file than the image holds.
THEOREM TypeCorrect == Spec => []TypeOK
BY TypeInit, TypeNext, PTL DEF Spec
-----------------------------------------------------------------------------
(* The inductive invariant *)

\* What a printing invocation has behind it, and that what is left of a text
\* ends in a newline, which takes everything before it out of the process.
PrintOK(i) ==
    /\ Fetches(i) => outcome[i] = "ok"
    /\ Snapshot(i) => ~ command[i].out
    /\ ~ Snapshot(i) => (rest[i] = <<>> /\ delivered[i] = written[i]) \/ EndsLine(rest[i])

SuccessOK(i) ==
    /\ Fetches(i) => effects[i] >= 1
    /\ (Snapshot(i) /\ command[i].out) => offset[i] = Size(image[i])
    /\ ~ Snapshot(i) => rest[i] = <<>> /\ delivered[i] = written[i]

InvocationOK(i) ==
    /\ pc[i] = "done" <=> exit[i] # "running"
    /\ outcome[i] = "ok" => effects[i] >= 1
    /\ pc[i] \in {"fetched", "writing"} => Snapshot(i) /\ outcome[i] = "ok"
    /\ pc[i] = "fetched" => offset[i] = 0
    /\ pc[i] = "writing" => command[i].out
    /\ pc[i] = "printing" => PrintOK(i)
    /\ exit[i] = "success" => SuccessOK(i)

\* The file is as it was until somebody opens it, and then its opener's alone
\* unless another was writing.
FileOK ==
    /\ opener = NoOne => file = OldFile
    /\ opener # NoOne => outcome[opener] = "ok" /\ Snapshot(opener)
    /\ \A i \in Invocations : Writing(i) => opener # NoOne
    /\ (opener # NoOne /\ ~ contended) =>
           /\ \A i \in Invocations : Writing(i) => i = opener
           /\ file = [k \in 1..offset[opener] |-> opener]

IInv ==
    /\ TypeOK
    /\ \A i \in Invocations : InvocationOK(i)
    /\ FileOK

\* A step is the step of one invocation.
LEMMA OthersUntouched ==
    ASSUME TypeOK, NEW i \in Invocations, Step(i), NEW j \in Invocations, j # i
    PROVE  /\ command'[j] = command[j] /\ pc'[j] = pc[j] /\ exit'[j] = exit[j]
           /\ rest'[j] = rest[j] /\ written'[j] = written[j] /\ delivered'[j] = delivered[j]
           /\ image'[j] = image[j] /\ offset'[j] = offset[j]
           /\ effects'[j] = effects[j] /\ outcome'[j] = outcome[j]
<1>1. CASE Refuse(i)
  BY <1>1 DEF Refuse, Exit, Goto, streamVars, stdoutVars, fileVars, callVars, TypeOK
<1>2. CASE Request(i)
  BY <1>2 DEF Request, Goto, streamVars, stdoutVars, fileVars, callVars, TypeOK
<1>3. CASE Serve(i)
  BY <1>3 DEF Serve, Call!Apply, streamVars, stdoutVars, fileVars, TypeOK
<1>4. CASE CallFails(i)
  <2>1. PICK r \in {"refused", "unknown"} : Call!Return(i, r)
    BY <1>4 DEF CallFails
  <2> QED BY <1>4, <2>1
          DEF CallFails, Call!Return, Exit, Goto, stdoutVars, fileVars, TypeOK
<1>5. CASE PrintLocal(i)
  <2>1. CASE \E output \in Output(i) : Emit(i, output) /\ UNCHANGED <<streamVars, callVars>>
    <3>1. PICK output \in Output(i) : Emit(i, output) /\ UNCHANGED <<streamVars, callVars>>
      BY <2>1
    <3> QED BY <3>1 DEF Emit, Goto, fileVars, callVars, TypeOK
  <2>2. CASE Exit(i, "failure")
             /\ UNCHANGED <<command, streamVars, stdoutVars, fileVars, callVars>>
    BY <2>2 DEF Exit, Goto, stdoutVars, fileVars, callVars, TypeOK
  <2> QED BY <1>5, <2>1, <2>2 DEF PrintLocal
<1>6. CASE PrintAnswer(i)
  BY <1>6 DEF PrintAnswer, Emit, Goto, Call!Return, streamVars, fileVars, TypeOK
<1>7. CASE PrintStreams(i)
  <2>1. PICK output \in Output(i) : Emit(i, output)
    BY <1>7 DEF PrintStreams
  <2>2. Call!Return(i, "ok")
    BY <1>7 DEF PrintStreams
  <2> QED BY <2>1, <2>2 DEF Emit, Goto, Call!Return, fileVars, TypeOK
<1>8. CASE FetchImage(i)
  BY <1>8 DEF FetchImage, Goto, Call!Return, streamVars, stdoutVars, TypeOK
<1>9. CASE PrintImage(i)
  BY <1>9 DEF PrintImage, Emit, Exit, Goto, streamVars, stdoutVars, fileVars, callVars, TypeOK
<1>10. CASE Write(i)
  BY <1>10 DEF Write, streamVars, fileVars, callVars, TypeOK
<1>11. CASE WriteFails(i)
  BY <1>11 DEF WriteFails, Exit, Goto, streamVars, fileVars, callVars, TypeOK
<1>12. CASE Finish(i)
  BY <1>12 DEF Finish, Exit, Goto, streamVars, fileVars, callVars, TypeOK
<1>13. CASE CreateFile(i)
  BY <1>13 DEF CreateFile, Goto, streamVars, stdoutVars, callVars, TypeOK
<1>14. CASE WriteFile(i)
  BY <1>14 DEF WriteFile, streamVars, stdoutVars, callVars, TypeOK
<1>15. CASE FileWritten(i)
  BY <1>15 DEF FileWritten, Exit, Goto, streamVars, stdoutVars, fileVars, callVars, TypeOK
<1>16. CASE FileFails(i)
  BY <1>16 DEF FileFails, Exit, Goto, streamVars, stdoutVars, fileVars, callVars, TypeOK
<1>17. CASE Kill(i)
  BY <1>17 DEF Kill, Exit, Goto, streamVars, stdoutVars, fileVars, callVars, TypeOK
<1> QED BY <1>1, <1>2, <1>3, <1>4, <1>5, <1>6, <1>7, <1>8, <1>9,
          <1>10, <1>11, <1>12, <1>13, <1>14, <1>15, <1>16, <1>17 DEF Step

LEMMA OthersOK ==
    ASSUME TypeOK, NEW i \in Invocations, Step(i), NEW j \in Invocations, j # i,
           InvocationOK(j)
    PROVE  InvocationOK(j)'
BY OthersUntouched DEF InvocationOK, PrintOK, SuccessOK, EndsLine, Snapshot, Fetches

\* What the library has done for an invocation stays done.
LEMMA CallKept ==
    ASSUME TypeOK, NEW i \in Invocations, InvocationOK(i),
           Call!Apply(i) \/ (\E r \in {"ok", "refused", "unknown"} : Call!Return(i, r))
    PROVE  /\ outcome'[i] = "ok" => effects'[i] >= 1
           /\ effects[i] >= 1 => effects'[i] >= 1
<1>1. effects[i] \in Nat
  BY Constants DEF TypeOK, Call!TypeOK
<1>2. CASE Call!Apply(i)
  BY <1>1, <1>2 DEF Call!Apply, TypeOK, Call!TypeOK, InvocationOK
<1>3. CASE \E r \in {"ok", "refused", "unknown"} : Call!Return(i, r)
  BY <1>1, <1>3 DEF Call!Return, TypeOK, Call!TypeOK, InvocationOK
<1> QED BY <1>2, <1>3

LEMMA InvocationStepCall ==
    ASSUME TypeOK, NEW i \in Invocations, InvocationOK(i),
           Refuse(i) \/ Request(i) \/ Serve(i) \/ CallFails(i) \/ Kill(i)
    PROVE  InvocationOK(i)'
<1>1. CASE Refuse(i)
  BY <1>1 DEF Refuse, Exit, Goto, TypeOK, stdoutVars, fileVars, callVars, InvocationOK
<1>2. CASE Request(i)
  BY <1>2 DEF Request, Goto, TypeOK, stdoutVars, fileVars, callVars, InvocationOK
<1>3. CASE Serve(i)
  <2>1. outcome' = outcome
    BY <1>3 DEF Serve, Call!Apply
  <2> QED BY <1>3, <2>1, CallKept
          DEF Serve, TypeOK, stdoutVars, fileVars, InvocationOK, PrintOK, SuccessOK, EndsLine,
              Snapshot, Fetches
<1>4. CASE CallFails(i)
  <2>1. outcome'[i] = "ok" => effects'[i] >= 1
    BY <1>4, CallKept DEF CallFails
  <2> QED BY <1>4, <2>1 DEF CallFails, Exit, Goto, TypeOK, InvocationOK
<1>5. CASE Kill(i)
  BY <1>5 DEF Kill, Exit, Goto, TypeOK, stdoutVars, fileVars, callVars, InvocationOK
<1> QED BY <1>1, <1>2, <1>3, <1>4, <1>5

\* Printing starts with a text that ends in a newline, or with an image.
LEMMA PrintStarts ==
    ASSUME TypeOK, NEW i \in Invocations, NEW output, Emit(i, output), InvocationOK(i),
           outcome'[i] = "ok" => effects'[i] >= 1,
           Fetches(i) => outcome'[i] = "ok",
           Snapshot(i) => ~ command[i].out,
           ~ Snapshot(i) => EndsLine(output),
           pc[i] # "done"
    PROVE  InvocationOK(i)'
<1>1. /\ pc'[i] = "printing" /\ rest'[i] = output /\ command' = command /\ exit' = exit
      /\ exit[i] = "running"
  BY DEF Emit, Goto, TypeOK, InvocationOK
<1>2. PrintOK(i)'
  BY <1>1 DEF PrintOK, EndsLine, Fetches, Snapshot
<1> QED BY <1>1, <1>2 DEF InvocationOK

LEMMA InvocationStepPrint ==
    ASSUME TypeOK, NEW i \in Invocations, InvocationOK(i),
           PrintLocal(i) \/ PrintAnswer(i) \/ PrintStreams(i) \/ FetchImage(i) \/ PrintImage(i)
    PROVE  InvocationOK(i)'
<1>1. CASE PrintLocal(i)
  <2>1. ~ Snapshot(i) /\ ~ Fetches(i)
    BY <1>1 DEF PrintLocal, Snapshot, Fetches, LocalCommands
  <2>2. CASE \E output \in Output(i) : Emit(i, output) /\ UNCHANGED <<streamVars, callVars>>
    <3>1. PICK output \in Output(i) : Emit(i, output) /\ UNCHANGED <<streamVars, callVars>>
      BY <2>2
    <3>2. EndsLine(output)
      BY OutputEndsLine
    <3> QED BY <1>1, <2>1, <3>1, <3>2, PrintStarts DEF PrintLocal, callVars, InvocationOK
  <2>3. CASE Exit(i, "failure")
             /\ UNCHANGED <<command, streamVars, stdoutVars, fileVars, callVars>>
    BY <2>3 DEF Exit, Goto, TypeOK, stdoutVars, fileVars, callVars, InvocationOK
  <2> QED BY <1>1, <2>2, <2>3 DEF PrintLocal
<1>2. CASE PrintAnswer(i)
  <2>1. ~ Snapshot(i)
    BY <1>2 DEF PrintAnswer, Snapshot, TextCommands, InfoCommands, CameraCommands,
                ChimeCommands, FileCommands, LightCommands, LiveviewCommands, NvrCommands,
                SensorCommands, ViewerCommands
  <2>2. PICK output \in Output(i) : Emit(i, output)
    BY <1>2 DEF PrintAnswer
  <2>3. EndsLine(output)
    BY OutputEndsLine
  <2>4. Call!Return(i, "ok") /\ pc[i] # "done"
    BY <1>2 DEF PrintAnswer
  <2>5. outcome'[i] = "ok"
    BY <2>4 DEF Call!Return, TypeOK, Call!TypeOK
  <2> QED BY <2>1, <2>2, <2>3, <2>4, <2>5, PrintStarts, CallKept
<1>3. CASE PrintStreams(i)
  <2>1. ~ Snapshot(i)
    BY <1>3 DEF PrintStreams, Snapshot
  <2>2. PICK output \in Output(i) : Emit(i, output)
    BY <1>3 DEF PrintStreams
  <2>3. EndsLine(output)
    BY OutputEndsLine
  <2>4. Call!Return(i, "ok") /\ pc[i] # "done"
    BY <1>3 DEF PrintStreams
  <2>5. outcome'[i] = "ok"
    BY <2>4 DEF Call!Return, TypeOK, Call!TypeOK
  <2> QED BY <2>1, <2>2, <2>3, <2>4, <2>5, PrintStarts, CallKept
<1>4. CASE FetchImage(i)
  <2>1. Call!Return(i, "ok")
    BY <1>4 DEF FetchImage
  <2>2. outcome'[i] = "ok" /\ effects'[i] >= 1
    BY <2>1, CallKept DEF Call!Return, TypeOK, Call!TypeOK
  <2>3. offset[i] = 0
    BY <1>4 DEF FetchImage, TypeOK
  <2> QED BY <1>4, <2>2, <2>3 DEF FetchImage, Goto, Snapshot, TypeOK, InvocationOK
<1>5. CASE PrintImage(i)
  <2>1. /\ Snapshot(i) /\ outcome[i] = "ok" /\ ~ command[i].out /\ pc[i] = "fetched"
        /\ callVars' = callVars
    BY <1>5 DEF PrintImage, InvocationOK
  <2>2. CASE Emit(i, <<image[i]>>)
    BY <2>1, <2>2, PrintStarts DEF callVars, InvocationOK
  <2>3. CASE Exit(i, "failure") /\ UNCHANGED <<command, stdoutVars, fileVars>>
    BY <2>1, <2>3 DEF Exit, Goto, TypeOK, stdoutVars, fileVars, callVars, InvocationOK
  <2> QED BY <1>5, <2>2, <2>3 DEF PrintImage
<1> QED BY <1>1, <1>2, <1>3, <1>4, <1>5

LEMMA TailFacts ==
    ASSUME NEW S, NEW s \in Seq(S), s # <<>>
    PROVE  /\ Tail(s) \in Seq(S)
           /\ Len(s) \in Nat /\ Len(s) >= 1 /\ Len(Tail(s)) = Len(s) - 1
           /\ Len(s) = 1 => Tail(s) = <<>>
           /\ Len(s) >= 2 => Tail(s) # <<>> /\ Tail(s)[Len(s) - 1] = s[Len(s)]
<1>1. Len(s) \in Nat /\ Len(s) >= 1
  BY EmptySeq
<1>2. /\ Tail(s) \in Seq(S) /\ Len(Tail(s)) = Len(s) - 1
      /\ \A k \in 1..Len(Tail(s)) : Tail(s)[k] = s[k + 1]
  BY HeadTailProperties
<1>0. ASSUME NEW t \in Seq(S) PROVE t = <<>> <=> Len(t) = 0
  <2>1. t = <<>> => Len(t) = 0
    BY EmptySeq, Zenon
  <2>2. t # <<>> => Len(t) \in Nat \ {0}
    BY EmptySeq, Zenon
  <2> QED BY <2>1, <2>2
<1>3. Len(s) = 1 => Tail(s) = <<>>
  <2>1. Len(s) = 1 => Len(Tail(s)) = 0
    BY <1>2
  <2> QED BY <1>0, <1>2, <2>1, Zenon
<1>4. ASSUME Len(s) >= 2
      PROVE  Tail(s) # <<>> /\ Tail(s)[Len(s) - 1] = s[Len(s)]
  <2>1. Len(s) - 1 \in 1..Len(Tail(s)) /\ (Len(s) - 1) + 1 = Len(s)
    BY <1>1, <1>2, <1>4
  <2>2. Tail(s) # <<>>
    <3>1. Len(Tail(s)) # 0
      BY <1>1, <1>2, <1>4
    <3> QED BY <1>0, <1>2, <3>1, Zenon
  <2>3. Tail(s)[Len(s) - 1] = s[Len(s)]
    BY <1>2, <2>1, Zenon
  <2> QED BY <2>2, <2>3
<1> QED BY <1>1, <1>2, <1>3, <1>4

LEMMA TailEndsLine ==
    ASSUME NEW s, EndsLine(s), Len(s) # 1
    PROVE  EndsLine(Tail(s))
<1>1. s \in Seq(Pieces) /\ s # <<>>
  BY DEF EndsLine
<1>2. Len(s) \in Nat /\ Len(s) >= 2
  <2>1. Len(s) \in Nat /\ Len(s) >= 1
    BY <1>1, TailFacts, Zenon
  <2> QED BY <2>1
<1>3. /\ Tail(s) \in Seq(Pieces) /\ Tail(s) # <<>>
      /\ Len(Tail(s)) = Len(s) - 1
      /\ Tail(s)[Len(s) - 1] = s[Len(s)]
  BY <1>1, <1>2, TailFacts
<1>4. Len(Tail(s)) = Len(s) - 1 => Tail(s)[Len(Tail(s))] = s[Len(s)]
  BY <1>3, Zenon
<1> QED BY <1>3, <1>4, Zenon DEF EndsLine

\* The last write of a text delivers all of it.
LEMMA InvocationStepStdout ==
    ASSUME TypeOK, NEW i \in Invocations, InvocationOK(i),
           Write(i) \/ WriteFails(i) \/ Finish(i)
    PROVE  InvocationOK(i)'
<1>1. CASE Write(i)
  <2> DEFINE piece == Head(rest[i])
  <2>1. /\ pc[i] = "printing" /\ rest[i] # <<>> /\ PrintOK(i)
        /\ exit[i] = "running"
    BY <1>1 DEF Write, InvocationOK
  <2>2. rest[i] \in Seq(Pieces) /\ piece = rest[i][1] /\ piece \in Pieces
    BY <2>1 DEF TypeOK
  <2>3. /\ rest'[i] = Tail(rest[i])
        /\ written'[i] = written[i] + Size(piece)
        /\ delivered'[i] = DeliveredWith(i, piece)
    BY <1>1 DEF Write, TypeOK
  <2>4. ASSUME EndsLine(rest[i])
        PROVE  (rest'[i] = <<>> /\ delivered'[i] = written'[i]) \/ EndsLine(rest'[i])
    <3>1. CASE Len(rest[i]) = 1
      <4>1. piece.tail = 0 /\ piece.lines >= 1
        BY <2>2, <2>4, <3>1 DEF EndsLine
      <4>2. rest'[i] = <<>>
        BY <2>1, <2>2, <2>3, <3>1, TailFacts
      <4> QED BY <2>2, <2>3, <4>1, <4>2, DeliveredBounds
    <3>2. CASE Len(rest[i]) # 1
      BY <2>3, <2>4, <3>2, TailEndsLine
    <3> QED BY <3>1, <3>2
  <2>5. PrintOK(i)'
    BY <1>1, <2>1, <2>4 DEF Write, PrintOK, Fetches, Snapshot, callVars
  <2> QED BY <1>1, <2>1, <2>5 DEF Write, fileVars, callVars, InvocationOK
<1>2. CASE WriteFails(i)
  BY <1>2 DEF WriteFails, Exit, Goto, TypeOK, fileVars, callVars, InvocationOK
<1>3. CASE Finish(i)
  <2>1. pc[i] = "printing" /\ rest[i] = <<>> /\ PrintOK(i)
    BY <1>3 DEF Finish, InvocationOK
  <2>2. ~ EndsLine(rest[i])
    BY <2>1 DEF EndsLine
  <2>3. PICK n \in delivered[i]..written[i] : delivered'[i] = n
    BY <1>3 DEF Finish, TypeOK
  <2>4. delivered[i] = written[i] => delivered'[i] = written[i]
    BY <2>3 DEF TypeOK
  <2>5. SuccessOK(i)'
    BY <1>3, <2>1, <2>2, <2>4
       DEF Finish, PrintOK, SuccessOK, Fetches, Snapshot, fileVars, callVars, InvocationOK
  <2>6. pc'[i] = "done" /\ exit'[i] = "success"
    BY <1>3 DEF Finish, Exit, Goto, TypeOK
  <2> QED BY <1>3, <2>5, <2>6 DEF Finish, callVars, InvocationOK
<1> QED BY <1>1, <1>2, <1>3

LEMMA InvocationStepFile ==
    ASSUME TypeOK, NEW i \in Invocations, InvocationOK(i),
           CreateFile(i) \/ WriteFile(i) \/ FileWritten(i) \/ FileFails(i)
    PROVE  InvocationOK(i)'
<1>1. CASE CreateFile(i)
  BY <1>1 DEF CreateFile, Goto, Snapshot, TypeOK, stdoutVars, callVars, InvocationOK
<1>2. CASE WriteFile(i)
  <2>1. pc[i] = "writing" /\ exit[i] = "running"
    BY <1>2 DEF WriteFile, Writing, InvocationOK
  <2> QED BY <1>2, <2>1
          DEF WriteFile, Snapshot, TypeOK, stdoutVars, callVars, InvocationOK
<1>3. CASE FileWritten(i)
  <2>1. /\ pc[i] = "writing" /\ offset[i] = Size(image[i])
        /\ Snapshot(i) /\ command[i].out /\ effects[i] >= 1
    BY <1>3 DEF FileWritten, Writing, InvocationOK
  <2>2. SuccessOK(i)'
    BY <1>3, <2>1 DEF FileWritten, SuccessOK, Snapshot, Fetches, fileVars, callVars
  <2> QED BY <1>3, <2>2
          DEF FileWritten, Exit, Goto, TypeOK, stdoutVars, fileVars, callVars, InvocationOK
<1>4. CASE FileFails(i)
  BY <1>4 DEF FileFails, Exit, Goto, TypeOK, stdoutVars, fileVars, callVars, InvocationOK
<1> QED BY <1>1, <1>2, <1>3, <1>4

LEMMA InvocationNext ==
    ASSUME TypeOK, \A j \in Invocations : InvocationOK(j), NEW i \in Invocations, Step(i)
    PROVE  \A j \in Invocations : InvocationOK(j)'
<1>1. InvocationOK(i)'
  BY InvocationStepCall, InvocationStepPrint, InvocationStepStdout, InvocationStepFile
     DEF Step
<1> QED BY <1>1, OthersOK

\* A step that is none of --out leaves the file as it is and starts no writing.
LEMMA FileUntouched ==
    ASSUME TypeOK, FileOK, \A j \in Invocations : InvocationOK(j),
           NEW i \in Invocations, Step(i), ~ CreateFile(i), ~ WriteFile(i)
    PROVE  /\ file' = file /\ opener' = opener /\ contended' = contended /\ offset' = offset
           /\ command' = command
           /\ \A j \in Invocations : Writing(j)' => Writing(j)
           /\ \A j \in Invocations : outcome[j] = "ok" => outcome'[j] = "ok"
<1>1. CASE Refuse(i)
  BY <1>1 DEF Refuse, Exit, Goto, fileVars, callVars, TypeOK, Call!TypeOK, Writing
<1>2. CASE Request(i)
  BY <1>2 DEF Request, Goto, fileVars, callVars, TypeOK, Call!TypeOK, Writing
<1>3. CASE Serve(i)
  BY <1>3 DEF Serve, Call!Apply, fileVars, TypeOK, Call!TypeOK, Writing
<1>4. CASE CallFails(i)
  <2>1. PICK r \in {"refused", "unknown"} : Call!Return(i, r)
    BY <1>4 DEF CallFails
  <2> QED BY <1>4, <2>1
          DEF CallFails, Call!Return, Exit, Goto, fileVars, TypeOK, Call!TypeOK, Writing
<1>5. CASE PrintLocal(i)
  <2>1. CASE \E output \in Output(i) : Emit(i, output) /\ UNCHANGED <<streamVars, callVars>>
    <3>1. PICK output \in Output(i) : Emit(i, output) /\ UNCHANGED <<streamVars, callVars>>
      BY <2>1
    <3> QED BY <3>1 DEF Emit, Goto, fileVars, callVars, TypeOK, Writing
  <2>2. CASE Exit(i, "failure")
             /\ UNCHANGED <<command, streamVars, stdoutVars, fileVars, callVars>>
    BY <2>2 DEF Exit, Goto, fileVars, callVars, TypeOK, Writing
  <2> QED BY <1>5, <2>1, <2>2 DEF PrintLocal
<1>6. CASE PrintAnswer(i)
  BY <1>6 DEF PrintAnswer, Emit, Goto, Call!Return, fileVars, TypeOK, Call!TypeOK, Writing
<1>7. CASE PrintStreams(i)
  <2>1. PICK output \in Output(i) : Emit(i, output)
    BY <1>7 DEF PrintStreams
  <2>2. Call!Return(i, "ok")
    BY <1>7 DEF PrintStreams
  <2> QED BY <2>1, <2>2 DEF Emit, Goto, Call!Return, fileVars, TypeOK, Call!TypeOK, Writing
<1>8. CASE FetchImage(i)
  BY <1>8 DEF FetchImage, Goto, Call!Return, TypeOK, Call!TypeOK, Writing
<1>9. CASE PrintImage(i)
  BY <1>9 DEF PrintImage, Emit, Exit, Goto, fileVars, callVars, TypeOK, Call!TypeOK, Writing
<1>10. CASE Write(i)
  BY <1>10 DEF Write, fileVars, callVars, TypeOK, Call!TypeOK, Writing
<1>11. CASE WriteFails(i)
  BY <1>11 DEF WriteFails, Exit, Goto, fileVars, callVars, TypeOK, Call!TypeOK, Writing
<1>12. CASE Finish(i)
  BY <1>12 DEF Finish, Exit, Goto, fileVars, callVars, TypeOK, Call!TypeOK, Writing
<1>13. CASE FileWritten(i)
  BY <1>13 DEF FileWritten, Exit, Goto, fileVars, callVars, TypeOK, Call!TypeOK, Writing
<1>14. CASE FileFails(i)
  BY <1>14 DEF FileFails, Exit, Goto, fileVars, callVars, TypeOK, Call!TypeOK, Writing
<1>15. CASE Kill(i)
  BY <1>15 DEF Kill, Exit, Goto, fileVars, callVars, TypeOK, Call!TypeOK, Writing
<1> QED BY <1>1, <1>2, <1>3, <1>4, <1>5, <1>6, <1>7, <1>8,
          <1>9, <1>10, <1>11, <1>12, <1>13, <1>14, <1>15 DEF Step

LEMMA FileNext ==
    ASSUME TypeOK, FileOK, \A j \in Invocations : InvocationOK(j),
           NEW i \in Invocations, Step(i)
    PROVE  FileOK'
<1>1. CASE CreateFile(i)
  <2>1. /\ pc[i] = "fetched" /\ file' = <<>> /\ opener' = i /\ i # NoOne
        /\ contended' = (\E j \in Invocations \ {i} : Writing(j))
        /\ offset' = offset /\ outcome' = outcome /\ command' = command
    BY <1>1, Constants DEF CreateFile, callVars
  <2>2. outcome[i] = "ok" /\ Snapshot(i) /\ offset[i] = 0
    BY <2>1 DEF InvocationOK
  <2>3. \A j \in Invocations : Writing(j)' => j = i \/ Writing(j)
    BY <1>1 DEF CreateFile, Goto, Writing, TypeOK
  <2>4. file' = [k \in 1..offset'[i] |-> i]
    BY <2>1, <2>2
  <2>5. ~ contended' => \A j \in Invocations : Writing(j)' => j = i
    BY <2>1, <2>3
  <2> QED BY <2>1, <2>2, <2>4, <2>5 DEF FileOK, Snapshot
<1>2. CASE WriteFile(i)
  <2>1. /\ Writing(i) /\ opener' = opener /\ contended' = contended
        /\ outcome' = outcome /\ command' = command /\ pc' = pc
    BY <1>2 DEF WriteFile, callVars
  <2>2. PICK n \in 1..(Size(image[i]) - offset[i]) :
            file' = Overlay(i, n) /\ offset' = [offset EXCEPT ![i] = @ + n]
    BY <1>2 DEF WriteFile
  <2>3. opener # NoOne
    BY <2>1 DEF FileOK
  <2>4. n \in Nat /\ offset[i] \in Nat /\ offset'[i] = offset[i] + n
    BY <2>2 DEF TypeOK
  <2>5. ASSUME ~ contended
        PROVE  opener = i /\ file' = [k \in 1..offset'[i] |-> i]
    <3>1. opener = i /\ file = [k \in 1..offset[i] |-> i]
      BY <2>1, <2>3, <2>5 DEF FileOK
    <3>2. Len(file) = offset[i]
      BY <2>4, <3>1, ConstantSequence
    <3> QED BY <2>2, <2>4, <3>1, <3>2 DEF Overlay
  <2>6. \A j \in Invocations : Writing(j)' <=> Writing(j)
    BY <2>1 DEF Writing
  <2> QED BY <2>1, <2>3, <2>5, <2>6 DEF FileOK, Snapshot
<1>3. CASE ~ CreateFile(i) /\ ~ WriteFile(i)
  <2>1. /\ file' = file /\ opener' = opener /\ contended' = contended /\ offset' = offset
        /\ command' = command
        /\ \A j \in Invocations : Writing(j)' => Writing(j)
        /\ \A j \in Invocations : outcome[j] = "ok" => outcome'[j] = "ok"
    BY <1>3, FileUntouched
  <2>2. opener # NoOne => opener \in Invocations
    BY DEF TypeOK
  <2> QED BY <2>1, <2>2 DEF FileOK, Snapshot
<1> QED BY <1>1, <1>2, <1>3

LEMMA InvInit == Init => IInv
<1> SUFFICES ASSUME Init PROVE IInv
  OBVIOUS
<1>1. TypeOK
  BY TypeInit
<1>2. ASSUME NEW i \in Invocations PROVE InvocationOK(i)
  <2>1. pc[i] = "start" /\ exit[i] = "running" /\ outcome[i] = "pending"
    BY DEF Init, Call!Init
  <2> QED BY <2>1 DEF InvocationOK
<1>3. FileOK
  BY DEF Init, FileOK, Writing
<1> QED BY <1>1, <1>2, <1>3 DEF IInv

LEMMA InvNext == IInv /\ [Next]_vars => IInv'
<1> SUFFICES ASSUME IInv, [Next]_vars PROVE IInv'
  OBVIOUS
<1>1. TypeOK'
  BY TypeNext DEF IInv
<1>2. ASSUME NEW i \in Invocations, Step(i) PROVE IInv'
  <2>1. \A j \in Invocations : InvocationOK(j)'
    BY <1>2, InvocationNext DEF IInv
  <2>2. FileOK'
    BY <1>2, FileNext DEF IInv
  <2> QED BY <1>1, <2>1, <2>2 DEF IInv
<1>3. CASE UNCHANGED vars
  <2>1. UNCHANGED <<command, pc, exit, rest, written, delivered, image, offset, file, opener,
                    contended, budget, effects, outcome>>
    BY <1>3 DEF vars, stdoutVars, fileVars, callVars
  <2>2. \A j \in Invocations : InvocationOK(j)'
    BY <2>1 DEF IInv, InvocationOK, PrintOK, SuccessOK, EndsLine, Snapshot, Fetches
  <2>3. FileOK'
    BY <2>1 DEF IInv, FileOK, Writing, Snapshot, OldFile
  <2> QED BY <1>1, <2>2, <2>3 DEF IInv
<1> QED BY <1>2, <1>3 DEF Next

LEMMA Inductive == Spec => []IInv
BY InvInit, InvNext, PTL DEF Spec
-----------------------------------------------------------------------------
(* The properties *)

\* Exit code 0 can be believed: the request was carried out and the whole result
\* has left the process, whatever the output, the image and the buffer.
THEOREM SuccessMeansDoneHolds == Spec => []SuccessMeansDone
<1>1. IInv => SuccessMeansDone
  BY DEF IInv, InvocationOK, SuccessOK, SuccessMeansDone
<1> QED BY <1>1, Inductive, PTL

\* Nothing but a snapshot that has arrived touches the file of --out.
THEOREM OldSnapshotKeptHolds == Spec => []OldSnapshotKept
<1>1. IInv => OldSnapshotKept
  BY DEF IInv, FileOK, TypeOK, OldSnapshotKept
<1> QED BY <1>1, Inductive, PTL

\* The file holds what its last opener has written and nothing else, after any
\* history of longer images, failures and kills, unless two wrote at once.
THEOREM NoRemainsHolds == Spec => []NoRemains
<1>1. IInv => NoRemains
  BY DEF IInv, FileOK, NoRemains
<1> QED BY <1>1, Inductive, PTL

-----------------------------------------------------------------------------
(* Streams: induction along the request. *)

\* The pass over the request, cut off after its first n entries, has kept those
\* of them that the server made.
KeptSoFar(result, asked, created, n) ==
    /\ result \in Seq(Qualities)
    /\ \E position \in [1..Len(result) -> 1..n] :
           /\ \A j, k \in 1..Len(result) : j < k => position[j] < position[k]
           /\ {position[k] : k \in 1..Len(result)} = {k \in 1..n : asked[k] \in created}
           /\ \A k \in 1..Len(result) : result[k] = asked[position[k]]

LEMMA KeepOne ==
    ASSUME NEW asked \in Seq(Qualities), NEW created, NEW n \in Nat, n + 1 <= Len(asked),
           NEW result, KeptSoFar(result, asked, created, n)
    PROVE  KeptSoFar(IF asked[n + 1] \in created THEN Append(result, asked[n + 1]) ELSE result,
                     asked, created, n + 1)
<1>0. n + 1 \in 1..Len(asked) /\ asked[n + 1] \in Qualities
  OBVIOUS
<1>1. result \in Seq(Qualities) /\ Len(result) \in Nat
  BY DEF KeptSoFar
<1>2. PICK position \in [1..Len(result) -> 1..n] :
           /\ \A j, k \in 1..Len(result) : j < k => position[j] < position[k]
           /\ {position[k] : k \in 1..Len(result)} = {k \in 1..n : asked[k] \in created}
           /\ \A k \in 1..Len(result) : result[k] = asked[position[k]]
  BY DEF KeptSoFar
<1>3. CASE asked[n + 1] \notin created
  <2>1. position \in [1..Len(result) -> 1..(n + 1)]
    BY <1>1
  <2>2. {k \in 1..(n + 1) : asked[k] \in created} = {k \in 1..n : asked[k] \in created}
    BY <1>3
  <2>3. KeptSoFar(result, asked, created, n + 1)
    BY <1>1, <1>2, <2>1, <2>2 DEF KeptSoFar
  <2> QED BY <1>3, <2>3
<1>4. CASE asked[n + 1] \in created
  <2> DEFINE more == Append(result, asked[n + 1])
             m == Len(result)
             next == [k \in 1..(m + 1) |-> IF k = m + 1 THEN n + 1 ELSE position[k]]
  <2>1. /\ more \in Seq(Qualities) /\ Len(more) = m + 1
        /\ \A k \in 1..m : more[k] = result[k]
        /\ more[m + 1] = asked[n + 1]
    BY <1>0, <1>1
  <2>2. next \in [1..(m + 1) -> 1..(n + 1)]
    BY <1>1
  <2>3. /\ \A k \in 1..m : next[k] = position[k] /\ position[k] \in 1..n
        /\ next[m + 1] = n + 1
    BY <1>1
  <2> HIDE DEF next, more
  <2>4. \A j, k \in 1..(m + 1) : j < k => next[j] < next[k]
    <3> SUFFICES ASSUME NEW j \in 1..(m + 1), NEW k \in 1..(m + 1), j < k
                 PROVE  next[j] < next[k]
      OBVIOUS
    <3>1. j \in 1..m
      BY <1>1
    <3>2. CASE k = m + 1
      BY <2>3, <3>1, <3>2
    <3>3. CASE k # m + 1
      <4>1. k \in 1..m
        BY <1>1, <3>3
      <4> QED BY <1>2, <2>3, <3>1, <4>1
    <3> QED BY <3>2, <3>3
  <2>5. {next[k] : k \in 1..(m + 1)} = {k \in 1..(n + 1) : asked[k] \in created}
    <3>1. 1..(m + 1) = (1..m) \cup {m + 1} /\ 1..(n + 1) = (1..n) \cup {n + 1}
      BY <1>1
    <3>2. {next[k] : k \in 1..(m + 1)} = {position[k] : k \in 1..m} \cup {n + 1}
      BY <2>3, <3>1
    <3>3. {k \in 1..(n + 1) : asked[k] \in created}
              = {k \in 1..n : asked[k] \in created} \cup {n + 1}
      BY <1>4, <3>1
    <3> QED BY <1>2, <3>2, <3>3
  <2>6. \A k \in 1..(m + 1) : more[k] = asked[next[k]]
    <3> TAKE k \in 1..(m + 1)
    <3>1. CASE k = m + 1
      BY <2>1, <2>3, <3>1
    <3>2. CASE k # m + 1
      <4>1. k \in 1..m
        BY <1>1, <3>2
      <4> QED BY <1>2, <2>1, <2>3, <4>1
    <3> QED BY <3>1, <3>2
  <2>7. KeptSoFar(more, asked, created, n + 1)
    BY <2>1, <2>2, <2>4, <2>5, <2>6 DEF KeptSoFar
  <2> QED BY <1>4, <2>7 DEF more
<1> QED BY <1>3, <1>4

LEMMA KeptAll ==
    ASSUME NEW asked \in Seq(Qualities), NEW created, NEW result,
           KeptSoFar(result, asked, created, Len(asked))
    PROVE  InRequestOrder(result, asked, created)
<1>1. DOMAIN asked = 1..Len(asked) /\ DOMAIN result = 1..Len(result)
  BY DEF KeptSoFar
<1>2. PICK position \in [1..Len(result) -> 1..Len(asked)] :
           /\ \A j, k \in 1..Len(result) : j < k => position[j] < position[k]
           /\ {position[k] : k \in 1..Len(result)}
                  = {k \in 1..Len(asked) : asked[k] \in created}
           /\ \A k \in 1..Len(result) : result[k] = asked[position[k]]
  BY DEF KeptSoFar
<1>3. DOMAIN position = 1..Len(result)
  OBVIOUS
<1> QED BY <1>1, <1>2, <1>3 DEF InRequestOrder

\* What streams_in_request_order returns, for every request and every answer.
LEMMA RequestOrder ==
    ASSUME NEW asked \in Seq(Qualities), NEW created
    PROVE  InRequestOrder(StreamsInRequestOrder(asked, created), asked, created)
<1> DEFINE N == Len(asked)
           Body(f) == [n \in 0..N |->
                         IF n = 0 THEN <<>>
                         ELSE IF asked[n] \in created THEN Append(f[n - 1], asked[n])
                         ELSE f[n - 1]]
           pass == CHOOSE f : f = Body(f)
           step == [n \in 0..(N - 1) |->
                      [s \in Seq(Qualities) |->
                         IF asked[n + 1] \in created THEN Append(s, asked[n + 1]) ELSE s]]
<1>1. N \in Nat
  OBVIOUS
<1>2. \A n \in 0..(N - 1) : step[n] \in [Seq(Qualities) -> Seq(Qualities)]
  <2> SUFFICES ASSUME NEW n \in 0..(N - 1), NEW s \in Seq(Qualities)
               PROVE  (IF asked[n + 1] \in created THEN Append(s, asked[n + 1]) ELSE s)
                          \in Seq(Qualities)
    OBVIOUS
  <2>1. asked[n + 1] \in Qualities
    OBVIOUS
  <2> QED BY <2>1
<1>3. \E f \in [0..N -> Seq(Qualities)] : Follows(f, N, <<>>, step)
  <2>1. <<>> \in Seq(Qualities)
    OBVIOUS
  <2> HIDE DEF step, N
  <2> QED BY <1>1, <1>2, <2>1, FiniteRecursion
<1>4. PICK f \in [0..N -> Seq(Qualities)] : Follows(f, N, <<>>, step)
  BY <1>3
<1>5. \A n \in 0..(N - 1) :
          f[n + 1] = IF asked[n + 1] \in created THEN Append(f[n], asked[n + 1]) ELSE f[n]
  <2> TAKE n \in 0..(N - 1)
  <2>1. f[n + 1] = step[n][f[n]] /\ f[n] \in Seq(Qualities)
    <3> HIDE DEF step
    <3> QED BY <1>4 DEF Follows
  <2> QED BY <2>1
<1>6. f = Body(f)
  <2>1. \A n \in 0..N : f[n] = Body(f)[n]
    <3> TAKE n \in 0..N
    <3>1. CASE n = 0
      BY <1>4, <3>1 DEF Follows
    <3>2. CASE n # 0
      <4>1. n - 1 \in 0..(N - 1) /\ (n - 1) + 1 = n
        BY <3>2
      <4> QED BY <1>5, <3>2, <4>1
    <3> QED BY <3>1, <3>2
  <2> QED BY <2>1
<1>7. pass = Body(pass)
  <2> HIDE DEF Body
  <2> QED BY <1>6
<1>8. StreamsInRequestOrder(asked, created) = pass[N]
  BY DEF StreamsInRequestOrder
<1> HIDE DEF pass
<1>9. /\ pass[0] = <<>>
      /\ \A n \in 0..(N - 1) :
             pass[n + 1] =
                 IF asked[n + 1] \in created THEN Append(pass[n], asked[n + 1]) ELSE pass[n]
  <2>1. \A n \in 0..N :
            pass[n] = IF n = 0 THEN <<>>
                      ELSE IF asked[n] \in created THEN Append(pass[n - 1], asked[n])
                      ELSE pass[n - 1]
    BY <1>7
  <2>2. pass[0] = <<>>
    BY <1>1, <2>1
  <2>3. ASSUME NEW n \in 0..(N - 1)
        PROVE  pass[n + 1] =
                   IF asked[n + 1] \in created THEN Append(pass[n], asked[n + 1]) ELSE pass[n]
    <3>1. n + 1 \in 0..N /\ n + 1 # 0 /\ (n + 1) - 1 = n
      BY <1>1
    <3> HIDE DEF N
    <3> QED BY <2>1, <3>1
  <2> QED BY <2>2, <2>3
<1>10. \A n \in 0..N : KeptSoFar(pass[n], asked, created, n)
  <2> DEFINE S == {n \in Nat : n <= N => KeptSoFar(pass[n], asked, created, n)}
  <2>1. 0 \in S
    <3>1. <<>> \in Seq(Qualities) /\ Len(<<>>) = 0
      OBVIOUS
    <3>2. [k \in 1..0 |-> k] \in [1..0 -> 1..0]
      OBVIOUS
    <3>3. KeptSoFar(<<>>, asked, created, 0)
      BY <3>1, <3>2 DEF KeptSoFar
    <3> QED BY <1>9, <3>3
  <2>2. ASSUME NEW n \in Nat, n \in S PROVE n + 1 \in S
    <3> SUFFICES ASSUME n + 1 <= N PROVE KeptSoFar(pass[n + 1], asked, created, n + 1)
      OBVIOUS
    <3>1. KeptSoFar(pass[n], asked, created, n) /\ n \in 0..(N - 1)
      BY <2>2
    <3> QED BY <1>9, <3>1, KeepOne
  <2>3. Nat \subseteq S
    <3> HIDE DEF S
    <3> QED BY <2>1, <2>2, NatSetInduction
  <2> QED BY <2>3
<1>11. KeptSoFar(pass[N], asked, created, N)
  BY <1>1, <1>10
<1> QED BY <1>8, <1>11, KeptAll

LEMMA StreamsInit == Init => StreamsAsRequested
<1> SUFFICES ASSUME Init
             PROVE  \A i \in Invocations :
                        InRequestOrder(streams[i], command[i].qualities, populated[i])
  BY DEF StreamsAsRequested
<1> TAKE i \in Invocations
<1>1. streams[i] = <<>> /\ populated[i] = {}
  BY DEF Init
<1>2. ASSUME NEW asked PROVE InRequestOrder(<<>>, asked, {})
  <2> DEFINE none == [k \in DOMAIN <<>> |-> k]
  <2>1. DOMAIN <<>> = {}
    OBVIOUS
  <2>2. none \in [DOMAIN <<>> -> DOMAIN asked] /\ DOMAIN none = {}
    BY <2>1
  <2> HIDE DEF none
  <2>3. {none[k] : k \in DOMAIN none} = {k \in DOMAIN asked : asked[k] \in {}}
    BY <2>2
  <2> QED BY <2>2, <2>3 DEF InRequestOrder
<1> QED BY <1>1, <1>2

LEMMA StreamsNext == TypeOK /\ StreamsAsRequested /\ [Next]_vars => StreamsAsRequested'
<1> SUFFICES ASSUME TypeOK, StreamsAsRequested, [Next]_vars
             PROVE  StreamsAsRequested'
  OBVIOUS
<1>1. ASSUME NEW i \in Invocations, PrintStreams(i)
      PROVE  StreamsAsRequested'
  <2>1. PICK created \in SUBSET Qualities :
            /\ populated' = [populated EXCEPT ![i] = created]
            /\ streams' = [streams EXCEPT
                  ![i] = StreamsInRequestOrder(command[i].qualities, created)]
    BY <1>1 DEF PrintStreams
  <2>2. command' = command
    BY <1>1 DEF PrintStreams, Emit
  <2>3. command[i].qualities \in Seq(Qualities)
    BY LineTypes DEF TypeOK
  <2>4. InRequestOrder(StreamsInRequestOrder(command[i].qualities, created),
                       command[i].qualities, created)
    BY <2>3, RequestOrder
  <2>5. ASSUME NEW d \in Invocations
        PROVE  InRequestOrder(streams'[d], command'[d].qualities, populated'[d])
    <3>1. CASE d = i
      <4>1. /\ streams'[d] = StreamsInRequestOrder(command[i].qualities, created)
            /\ populated'[d] = created /\ command'[d] = command[i]
        BY <2>1, <2>2, <3>1 DEF TypeOK
      <4> QED BY <2>4, <4>1
    <3>2. CASE d # i
      <4>1. streams'[d] = streams[d] /\ populated'[d] = populated[d] /\ command'[d] = command[d]
        BY <2>1, <2>2, <3>2 DEF TypeOK
      <4> QED BY <4>1 DEF StreamsAsRequested
    <3> QED BY <3>1, <3>2
  <2> QED BY <2>5 DEF StreamsAsRequested
<1>2. ASSUME NEW i \in Invocations, Step(i), ~ PrintStreams(i)
      PROVE  command' = command /\ streams' = streams /\ populated' = populated
  BY <1>2 DEF Step, Refuse, Request, Serve, CallFails, PrintLocal, PrintAnswer, FetchImage,
              PrintImage, Write, WriteFails, Finish, CreateFile, WriteFile, FileWritten,
              FileFails, Kill, Emit, streamVars
<1>3. CASE command' = command /\ streams' = streams /\ populated' = populated
  BY <1>3 DEF StreamsAsRequested
<1>4. CASE UNCHANGED vars
  BY <1>3, <1>4 DEF vars, streamVars
<1> QED BY <1>1, <1>2, <1>3, <1>4 DEF Next

\* For every request and every answer, the streams are exactly the requested
\* ones that the server made, in the order and the number of the request.
THEOREM StreamsAsRequestedHolds == Spec => []StreamsAsRequested
BY StreamsInit, StreamsNext, TypeCorrect, PTL DEF Spec
=============================================================================

------------------------ MODULE ConfigTemplateProofs ------------------------
(***************************************************************************)
(* The config file is whole and stays private, whatever the number of      *)
(* invocations and wherever they are killed.                               *)
(***************************************************************************)
EXTENDS ConfigTemplate, TLAPS

\* A file that a reader may see: complete, and safe from a power loss.
Whole(file) == file = None \/ (file.content # "partial" /\ file.synced)

Private(file) == file = None \/ file.private

\* Nobody else writes to the sibling of a live process.
OwnPid == \A p \in Procs : Live(p) =>
              /\ pid[p] \in Pids
              /\ \A q \in Procs : Live(q) /\ pid[q] = pid[p] => q = p

\* The sibling of a process is what the process has made of it.
Sibling(p) ==
    /\ pc[p] \in {"opened", "written", "synced"} => tmp[pid[p]] # None
    /\ pc[p] \in {"written", "synced"} => tmp[pid[p]].content = "template"
    /\ pc[p] = "synced" => tmp[pid[p]].synced

IInv ==
    /\ TypeOK
    /\ OwnPid
    /\ \A p \in Procs : Sibling(p)
    /\ Whole(target) /\ Whole(onDisk.target)
    /\ \A i \in Pids : Private(tmp[i]) /\ Private(onDisk.tmp[i])

LEMMA InitIInv == Init => IInv
<1> SUFFICES ASSUME Init PROVE IInv
  OBVIOUS
<1>1. \A file \in UserFiles \cup {None} : file \in Files \cup {None} /\ Whole(file)
  BY DEF UserFiles, Files, None, Whole
<1>2. target \in Files \cup {None} /\ Whole(target)
  BY <1>1 DEF Init
<1>3. tmp \in [Pids -> Files \cup {None}] /\ \A i \in Pids : Private(tmp[i])
  BY DEF Init, Private
<1>4. TypeOK
  BY <1>2, <1>3 DEF Init, TypeOK, PC
<1>5. \A p \in Procs : pc[p] = "start"
  BY DEF Init
<1>6. OwnPid /\ \A p \in Procs : Sibling(p)
  BY <1>5 DEF OwnPid, Live, Sibling
<1>7. QED
  BY <1>2, <1>3, <1>4, <1>6 DEF Init, IInv

\* What a power loss leaves of a whole or a private file is one.
LEMMA LossOfFile ==
    ASSUME NEW file \in Files \cup {None}
    PROVE  /\ AfterLoss(file) \in Files \cup {None}
           /\ Whole(file) => Whole(AfterLoss(file))
           /\ Private(file) => Private(AfterLoss(file))
BY DEF AfterLoss, Whole, Private, Files, None

\* A step of one invocation that changes its sibling only.
LEMMA SiblingStep ==
    ASSUME IInv, NEW p \in Procs, Live(p), NEW label \in PC, Goto(p, label),
           label \notin Ended \cup {"start"},
           NEW file \in Files, Private(file),
           tmp' = [tmp EXCEPT ![pid[p]] = file],
           UNCHANGED <<force, pid, target, onDisk>>,
           label \in {"written", "synced"} => file.content = "template",
           label = "synced" => file.synced
    PROVE  IInv'
<1>1. pid[p] \in Pids /\ file # None
  BY DEF IInv, OwnPid, Files, None
<1>2. TypeOK'
  BY <1>1 DEF IInv, TypeOK, Goto
<1>3. pc'[p] = label /\ \A q \in Procs : q # p => pc'[q] = pc[q]
  BY DEF IInv, TypeOK, Goto
<1>4. OwnPid'
  BY <1>3 DEF IInv, OwnPid, Live
<1>5. ASSUME NEW q \in Procs PROVE Sibling(q)'
  <2>1. CASE q = p
    BY <1>1, <1>3, <2>1 DEF IInv, TypeOK, Sibling
  <2>2. CASE q # p /\ pc[q] \in {"opened", "written", "synced"}
    <3>1. pid[q] # pid[p] /\ pid[q] \in Pids
      BY <2>2 DEF IInv, OwnPid, Live, Ended
    <3>2. tmp'[pid[q]] = tmp[pid[q]]
      BY <1>1, <3>1 DEF IInv, TypeOK
    <3>3. QED
      BY <1>3, <2>2, <3>2 DEF IInv, Sibling
  <2>3. CASE q # p /\ pc[q] \notin {"opened", "written", "synced"}
    BY <1>3, <2>3 DEF Sibling
  <2>4. QED
    BY <2>1, <2>2, <2>3
<1>6. \A i \in Pids : Private(tmp[i])' /\ Private(onDisk.tmp[i])'
  BY <1>1 DEF IInv, TypeOK, Private
<1>7. QED
  BY <1>2, <1>4, <1>5, <1>6 DEF IInv, Whole

\* An invocation ends or fails: its sibling goes or stays.
LEMMA EndStep ==
    ASSUME IInv, NEW p \in Procs, Live(p), NEW label \in PC, Goto(p, label),
           label \in Ended \cup {"cleanup", "checked"},
           tmp' = tmp \/ tmp' = [tmp EXCEPT ![pid[p]] = None],
           target' \in Files \cup {None}, Whole(target'),
           UNCHANGED <<force, pid, onDisk>>
    PROVE  IInv'
<1>1. pid[p] \in Pids
  BY DEF IInv, OwnPid
<1>2. TypeOK'
  BY <1>1 DEF IInv, TypeOK, Goto
<1>3. pc'[p] = label /\ \A q \in Procs : q # p => pc'[q] = pc[q]
  BY DEF IInv, TypeOK, Goto
<1>4. OwnPid'
  BY <1>3 DEF IInv, OwnPid, Live
<1>5. ASSUME NEW q \in Procs PROVE Sibling(q)'
  <2>1. CASE q = p
    BY <1>3, <2>1 DEF Sibling, Ended
  <2>2. CASE q # p /\ pc[q] \in {"opened", "written", "synced"}
    <3>1. pid[q] # pid[p] /\ pid[q] \in Pids
      BY <2>2 DEF IInv, OwnPid, Live, Ended
    <3>2. tmp'[pid[q]] = tmp[pid[q]]
      BY <1>1, <3>1 DEF IInv, TypeOK
    <3>3. QED
      BY <1>3, <2>2, <3>2 DEF IInv, Sibling
  <2>3. CASE q # p /\ pc[q] \notin {"opened", "written", "synced"}
    BY <1>3, <2>3 DEF Sibling
  <2>4. QED
    BY <2>1, <2>2, <2>3
<1>6. \A i \in Pids : Private(tmp[i])' /\ Private(onDisk.tmp[i])'
  BY <1>1 DEF IInv, TypeOK, Private
<1>7. QED
  BY <1>2, <1>4, <1>5, <1>6 DEF IInv, Whole

\* An invocation starts under an id that no live process has.
LEMMA CheckStep ==
    ASSUME IInv, NEW p \in Procs, Check(p)
    PROVE  IInv'
<1>1. PICK i \in Pids : /\ \A q \in Procs : Live(q) => pid[q] # i
                        /\ pid' = [pid EXCEPT ![p] = i]
  BY DEF Check
<1>2. PICK label \in {"refused", "checked"} : pc' = [pc EXCEPT ![p] = label]
  BY DEF Check, Goto
<1>3. pc'[p] = label /\ pid'[p] = i
  BY <1>1, <1>2 DEF IInv, TypeOK
<1>4. \A q \in Procs : q # p => pc'[q] = pc[q] /\ pid'[q] = pid[q]
  BY <1>1, <1>2 DEF IInv, TypeOK
<1>5. TypeOK'
  BY <1>1, <1>2 DEF Check, IInv, TypeOK, PC, Ended
<1>6. OwnPid'
  BY <1>1, <1>3, <1>4 DEF IInv, OwnPid, Live
<1>7. ASSUME NEW q \in Procs PROVE Sibling(q)'
  <2>1. CASE q = p
    BY <1>2, <1>3, <2>1 DEF Sibling
  <2>2. CASE q # p
    BY <1>4, <2>2 DEF IInv, Sibling, Check
  <2>3. QED
    BY <2>1, <2>2
<1>8. QED
  BY <1>5, <1>6, <1>7 DEF IInv, Whole, Private, Check

\* Neither the user nor the machine touches the files of a live process.
LEMMA CommitStep == ASSUME IInv, Commit PROVE IInv'
<1>1. TypeOK' /\ OwnPid' /\ \A p \in Procs : Sibling(p)'
  BY DEF Commit, IInv, TypeOK, OwnPid, Live, Sibling
<1>2. onDisk'.target = target /\ onDisk'.tmp = tmp
  BY DEF Commit
<1>3. QED
  BY <1>1, <1>2 DEF Commit, IInv, Whole, Private

LEMMA UserEditsStep == ASSUME IInv, UserEdits PROVE IInv'
<1>1. target' \in Files \cup {None} /\ Whole(target')
  BY DEF UserEdits, UserFiles, Files, None, Whole
<1>2. TypeOK' /\ OwnPid' /\ \A p \in Procs : Sibling(p)'
  BY <1>1 DEF UserEdits, IInv, TypeOK, OwnPid, Live, Sibling
<1>3. onDisk'.target = target' /\ onDisk'.tmp = tmp
  BY DEF UserEdits
<1>4. QED
  BY <1>1, <1>2, <1>3 DEF UserEdits, IInv, Whole, Private

\* After a power loss no process is live, and every file is one that the last
\* commit or the directory before the loss held.
LEMMA PowerLossStep == ASSUME IInv, PowerLoss PROVE IInv'
<1>1. \A p \in Procs : pc'[p] \in Ended \cup {"start"}
  BY DEF PowerLoss, IInv, TypeOK, Live, PC, Ended
<1>2. pc' \in [Procs -> PC]
  BY <1>1 DEF PowerLoss, IInv, TypeOK, PC, Ended
<1>3. PICK dir \in {onDisk, [target |-> target, tmp |-> tmp]} :
           /\ target' = AfterLoss(dir.target)
           /\ tmp' = [i \in Pids |-> AfterLoss(dir.tmp[i])]
  BY DEF PowerLoss
<1>4. /\ dir.target \in Files \cup {None} /\ Whole(dir.target)
      /\ \A i \in Pids : dir.tmp[i] \in Files \cup {None} /\ Private(dir.tmp[i])
  BY DEF IInv, TypeOK
<1>5. target' \in Files \cup {None} /\ Whole(target')
  BY <1>3, <1>4, LossOfFile
<1>6. tmp' \in [Pids -> Files \cup {None}] /\ \A i \in Pids : Private(tmp'[i])
  BY <1>3, <1>4, LossOfFile
<1>7. onDisk' = [target |-> target', tmp |-> tmp']
  BY DEF PowerLoss
<1>8. TypeOK'
  BY <1>2, <1>5, <1>6, <1>7 DEF PowerLoss, IInv, TypeOK
<1>9. OwnPid' /\ \A p \in Procs : Sibling(p)'
  BY <1>1 DEF OwnPid, Live, Sibling, Ended
<1>10. QED
  BY <1>5, <1>6, <1>7, <1>8, <1>9 DEF IInv, Whole, Private

-----------------------------------------------------------------------------
\* What each step writes to the sibling of its invocation.
LEMMA OpenTmpStep == ASSUME IInv, NEW p \in Procs, OpenTmp(p) PROVE IInv'
<1> DEFINE old == tmp[pid[p]]
           file == [content |-> "partial", synced |-> FALSE,
                    private |-> IF old = None THEN TRUE ELSE old.private]
<1>1. Live(p)
  BY DEF OpenTmp, Live, Ended
<1>2. pid[p] \in Pids
  BY <1>1 DEF IInv, OwnPid
<1>3. old \in Files \cup {None} /\ Private(old)
  BY <1>2 DEF IInv, TypeOK
<1>4. file.private
  BY <1>3 DEF Private
<1>5. file \in Files /\ Private(file)
  BY <1>4 DEF Files, Private
<1>6. tmp' = [tmp EXCEPT ![pid[p]] = file] /\ Goto(p, "opened")
  BY DEF OpenTmp
<1>7. UNCHANGED <<force, pid, target, onDisk>>
  BY DEF OpenTmp
<1>8. "opened" \in PC /\ "opened" \notin Ended \cup {"start"}
  BY DEF PC, Ended
<1> HIDE DEF file, old
<1>9. QED
  BY <1>1, <1>5, <1>6, <1>7, <1>8, SiblingStep

LEMMA WriteTmpStep == ASSUME IInv, NEW p \in Procs, WriteTmp(p) PROVE IInv'
<1> DEFINE old == tmp[pid[p]]
           file == [old EXCEPT !.content = "template"]
<1>1. Live(p)
  BY DEF WriteTmp, Live, Ended
<1>2. pid[p] \in Pids
  BY <1>1 DEF IInv, OwnPid
<1>3. old \in Files /\ old.private
  <2>1. old \in Files \cup {None} /\ old # None /\ Private(old)
    BY <1>2 DEF IInv, TypeOK, Sibling, WriteTmp
  <2>2. QED
    BY <2>1 DEF Private
<1>4. file \in Files /\ file.private /\ file.content = "template"
  BY <1>3 DEF Files
<1>5. tmp' = [tmp EXCEPT ![pid[p]] = file] /\ Goto(p, "written")
  BY DEF WriteTmp
<1>6. UNCHANGED <<force, pid, target, onDisk>>
  BY DEF WriteTmp
<1>7. "written" \in PC /\ "written" \notin Ended \cup {"start"}
  BY DEF PC, Ended
<1>8. Private(file)
  BY <1>4 DEF Private
<1> HIDE DEF file, old
<1>9. QED
  BY <1>1, <1>4, <1>5, <1>6, <1>7, <1>8, SiblingStep

LEMMA SyncTmpStep == ASSUME IInv, NEW p \in Procs, SyncTmp(p) PROVE IInv'
<1> DEFINE old == tmp[pid[p]]
           file == [old EXCEPT !.synced = TRUE]
<1>1. Live(p)
  BY DEF SyncTmp, Live, Ended
<1>2. pid[p] \in Pids
  BY <1>1 DEF IInv, OwnPid
<1>3. old \in Files /\ old.private /\ old.content = "template"
  <2>1. old \in Files \cup {None} /\ old.content = "template" /\ Private(old)
    BY <1>2 DEF IInv, TypeOK, Sibling, SyncTmp
  <2>2. QED
    BY <2>1 DEF Private, None
<1>4. file \in Files /\ file.private /\ file.content = "template" /\ file.synced
  BY <1>3 DEF Files
<1>5. tmp' = [tmp EXCEPT ![pid[p]] = file] /\ Goto(p, "synced")
  BY DEF SyncTmp
<1>6. UNCHANGED <<force, pid, target, onDisk>>
  BY DEF SyncTmp
<1>7. "synced" \in PC /\ "synced" \notin Ended \cup {"start"}
  BY DEF PC, Ended
<1>8. Private(file)
  BY <1>4 DEF Private
<1> HIDE DEF file, old
<1>9. QED
  BY <1>1, <1>4, <1>5, <1>6, <1>7, <1>8, SiblingStep

\* What is renamed over the config file is the template, whole and private.
LEMMA Renamed ==
    ASSUME IInv, NEW p \in Procs, Rename(p)
    PROVE  /\ target' \in Files /\ target'.private
           /\ target'.content = "template" /\ target'.synced
<1>1. pid[p] \in Pids
  BY DEF IInv, OwnPid, Live, Rename, Ended
<1>2. /\ target' \in Files \cup {None} /\ target' # None /\ Private(target')
      /\ target'.content = "template" /\ target'.synced
  BY <1>1 DEF IInv, TypeOK, Sibling, Rename
<1>3. QED
  BY <1>2 DEF Private

LEMMA RenameStep == ASSUME IInv, NEW p \in Procs, Rename(p) PROVE IInv'
<1>1. Live(p) /\ "ok" \in PC /\ "ok" \in Ended \cup {"cleanup", "checked"}
  BY DEF Rename, Live, Ended, PC
<1>2. target' \in Files \cup {None} /\ Whole(target')
  BY Renamed DEF Whole
<1>3. /\ Goto(p, "ok") /\ UNCHANGED <<force, pid, onDisk>>
      /\ tmp' = [tmp EXCEPT ![pid[p]] = None]
  BY DEF Rename
<1>4. QED
  BY <1>1, <1>2, <1>3, EndStep

LEMMA LeaveStep ==
    ASSUME IInv, NEW p \in Procs,
           WriteFails(p) \/ RenameFails(p) \/ RemoveTmp(p) \/ Kill(p)
    PROVE  IInv'
<1>1. Live(p)
  BY DEF WriteFails, RenameFails, RemoveTmp, Kill, Live, Ended
<1>2. PICK label \in {"failed", "cleanup", "dead"} : Goto(p, label)
  BY DEF WriteFails, RenameFails, RemoveTmp, Kill
<1>3. label \in PC /\ label \in Ended \cup {"cleanup", "checked"}
  BY DEF PC, Ended
<1>4. UNCHANGED <<force, pid, target, onDisk>>
  BY DEF WriteFails, RenameFails, RemoveTmp, Kill
<1>5. tmp' = tmp \/ tmp' = [tmp EXCEPT ![pid[p]] = None]
  BY DEF WriteFails, RenameFails, RemoveTmp, Kill
<1>6. target' \in Files \cup {None} /\ Whole(target')
  BY <1>4 DEF IInv, TypeOK
<1>7. QED
  BY <1>1, <1>2, <1>3, <1>4, <1>5, <1>6, EndStep

LEMMA NextIInv == IInv /\ [Next]_vars => IInv'
<1> SUFFICES ASSUME IInv, [Next]_vars PROVE IInv'
  OBVIOUS
<1>1. ASSUME NEW p \in Procs, Step(p) PROVE IInv'
  BY <1>1, CheckStep, OpenTmpStep, WriteTmpStep, SyncTmpStep, RenameStep, LeaveStep
     DEF Step
<1>2. ASSUME NEW p \in Procs, Kill(p) PROVE IInv'
  BY <1>2, LeaveStep
<1>3. CASE UNCHANGED vars
  BY <1>3 DEF vars, IInv, TypeOK, OwnPid, Live, Sibling, Whole, Private
<1>4. QED
  BY <1>1, <1>2, <1>3, CommitStep, PowerLossStep, UserEditsStep DEF Next

LEMMA Inductive == Spec => []IInv
BY InitIInv, NextIInv, PTL DEF Spec

-----------------------------------------------------------------------------
\* The model of `config template` keeps its types.
THEOREM TypeCorrect == Spec => []TypeOK
<1>1. IInv => TypeOK
  BY DEF IInv
<1>2. QED
  BY <1>1, Inductive, PTL

\* The rename of a synced sibling: whoever reads the config file, whatever was
\* killed or lost before, reads a whole file.
THEOREM TargetWholeHolds == Spec => []TargetWhole
<1>1. IInv => TargetWhole
  BY DEF IInv, Whole, TargetWhole
<1>2. QED
  BY <1>1, Inductive, PTL

\* The mode 0600 of write_file_secure: a private config file is replaced by a
\* private one, also when the sibling is what an earlier process left behind.
THEOREM NeverWidenedHolds == Spec => NeverWidened
<1> DEFINE Kept == \A p \in Procs :
                (pc[p] # "ok" /\ pc'[p] = "ok" /\ target # None)
                    => (target.private => target'.private)
<1>1. ASSUME IInv, [Next]_vars, NEW p \in Procs, pc[p] # "ok", pc'[p] = "ok"
      PROVE  target'.private
  <2>1. ASSUME NEW q \in Procs, NEW label, pc' = [pc EXCEPT ![q] = label]
        PROVE  q = p /\ label = "ok"
    BY <1>1, <2>1 DEF IInv, TypeOK
  <2>2. Rename(p)
    <3>1. ASSUME NEW q \in Procs, Step(q) PROVE q = p /\ Rename(q)
      BY <2>1, <3>1 DEF Step, Goto, Check, OpenTmp, WriteTmp, SyncTmp, WriteFails,
                        Rename, RenameFails, RemoveTmp
    <3>2. ASSUME NEW q \in Procs, Kill(q) PROVE FALSE
      <4>1. pc' = [pc EXCEPT ![q] = "dead"]
        BY <3>2 DEF Kill, Goto
      <4>2. pc'[p] \in {pc[p], "dead"}
        BY <1>1, <4>1 DEF IInv, TypeOK
      <4>3. QED
        BY <1>1, <4>2
    <3>3. ~ PowerLoss
      BY <1>1 DEF PowerLoss
    <3>4. ~ Commit /\ ~ UserEdits /\ ~ UNCHANGED vars
      BY <1>1 DEF Commit, UserEdits, vars
    <3>5. QED
      BY <1>1, <3>1, <3>2, <3>3, <3>4 DEF Next
  <2>3. QED
    BY <1>1, <2>2, Renamed
<1>2. IInv /\ [Next]_vars => [Kept]_vars
  BY <1>1
<1>3. QED
  BY <1>2, Inductive, PTL DEF Spec, NeverWidened
=============================================================================

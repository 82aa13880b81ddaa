--------------------------- MODULE ConfigTemplate ---------------------------
(***************************************************************************)
(* `ferro-protect config template` (commands/config.rs): several           *)
(* invocations, the user and the machine's failures around one config      *)
(* file.                                                                   *)
(*                                                                         *)
(* An invocation checks whether the file exists, writes the template to a  *)
(* temporary sibling named after its process id, syncs it and renames it   *)
(* over the config path.  It may be killed between any two system calls,   *)
(* and the machine may lose power.  A process id is unique among the       *)
(* processes that are alive and is used again after that.                  *)
(***************************************************************************)
EXTENDS FiniteSets

CONSTANTS Procs,     \* invocations of `config template`
          Pids,      \* process ids
          Faulty     \* the invocations whose system calls may fail

ASSUME FaultyAssumption == Faulty \subseteq Procs

VARIABLES
    pc,      \* what each invocation has done
    force,   \* --force
    pid,     \* its process id
    target,  \* the file at the config path
    tmp,     \* the temporary sibling of each process id
    onDisk   \* the directory as it was last written to the disk

vars == <<pc, force, pid, target, tmp, onDisk>>

\* A file: who wrote it and whether it is complete, whether only its owner may
\* read it, and whether its data would survive a power loss.
Files == [content : {"user", "template", "partial"}, private : BOOLEAN, synced : BOOLEAN]
None  == [content |-> "none"]
NoPid == "none"

Ended == {"ok", "refused", "failed", "dead"}
PC == {"start", "checked", "opened", "written", "synced", "cleanup"} \cup Ended

Live(p) == pc[p] \notin Ended \cup {"start"}

TypeOK ==
    /\ pc \in [Procs -> PC]
    /\ force \in [Procs -> BOOLEAN]
    /\ pid \in [Procs -> Pids \cup {NoPid}]
    /\ target \in Files \cup {None}
    /\ tmp \in [Pids -> Files \cup {None}]
    /\ onDisk \in [target : Files \cup {None}, tmp : [Pids -> Files \cup {None}]]

\* What the user keeps at the config path.
UserFiles == [content : {"user"}, private : BOOLEAN, synced : {TRUE}]

Init ==
    /\ pc = [p \in Procs |-> "start"]
    /\ force \in [Procs -> BOOLEAN]
    /\ pid = [p \in Procs |-> NoPid]
    /\ target \in UserFiles \cup {None}
    /\ tmp = [i \in Pids |-> None]
    /\ onDisk = [target |-> target, tmp |-> tmp]

-----------------------------------------------------------------------------
Goto(p, label) == pc' = [pc EXCEPT ![p] = label]

\* The process starts, and `target_path.exists() && !force`.  The directory is
\* created if need be.
Check(p) ==
    /\ pc[p] = "start"
    /\ \E i \in Pids :
           /\ \A q \in Procs : Live(q) => pid[q] # i
           /\ pid' = [pid EXCEPT ![p] = i]
    /\ Goto(p, IF target # None /\ ~ force[p] THEN "refused" ELSE "checked")
    /\ UNCHANGED <<force, target, tmp, onDisk>>

\* Mutant of OpenTmp: create_new(true) instead of create and truncate.
OpenTmpNew(p) ==
    /\ pc[p] = "checked"
    /\ tmp' = IF tmp[pid[p]] = None
              THEN [tmp EXCEPT ![pid[p]] =
                       [content |-> "partial", private |-> TRUE, synced |-> FALSE]]
              ELSE tmp
    /\ Goto(p, IF tmp[pid[p]] = None THEN "opened" ELSE "failed")
    /\ UNCHANGED <<force, pid, target, onDisk>>

\* Mutant of OpenTmp: the mode is left to the umask.
OpenTmpLax(p) ==
    /\ pc[p] = "checked"
    /\ tmp' = [tmp EXCEPT ![pid[p]] =
                  [content |-> "partial", private |-> FALSE, synced |-> FALSE]]
    /\ Goto(p, "opened")
    /\ UNCHANGED <<force, pid, target, onDisk>>

\* Mutant of OpenTmp: append instead of truncate.
OpenTmpAppend(p) ==
    /\ pc[p] = "checked"
    /\ tmp' = [tmp EXCEPT ![pid[p]] =
                  [content |-> IF tmp[pid[p]] = None THEN "partial" ELSE "appended",
                   private |-> TRUE, synced |-> FALSE]]
    /\ Goto(p, "opened")
    /\ UNCHANGED <<force, pid, target, onDisk>>

\* create, truncate, mode 0600.  A sibling that an earlier process of the same
\* id left behind keeps its mode.
OpenTmp(p) ==
    /\ pc[p] = "checked"
    /\ LET old == tmp[pid[p]]
       IN  tmp' = [tmp EXCEPT ![pid[p]] =
                      [content |-> "partial", synced |-> FALSE,
                       private |-> IF old = None THEN TRUE ELSE old.private]]
    /\ Goto(p, "opened")
    /\ UNCHANGED <<force, pid, target, onDisk>>

WriteTmp(p) ==
    /\ pc[p] = "opened"
    /\ tmp' = [tmp EXCEPT ![pid[p]].content = "template"]
    /\ Goto(p, "written")
    /\ UNCHANGED <<force, pid, target, onDisk>>

\* Mutant of SyncTmp: no sync_all.
SyncTmpSkipped(p) ==
    /\ pc[p] = "written"
    /\ Goto(p, "synced")
    /\ UNCHANGED <<force, pid, target, tmp, onDisk>>

SyncTmp(p) ==
    /\ pc[p] = "written"
    /\ tmp' = [tmp EXCEPT ![pid[p]].synced = TRUE]
    /\ Goto(p, "synced")
    /\ UNCHANGED <<force, pid, target, onDisk>>

\* create_dir_all, open, write_all or sync_all fails: `?` returns, and what has
\* been written of the sibling stays.
WriteFails(p) ==
    /\ pc[p] \in {"checked", "opened", "written"}
    /\ p \in Faulty
    /\ Goto(p, "failed")
    /\ UNCHANGED <<force, pid, target, tmp, onDisk>>

\* The command succeeds.
Rename(p) ==
    /\ pc[p] = "synced"
    /\ target' = tmp[pid[p]]
    /\ tmp' = [tmp EXCEPT ![pid[p]] = None]
    /\ Goto(p, "ok")
    /\ UNCHANGED <<force, pid, onDisk>>

\* The path is a directory, say.
RenameFails(p) ==
    /\ pc[p] = "synced"
    /\ p \in Faulty
    /\ Goto(p, "cleanup")
    /\ UNCHANGED <<force, pid, target, tmp, onDisk>>

\* `let _ = fs::remove_file(&tmp)`
RemoveTmp(p) ==
    /\ pc[p] = "cleanup"
    /\ \/ tmp' = [tmp EXCEPT ![pid[p]] = None]
       \/ p \in Faulty /\ UNCHANGED tmp
    /\ Goto(p, "failed")
    /\ UNCHANGED <<force, pid, target, onDisk>>

Step(p) ==
    \/ Check(p) \/ OpenTmp(p) \/ WriteTmp(p) \/ SyncTmp(p) \/ WriteFails(p)
    \/ Rename(p) \/ RenameFails(p) \/ RemoveTmp(p)

-----------------------------------------------------------------------------
\* The process is killed.
Kill(p) ==
    /\ Live(p)
    /\ Goto(p, "dead")
    /\ UNCHANGED <<force, pid, target, tmp, onDisk>>

\* The file system writes the directory out, when it likes to.
Commit ==
    /\ onDisk' = [target |-> target, tmp |-> tmp]
    /\ UNCHANGED <<pc, force, pid, target, tmp>>

\* What is left of a file whose data had not been written out.
AfterLoss(file) ==
    IF file = None \/ file.synced THEN file
    ELSE [file EXCEPT !.content = "partial", !.synced = TRUE]

\* Every process is gone, renames since the last commit may be undone, and
\* data that was not synced is lost.
PowerLoss ==
    /\ pc' = [p \in Procs |-> IF Live(p) THEN "dead" ELSE pc[p]]
    /\ \E dir \in {onDisk, [target |-> target, tmp |-> tmp]} :
           /\ target' = AfterLoss(dir.target)
           /\ tmp' = [i \in Pids |-> AfterLoss(dir.tmp[i])]
    /\ onDisk' = [target |-> target', tmp |-> tmp']
    /\ UNCHANGED <<force, pid>>

\* The user saves or removes the config file; an editor replaces it as a whole
\* and syncs.
UserEdits ==
    /\ target' \in UserFiles \cup {None}
    /\ onDisk' = [target |-> target', tmp |-> tmp]
    /\ UNCHANGED <<pc, force, pid, tmp>>

Next ==
    \/ \E p \in Procs : Step(p) \/ Kill(p)
    \/ Commit \/ PowerLoss \/ UserEdits

Spec == Init /\ [][Next]_vars

\* A process that is not killed goes on.
FairSpec == Spec /\ \A p \in Procs : WF_vars(Step(p))

-----------------------------------------------------------------------------
\* Whoever reads the config file, at any time and after any crash or power
\* loss, reads a whole file: the user's or the template.
TargetWhole == target = None \/ target.content # "partial"

\* An invocation never makes a config file readable to others that was not.
NeverWidened ==
    [][\A p \in Procs :
          (pc[p] # "ok" /\ pc'[p] = "ok" /\ target # None)
              => (target.private => target'.private)]_vars

\* If its system calls succeed, an invocation with --force ends with the
\* template installed, unless it is killed: neither an existing file nor what
\* an earlier process of the same id left behind is in its way.
ForceInstalls ==
    \A p \in Procs \ Faulty : (force[p] /\ pc[p] = "checked") ~> pc[p] \in {"ok", "dead"}

\* Without --force no config file is ever replaced.
NoClobber ==
    [][\A p \in Procs :
          (pc[p] # "ok" /\ pc'[p] = "ok" /\ ~ force[p]) => target = None]_vars
=============================================================================

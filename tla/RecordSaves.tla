------------------------------- MODULE RecordSaves -------------------------------
(***************************************************************************)
(* The job server when a save fails: the state directory is full, or will  *)
(* not be written for some other reason, while jobs are accepted, run and  *)
(* end (server/store.py save, server/runner.py) and while a restart adopts *)
(* what the last process left.                                             *)
(*                                                                         *)
(* The saves of a run and what each failure leads to are all here; what a  *)
(* run does between them, cancels and events are JobServer's business.     *)
(***************************************************************************)
EXTENDS Naturals, FiniteSets

CONSTANTS
  Jobs,
  Slots,        \* max_concurrent
  MaxFailures,  \* bound on saves that fail
  MaxCrashes,   \* bound on crashes of the server
  Env           \* {"log"}: the run's log is written to a file, WMRM_RUN_LOG

(* "staging" stands for the states before "running", "over" for those a    *)
(* job ends in.                                                            *)
Live == {"staging", "running", "uploading"}

VARIABLES
  up,        \* the server: "serving", "down", "adopting"
  disk,      \* disk[j]: the state in <state_dir>/jobs/<j>.json
  pc,        \* pc[j]: where the coroutine of j is, "none" if there is none
  child,     \* child[j]: "none", "alive", "gone"
  failures, crashes

vars == <<up, disk, pc, child, failures, crashes>>

Driving == {"staging", "ready", "spawned", "watching", "uploading", "ending",
            "failing"}

TypeOK ==
  /\ up \in {"serving", "down", "adopting"}
  /\ disk \in [Jobs -> Live \cup {"absent", "over"}]
  /\ pc \in [Jobs -> Driving \cup {"none", "noting"}]
  /\ child \in [Jobs -> {"none", "alive", "gone"}]
  /\ failures \in 0 .. MaxFailures
  /\ crashes \in 0 .. MaxCrashes

Init ==
  /\ up = "serving"
  /\ disk = [j \in Jobs |-> "absent"]
  /\ pc = [j \in Jobs |-> "none"]
  /\ child = [j \in Jobs |-> "none"]
  /\ failures = 0
  /\ crashes = 0
-----------------------------------------------------------------------------
Failure == failures < MaxFailures /\ failures' = failures + 1

(* JobRecord.save: the new document replaces the old one, or the old one   *)
(* stays and the caller gets an exception.                                 *)
Save(j, state, next, otherwise) ==
  \/ /\ disk' = [disk EXCEPT ![j] = state]
     /\ pc' = [pc EXCEPT ![j] = next]
     /\ UNCHANGED failures
  \/ /\ Failure
     /\ UNCHANGED disk
     /\ pc' = [pc EXCEPT ![j] = otherwise]

Busy == Cardinality({j \in Jobs : disk[j] \in Live}) >= Slots

(* POST /jobs: the coroutine is started after the first save.              *)
Submit(j) ==
  /\ up = "serving"
  /\ disk[j] = "absent"
  /\ ~Busy
  /\ Save(j, "staging", "staging", "none")
  /\ UNCHANGED <<up, child, crashes>>

(* _stage_input: its saves, and whatever else may fail.                    *)
Stage(j) ==
  /\ pc[j] = "staging"
  /\ \/ Save(j, "staging", "ready", "failing")
     \/ pc' = [pc EXCEPT ![j] = "failing"] /\ UNCHANGED <<disk, failures>>
  /\ UNCHANGED <<up, child, crashes>>

(* The planned key, then the state.                                        *)
Begin(j) ==
  /\ pc[j] = "ready"
  /\ Save(j, "running", "spawned", "failing")
  /\ UNCHANGED <<up, child, crashes>>

(* _spawn: the child is at work before its pid is saved.                   *)
Spawn(j) ==
  /\ pc[j] = "spawned"
  /\ child' = [child EXCEPT ![j] = "alive"]
  /\ Save(j, disk[j], "watching", "failing")
  /\ UNCHANGED <<up, crashes>>

(* pump: nobody reads the child's pipe any more.                           *)
PumpFails(j) ==
  /\ "log" \in Env
  /\ pc[j] = "watching"
  /\ Failure
  /\ pc' = [pc EXCEPT ![j] = "failing"]
  /\ UNCHANGED <<up, disk, child, crashes>>

(* The heartbeat saves progress and swallows what goes wrong.              *)
ChildEnds(j) ==
  /\ child[j] = "alive"
  /\ child' = [child EXCEPT ![j] = "gone"]
  /\ UNCHANGED <<up, disk, pc, failures, crashes>>

(* A success is uploaded; a failure of its save is one of the upload.      *)
Reap(j) ==
  /\ pc[j] = "watching"
  /\ child[j] = "gone"
  /\ \/ Save(j, "uploading", "ending", "ending")
     \/ pc' = [pc EXCEPT ![j] = "ending"] /\ UNCHANGED <<disk, failures>>
  /\ UNCHANGED <<up, child, crashes>>

Conclude(j) ==
  /\ pc[j] = "ending"
  /\ Save(j, "over", "noting", "failing")
  /\ UNCHANGED <<up, child, crashes>>

(* _fail; what it raises nobody catches, and the coroutine is gone.        *)
Fail(j) ==
  /\ pc[j] = "failing"
  /\ Save(j, "over", "none", "none")
  /\ UNCHANGED <<up, child, crashes>>

(* The last save notes what was reclaimed; _reclaim swallows its failure.  *)
NoteReclaim(j) ==
  /\ pc[j] = "noting"
  /\ Save(j, "over", "none", "none")
  /\ UNCHANGED <<up, child, crashes>>
-----------------------------------------------------------------------------
(* The pod goes down with its children. *)
Crash ==
  /\ crashes < MaxCrashes
  /\ crashes' = crashes + 1
  /\ up' = "down"
  /\ pc' = [j \in Jobs |-> "none"]
  /\ child' = [j \in Jobs |-> IF child[j] = "alive" THEN "gone" ELSE child[j]]
  /\ UNCHANGED <<disk, failures>>

Restart ==
  /\ up = "down"
  /\ up' = "adopting"
  /\ UNCHANGED <<disk, pc, child, failures, crashes>>

Orphaned(state) == state \in Live

(* adopt_orphans, one save per live record; a save that fails takes the    *)
(* startup down with it.                                                   *)
Adopt(j) ==
  /\ up = "adopting"
  /\ Orphaned(disk[j])
  /\ Save(j, "over", "none", "none")
  /\ up' = IF failures' = failures THEN up ELSE "down"
  /\ UNCHANGED <<child, crashes>>

Adopted ==
  /\ up = "adopting"
  /\ \A j \in Jobs : ~Orphaned(disk[j])
  /\ up' = "serving"
  /\ UNCHANGED <<disk, pc, child, failures, crashes>>
-----------------------------------------------------------------------------
RunStep(j) ==
  \/ Stage(j) \/ Begin(j) \/ Spawn(j) \/ Reap(j)
  \/ Conclude(j) \/ Fail(j) \/ NoteReclaim(j)

BootStep == Restart \/ Adopted \/ \E j \in Jobs : Adopt(j)

Next ==
  \/ \E j \in Jobs : Submit(j) \/ RunStep(j) \/ ChildEnds(j) \/ PumpFails(j)
  \/ Crash \/ BootStep

Spec == Init /\ [][Next]_vars

(* Coroutines go on, children end, and a server that is down is started.   *)
FairSpec ==
  /\ Spec
  /\ \A j \in Jobs : WF_vars(RunStep(j)) /\ WF_vars(ChildEnds(j))
  /\ WF_vars(BootStep)
-----------------------------------------------------------------------------
(* Properties.                                                             *)

(* Liveness, store.py: "a job that silently stays `running` forever holds  *)
(* a slot on this machine and is never retried": no record stays live.     *)
(* Not so: what _fail raises nobody catches.                               *)
SlotsComeBack == \A j \in Jobs : disk[j] \in Live ~> disk[j] \notin Live

(* README: "The pod takes one job at a time": no more children than slots. *)
(* Not so either: a child whose pid could not be saved is in no map.       *)
OneAtATime == Cardinality({j \in Jobs : child[j] = "alive"}) <= Slots
=============================================================================

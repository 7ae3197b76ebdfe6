------------------------------- MODULE JobLife -------------------------------
(***************************************************************************)
(* The life of a job as its record and the events tell it: what the server *)
(* promises the control plane, with no coroutine, copy, child or crash in  *)
(* it.  The states are those of server/store.py.                           *)
(***************************************************************************)
CONSTANT Jobs

VARIABLES
  state,    \* state[j]: the state on record
  cancel,   \* cancel[j]: whether a cancellation is on record
  heard     \* heard[j]: the state the control plane heard last

(* What a moving job may do next: it goes from phase to phase and never    *)
(* back to `preparing`, whatever was skipped or cancelled on the way.  A   *)
(* cancellation does not stop it by itself: a job that is `canceling` may  *)
(* still be seen to download, run and upload.                              *)
Phases == {"preparing", "downloading", "detecting", "running", "uploading"}

After(phase) ==
  CASE phase = "preparing"   -> {"downloading", "running"}
    [] phase = "downloading" -> {"running"}
    [] phase = "running"     -> {"uploading"}
    [] phase = "canceling"   -> {"downloading", "running", "uploading"}
    [] OTHER                 -> {}

Moving == Phases \cup {"canceling"}

Over == {"succeeded", "failed", "needs_review", "canceled", "interrupted"}

LifeInit ==
  /\ state = [j \in Jobs |-> "absent"]
  /\ cancel = [j \in Jobs |-> FALSE]
  /\ heard = [j \in Jobs |-> "absent"]

Becomes(j, s) ==
  /\ state' = [state EXCEPT ![j] = s]
  /\ UNCHANGED <<cancel, heard>>

Submitted(j) == state[j] = "absent" /\ Becomes(j, "preparing")

Moves(j) == \E phase \in After(state[j]) : Becomes(j, phase)

(* Only a cancellation that is on record is shown ...                      *)
Canceling(j) == state[j] \in Phases /\ cancel[j] /\ Becomes(j, "canceling")

(* ... and only such a job ends as canceled; one that was never run has no *)
(* result to show.                                                         *)
Ends(j) ==
  /\ state[j] \in Moving
  /\ \E end \in Over :
       /\ end = "canceled" => cancel[j]
       /\ end \in {"succeeded", "needs_review"}
            => state[j] \in {"running", "uploading", "canceling"}
       /\ Becomes(j, end)

Cancels(j) ==
  /\ state[j] # "absent"
  /\ cancel' = [cancel EXCEPT ![j] = TRUE]
  /\ UNCHANGED <<state, heard>>

(* Of a job that is over a sweep may write back a copy of the record it    *)
(* read before it was cancelled, and the record is written once more.      *)
Rewritten(j) ==
  /\ state[j] \in Over
  /\ cancel' \in {[cancel EXCEPT ![j] = c] : c \in BOOLEAN}
  /\ UNCHANGED <<state, heard>>

(* What is told is what is on record at that moment.                       *)
Told(j) ==
  /\ state[j] # "absent"
  /\ heard' = [heard EXCEPT ![j] = state[j]]
  /\ UNCHANGED <<state, cancel>>

LifeNext == \E j \in Jobs :
  \/ Submitted(j) \/ Moves(j) \/ Canceling(j) \/ Ends(j)
  \/ Cancels(j) \/ Rewritten(j) \/ Told(j)

LifeSpec == LifeInit /\ [][LifeNext]_<<state, cancel, heard>>
=============================================================================

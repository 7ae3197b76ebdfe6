------------------------------ MODULE StageInput ------------------------------
(***************************************************************************)
(* _stage_input: the source of a job comes from the bucket (pull_r2) or    *)
(* from a presigned URL (download); a source on the volume is used where   *)
(* it is.  The job says which, once and for all: what a crash leaves of    *)
(* one way is never taken up by the other.                                 *)
(***************************************************************************)
EXTENDS R2Download, UrlDownload

CONSTANT Kinds   \* the values spec.input.kind may have

VARIABLE kind

ASSUME StageAssumption == Kinds \subseteq {"r2", "url"}

stage == <<kind, vars, urlVars>>

StageInit == kind \in Kinds /\ Init /\ UrlInit

R2Only == kind = "r2" /\ UNCHANGED <<kind, urlVars>>

UrlOnly == kind = "url" /\ UNCHANGED <<kind, vars>>

StageNext ==
  \/ R2Only /\ Next     \* pull_r2
  \/ UrlOnly /\ UrlNext  \* download

StageSpec == StageInit /\ [][StageNext]_stage

(* A call takes its steps, and the server answers it.  Nobody is assumed   *)
(* to make another one: POST /jobs answers a job it knows without running  *)
(* it again.                                                               *)
R2Fairness == WF_stage(R2Only /\ RunStep)

UrlFairness ==
  /\ WF_stage(UrlOnly /\ AlreadyWhole)
  /\ WF_stage(UrlOnly /\ Answered)
  /\ WF_stage(UrlOnly /\ Write)
  /\ WF_stage(UrlOnly /\ StreamEnds)
  /\ WF_stage(UrlOnly /\ Publish)

FairSpec == StageSpec /\ R2Fairness /\ UrlFairness
-----------------------------------------------------------------------------
(* A call that is under way and has not given up.                          *)
Calling ==
  IF kind = "r2" THEN pc # "idle" /\ failed = {} /\ ending = "no"
                 ELSE urlPc \in {"asking", "streaming", "replacing"}

Failures == IF kind = "r2" THEN faults ELSE urlFaults

There == IF kind = "r2" THEN dest # NoFile ELSE urlDest # NoFile

(* Liveness: a call that has not given up brings the input, whatever       *)
(* earlier attempts, calls and kills left on disk, unless yet another      *)
(* request, connection, process or disk fails (tests/test_r2.py); over one *)
(* connection when the dispatcher sent its size.                           *)
Staged == \A n \in 0 .. MaxFaults :
  (Calling /\ Failures = n) ~> (There \/ Failures # n)
=============================================================================

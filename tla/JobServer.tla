------------------------------ MODULE JobServer ------------------------------
(***************************************************************************)
(* The job server of a pod: POST /jobs, POST /jobs/{id}/cancel and         *)
(* DELETE /jobs/{id} (server/app.py), the coroutine that drives one job    *)
(* (server/runner.py), the records it keeps on disk (server/store.py), the *)
(* terminal events it posts (server/hooks.py) and the space it gives back  *)
(* (server/reclaim.py).                                                    *)
(*                                                                         *)
(* The server is one asyncio event loop, so the code between two awaits is *)
(* one step.  Three things interleave with those steps: the child          *)
(* processes, the worker threads (transfers, reclaim, sweep) and a crash   *)
(* of the server, which may also fall between two writes of one handler.   *)
(*                                                                         *)
(* A job id may be submitted more than once; each accepted or pending      *)
(* submission is a run, an element of Runs, which has its own coroutine,   *)
(* its own in-memory record and its own child.                             *)
(***************************************************************************)
EXTENDS Naturals, FiniteSets

CONSTANTS Jobs,           \* job ids
          Runs,           \* submissions (a bound: each is used once)
          NoJob, NoRun,   \* absent entries
          MaxConcurrent,  \* Config.max_concurrent
          MaxCrashes,     \* bound on server crashes
          Reports,        \* what report.json may say, see ReportKinds
          Env             \* what the environment may do, see Switches

(* "crash": the server process may die.  "survivor": its children outlive  *)
(* it.  "loss": a terminal event may not arrive.  "raise": posting one may *)
(* raise something Notifier.send does not catch.  "lowdisk": a submit may  *)
(* find the volume below its floor.  "cancel": POST /jobs/{id}/cancel.     *)
(* "purge": cancels may ask for a purge.  "delete": DELETE /jobs/{id}.     *)
(* "sweep": the reclaim sweep runs.  "vanish": a finished output may be    *)
(* gone from the volume when the server looks for it.                      *)
Switches == {"crash", "survivor", "loss", "raise", "lowdisk", "cancel",
             "purge", "delete", "sweep", "vanish"}

(* "short" is an `ok` report whose coverage verdict is negative, "error"   *)
(* stands for every outcome that maps to `failed` (encode_error, oom ...). *)
ReportKinds == {"ok", "short", "verify_failed", "interrupted", "internal",
                "error"}

ASSUME ServerAssumption ==
  /\ NoJob \notin Jobs
  /\ NoRun \notin Runs
  /\ MaxConcurrent \in Nat \ {0}
  /\ MaxCrashes \in Nat
  /\ Env \subseteq Switches
  /\ Reports \subseteq ReportKinds

LiveStates == {"preparing", "downloading", "detecting", "running", "uploading"}
TerminalStates == {"succeeded", "failed", "needs_review", "canceled",
                   "interrupted"}

Outcomes == {"ok", "coverage_under", "verify_failed", "interrupted",
             "canceled", "internal", "error", "input_error", "upload_failed"}

Record == [state: LiveStates \cup TerminalStates \cup {"absent", "canceling"},
           cancelRequested: BOOLEAN,
           outputKey: BOOLEAN]       \* whether a key is recorded

Absent == [state |-> "absent", cancelRequested |-> FALSE, outputKey |-> FALSE]
Created == [Absent EXCEPT !.state = "preparing"]

(* A job's work directory: whether it exists, the report and the output    *)
(* file in it.                                                             *)
WorkDir == [dir: BOOLEAN, report: Reports \cup {"none"}, output: BOOLEAN]
NoWorkDir == [dir |-> FALSE, report |-> "none", output |-> FALSE]

PCs == {"unused", "weighing", "accepted", "sizing", "pulling", "watching",
        "uploading", "aborting", "telling", "reclaiming", "noting",
        "telling_failure", "done", "lost"}

VARIABLES
  up,       \* the server: "serving", "down", "adopting", "announcing"
  mid,      \* the job whose cancel handler is between its two writes
  crashes,  \* crashes so far
  orphans,  \* adopted jobs whose event is still to be posted
  job,      \* job[r]: the job run r is for
  pc,       \* pc[r]: where the coroutine of r is suspended
  mem,      \* mem[r]: the JobRecord instance of r
  verdict,  \* verdict[r]: the outcome decided, kept across the upload
  child,    \* child[r]: "none", "alive", "termed", "exited", "killed"
  hb,       \* hb[r]: whether the heartbeat task is alive
  killer,   \* killer[r]: the cancel waiting in _kill: "none", "keep", "purge"
  recOf,    \* JobRunner._records
  procOf,   \* JobRunner._procs
  disk,     \* disk[j]: <state_dir>/jobs/<j>.json
  work,     \* work[j]: the job's work directory
  heard,    \* heard[j]: the state the control plane heard last
  stale,    \* stale[j]: the copy of j's record a sweep works from
  asked     \* the runs for which a cancel was recorded before they concluded

server == <<up, mid, crashes, orphans>>
maps   == <<recOf, procOf>>
vars   == <<server, job, pc, mem, verdict, child, hb, killer, maps, disk, work,
            heard, stale, asked>>

TypeOK ==
  /\ up \in {"serving", "down", "adopting", "announcing"}
  /\ mid \in Jobs \cup {NoJob}
  /\ crashes \in 0 .. MaxCrashes
  /\ orphans \subseteq Jobs
  /\ job \in [Runs -> Jobs \cup {NoJob}]
  /\ pc \in [Runs -> PCs]
  /\ \A r \in Runs : job[r] = NoJob <=> pc[r] = "unused"
  /\ mem \in [Runs -> Record]
  /\ verdict \in [Runs -> Outcomes \cup {"none"}]
  /\ child \in [Runs -> {"none", "alive", "termed", "exited", "killed"}]
  /\ hb \in [Runs -> BOOLEAN]
  /\ killer \in [Runs -> {"none", "keep", "purge"}]
  /\ recOf \in [Jobs -> Runs \cup {NoRun}]
  /\ procOf \in [Jobs -> Runs \cup {NoRun}]
  /\ disk \in [Jobs -> Record]
  /\ work \in [Jobs -> WorkDir]
  /\ heard \in [Jobs -> LiveStates \cup TerminalStates
                          \cup {"absent", "canceling"}]
  /\ stale \in [Jobs -> Record]
  /\ asked \subseteq Runs

Init ==
  /\ up = "serving"
  /\ mid = NoJob
  /\ crashes = 0
  /\ orphans = {}
  /\ job = [r \in Runs |-> NoJob]
  /\ pc = [r \in Runs |-> "unused"]
  /\ mem = [r \in Runs |-> Absent]
  /\ verdict = [r \in Runs |-> "none"]
  /\ child = [r \in Runs |-> "none"]
  /\ hb = [r \in Runs |-> FALSE]
  /\ killer = [r \in Runs |-> "none"]
  /\ recOf = [j \in Jobs |-> NoRun]
  /\ procOf = [j \in Jobs |-> NoRun]
  /\ disk = [j \in Jobs |-> Absent]
  /\ work = [j \in Jobs |-> NoWorkDir]
  /\ heard = [j \in Jobs |-> "absent"]
  /\ stale = [j \in Jobs |-> Absent]
  /\ asked = {}
-----------------------------------------------------------------------------
(***************************************************************************)
(* Judgements.                                                             *)
(***************************************************************************)
IsLive(rec) == rec.state \in LiveStates

(* Variant: one job too many.                                              *)
AtCapacityLate == Cardinality({j \in Jobs : IsLive(disk[j])}) > MaxConcurrent

AtCapacity == Cardinality({j \in Jobs : IsLive(disk[j])}) >= MaxConcurrent

(* Report outcome -> the state this pod publishes.                         *)
StateFor(outcome) ==
  CASE outcome = "ok" -> "succeeded"
    [] outcome \in {"coverage_under", "verify_failed"} -> "needs_review"
    [] outcome \in {"interrupted", "canceled"} -> outcome
    [] OTHER -> "failed"

(* Variant: a report that says `interrupted` is believed.                  *)
DecideByReport(canceled, report, signalled) ==
  IF canceled /\ report \in {"none", "internal"} THEN "canceled"
  ELSE CASE report = "short" -> "coverage_under"
         [] report = "none" -> IF signalled THEN "interrupted" ELSE "internal"
         [] OTHER -> report

(* _decide_outcome: the report is trusted for everything but cancellation; *)
(* `signalled` is a negative exit code.                                    *)
DecideOutcome(canceled, report, signalled) ==
  IF canceled /\ report \in {"none", "interrupted", "internal"} THEN "canceled"
  ELSE CASE report = "short" -> "coverage_under"
         [] report = "none" -> IF signalled THEN "interrupted" ELSE "internal"
         [] OTHER -> report

(* Still between acceptance and the write of a terminal state.             *)
Driving == {"accepted", "sizing", "pulling", "watching", "uploading",
            "aborting"}

(* The event loop is free to run the next ready callback.                  *)
Loop == up = "serving" /\ mid = NoJob

Save(r, rec) ==
  /\ mem' = [mem EXCEPT ![r] = rec]
  /\ disk' = [disk EXCEPT ![job[r]] = rec]
-----------------------------------------------------------------------------
(***************************************************************************)
(* POST /jobs.                                                             *)
(***************************************************************************)
(* JobRunner.submit: the work directory, the record, the shared instance   *)
(* and the task.                                                           *)
Accept(j, r) ==
  /\ job' = [job EXCEPT ![r] = j]
  /\ pc' = [pc EXCEPT ![r] = "accepted"]
  /\ mem' = [mem EXCEPT ![r] = Created]
  /\ disk' = [disk EXCEPT ![j] = Created]
  /\ work' = [work EXCEPT ![j].dir = TRUE]
  /\ recOf' = [recOf EXCEPT ![j] = r]
  /\ UNCHANGED <<server, verdict, child, hb, killer, procOf, heard, stale, asked>>

(* What the handler requires before it looks at the volume: an unknown id  *)
(* (a known one answers 200 and changes nothing) and a free slot (409).    *)
Admissible(j) ==
  /\ disk[j].state = "absent"
  /\ ~AtCapacity

Submit(j, r) ==
  /\ Loop
  /\ pc[r] = "unused"
  /\ Admissible(j)
  /\ Accept(j, r)

(* Below the floor the handler awaits a sweep in a worker thread before it *)
(* looks again.                                                            *)
SubmitLow(j, r) ==
  /\ "lowdisk" \in Env
  /\ Loop
  /\ pc[r] = "unused"
  /\ Admissible(j)
  /\ job' = [job EXCEPT ![r] = j]
  /\ pc' = [pc EXCEPT ![r] = "weighing"]
  /\ UNCHANGED <<server, mem, verdict, child, hb, killer, maps, disk, work,
                 heard, stale, asked>>

(* Back from the sweep: neither the id nor the slots are looked at again.  *)
Weighed(r) ==
  /\ Loop
  /\ pc[r] = "weighing"
  /\ Accept(job[r], r)

(* Still below the floor: 507.                                             *)
Refuse(r) ==
  /\ Loop
  /\ pc[r] = "weighing"
  /\ job' = [job EXCEPT ![r] = NoJob]
  /\ pc' = [pc EXCEPT ![r] = "unused"]
  /\ UNCHANGED <<server, mem, verdict, child, hb, killer, maps, disk, work,
                 heard, stale, asked>>
-----------------------------------------------------------------------------
(***************************************************************************)
(* How a run ends.                                                         *)
(***************************************************************************)
(* The terminal state is written and the heartbeat cancelled; the event is *)
(* posted from the next await on.                                          *)
Conclude(r, outcome, key) ==
  /\ Save(r, [mem[r] EXCEPT !.state = StateFor(outcome),
                            !.outputKey = key])
  /\ hb' = [hb EXCEPT ![r] = FALSE]
  /\ pc' = [pc EXCEPT ![r] = "telling"]
  /\ verdict' = [verdict EXCEPT ![r] = "none"]
  /\ UNCHANGED <<server, job, child, killer, maps, work, heard, stale, asked>>

(* _fail: what an exception anywhere in _run comes to.                     *)
FailOutcome(r, code) == IF mem[r].cancelRequested THEN "canceled" ELSE code

Fail(r, code) ==
  /\ Save(r, [mem[r] EXCEPT !.state = StateFor(FailOutcome(r, code))])
  /\ hb' = [hb EXCEPT ![r] = FALSE]
  /\ pc' = [pc EXCEPT ![r] = "telling_failure"]
  /\ verdict' = [verdict EXCEPT ![r] = "none"]
  /\ UNCHANGED <<server, job, child, killer, maps, work, heard, stale, asked>>

(* The finally clause of _run: both maps are popped by job id, and with    *)
(* the coroutine its instance of the record is gone.                       *)
Finish(r) ==
  /\ pc' = [pc EXCEPT ![r] = "done"]
  /\ mem' = [mem EXCEPT ![r] = Absent]
  /\ recOf' = [recOf EXCEPT ![job[r]] = NoRun]
  /\ procOf' = [procOf EXCEPT ![job[r]] = NoRun]
  /\ UNCHANGED <<server, job, verdict, child, hb, killer, stale, asked>>
-----------------------------------------------------------------------------
(***************************************************************************)
(* _run: staging the input.                                                *)
(***************************************************************************)
(* plannedOutputKey, `running`, the heartbeat task and the child, without  *)
(* an await in between.  The child is started in the work directory.       *)
Launch(r) ==
  /\ work[job[r]].dir
  /\ Save(r, [mem[r] EXCEPT !.state = "running"])
  /\ hb' = [hb EXCEPT ![r] = TRUE]
  /\ child' = [child EXCEPT ![r] = "alive"]
  /\ procOf' = [procOf EXCEPT ![job[r]] = r]
  /\ pc' = [pc EXCEPT ![r] = "watching"]
  /\ UNCHANGED <<server, job, verdict, killer, recOf, work, heard, stale, asked>>

Downloading(r) ==
  /\ Save(r, [mem[r] EXCEPT !.state = "downloading"])
  /\ work' = [work EXCEPT ![job[r]].dir = TRUE]
  /\ pc' = [pc EXCEPT ![r] = "pulling"]
  /\ UNCHANGED <<server, job, verdict, child, hb, killer, maps, heard, stale,
                 asked>>

(* input.kind = "local": nothing to fetch.                                 *)
BeginLocal(r) == Loop /\ pc[r] = "accepted" /\ Launch(r)

(* input.kind = "url".                                                     *)
BeginUrl(r) == Loop /\ pc[r] = "accepted" /\ Downloading(r)

(* input.kind = "r2": the object's size is asked for first.                *)
BeginR2(r) ==
  /\ Loop
  /\ pc[r] = "accepted"
  /\ pc' = [pc EXCEPT ![r] = "sizing"]
  /\ UNCHANGED <<server, job, mem, verdict, child, hb, killer, maps, disk, work,
                 heard, stale, asked>>

Sized(r) == Loop /\ pc[r] = "sizing" /\ Downloading(r)

(* The URL download's progress callback writes the record again.           *)
PullTick(r) ==
  /\ Loop
  /\ pc[r] = "pulling"
  /\ disk' = [disk EXCEPT ![job[r]] = mem[r]]
  /\ UNCHANGED <<server, job, pc, mem, verdict, child, hb, killer, maps, work,
                 heard, stale, asked>>

Pulled(r) == Loop /\ pc[r] = "pulling" /\ Launch(r)

(* A vanished file, no space, a failed transfer (TransferError and its     *)
(* subclass NotEnoughSpace, ValueError), or anything else, Popen included. *)
StageFails(r) ==
  /\ Loop
  /\ pc[r] \in {"accepted", "sizing", "pulling"}
  /\ \E code \in {"input_error", "internal"} : Fail(r, code)
-----------------------------------------------------------------------------
(***************************************************************************)
(* The child process (wmrm run) and the heartbeat.                         *)
(***************************************************************************)
Written(w, report) ==
  [w EXCEPT !.report = report,
            !.output = @ \/ report \in {"ok", "short", "verify_failed"}]

(* The child exits: with its report written, and the output in place when  *)
(* the report is about a finished file, unless it is lost; or with no      *)
(* report at all.                                                          *)
ChildEnds(r) ==
  /\ child[r] \in {"alive", "termed"}
  /\ child' = [child EXCEPT ![r] = "exited"]
  /\ \/ UNCHANGED work
     \/ \E report \in Reports :
          /\ work[job[r]].dir
          /\ \/ work' = [work EXCEPT ![job[r]] = Written(@, report)]
             \/ /\ "vanish" \in Env
                /\ work' = [work EXCEPT ![job[r]].report = report]
  /\ UNCHANGED <<server, job, pc, mem, verdict, hb, killer, maps, disk, heard,
                 stale, asked>>

(* Killed by a signal it does not handle (the kernel's OOM killer).        *)
ChildDies(r) ==
  /\ child[r] \in {"alive", "termed"}
  /\ child' = [child EXCEPT ![r] = "killed"]
  /\ UNCHANGED <<server, job, pc, mem, verdict, hb, killer, maps, disk, work,
                 heard, stale, asked>>

(* One round of _heartbeat: the progress is written when there is any, and *)
(* the state of the shared record (or of its own) is posted.               *)
Heartbeat(r) ==
  /\ Loop
  /\ hb[r]
  /\ \/ disk' = [disk EXCEPT ![job[r]] = mem[r]]
     \/ UNCHANGED disk
  /\ LET shared == recOf[job[r]]
         fresh  == IF shared # NoRun THEN mem[shared] ELSE disk'[job[r]]
         posted == IF fresh.state = "absent" THEN mem[r].state ELSE fresh.state
     IN  heard' = [heard EXCEPT ![job[r]] = posted]
  /\ UNCHANGED <<server, job, pc, mem, verdict, child, hb, killer, maps, work,
                 stale, asked>>
-----------------------------------------------------------------------------
(***************************************************************************)
(* _run: after the child.                                                  *)
(***************************************************************************)
Publishable == {"ok", "verify_failed"}

UploadFailure(outcome) == IF outcome = "ok" THEN "upload_failed" ELSE outcome

Judged(r) == DecideOutcome(mem[r].cancelRequested, work[job[r]].report,
                           child[r] = "killed")

(* The pump thread has seen the child out and the loop resumes _run.       *)
Resumed(r) ==
  /\ Loop
  /\ pc[r] = "watching"
  /\ child[r] \in {"exited", "killed"}

(* Nothing to publish, or nowhere to publish it (no output key).           *)
ReapConcludes(r) ==
  /\ Resumed(r)
  /\ Conclude(r, Judged(r), FALSE)

ReapUploads(r) ==
  /\ Resumed(r)
  /\ Judged(r) \in Publishable
  /\ work[job[r]].output
  /\ Save(r, [mem[r] EXCEPT !.state = "uploading"])
  /\ verdict' = [verdict EXCEPT ![r] = Judged(r)]
  /\ pc' = [pc EXCEPT ![r] = "uploading"]
  /\ UNCHANGED <<server, job, child, hb, killer, maps, work, heard, stale, asked>>

(* The run reported success but the file is not there.                     *)
ReapMisses(r) ==
  /\ Resumed(r)
  /\ Judged(r) \in Publishable
  /\ ~work[job[r]].output
  /\ verdict' = [verdict EXCEPT ![r] = UploadFailure(Judged(r))]
  /\ pc' = [pc EXCEPT ![r] = "aborting"]
  /\ UNCHANGED <<server, job, mem, child, hb, killer, maps, disk, work, heard,
                 stale, asked>>

Uploaded(r) ==
  /\ Loop
  /\ pc[r] = "uploading"
  /\ Conclude(r, verdict[r], TRUE)

(* Variant: the failed upload is passed over and no end is recorded.       *)
UploadFailsQuietly(r) ==
  /\ Loop
  /\ pc[r] = "uploading"
  /\ verdict' = [verdict EXCEPT ![r] = "none"]
  /\ pc' = [pc EXCEPT ![r] = "telling"]
  /\ UNCHANGED <<server, job, mem, child, hb, killer, maps, disk, work, heard,
                 stale, asked>>

UploadFails(r) ==
  /\ Loop
  /\ pc[r] = "uploading"
  /\ verdict' = [verdict EXCEPT ![r] = UploadFailure(@)]
  /\ pc' = [pc EXCEPT ![r] = "aborting"]
  /\ UNCHANGED <<server, job, mem, child, hb, killer, maps, disk, work, heard,
                 stale, asked>>

(* The multipart upload is dropped, best effort.                           *)
Aborted(r) ==
  /\ Loop
  /\ pc[r] = "aborting"
  /\ Conclude(r, verdict[r], FALSE)

(* Notifier.terminal returns, whether or not the event arrived.            *)
Tell(r) ==
  /\ Loop
  /\ pc[r] = "telling"
  /\ \/ heard' = [heard EXCEPT ![job[r]] = mem[r].state]
     \/ "loss" \in Env /\ UNCHANGED heard
  /\ pc' = [pc EXCEPT ![r] = "reclaiming"]
  /\ UNCHANGED <<server, job, mem, verdict, child, hb, killer, maps, disk, work,
                 stale, asked>>

(* Notifier.send catches httpx.HTTPError only; anything else that posting  *)
(* raises reaches the except clauses of _run.                              *)
TellRaises(r) ==
  /\ "raise" \in Env
  /\ Loop
  /\ pc[r] = "telling"
  /\ Fail(r, "internal")

(* reclaim.after_delivery, in a worker thread: with no key on record, with *)
(* nothing to remove or switched off it does nothing; with a key the heavy *)
(* files go and the record is written again.                               *)
ReclaimNothing(r) ==
  /\ Loop
  /\ pc[r] = "reclaiming"
  /\ Finish(r)
  /\ UNCHANGED <<disk, work, heard>>

ReclaimFiles(r) ==
  /\ up = "serving"
  /\ pc[r] = "reclaiming"
  /\ mem[r].outputKey
  /\ work[job[r]].dir
  /\ work' = [work EXCEPT ![job[r]].output = FALSE]
  /\ pc' = [pc EXCEPT ![r] = "noting"]
  /\ UNCHANGED <<server, job, mem, verdict, child, hb, killer, maps, disk, heard,
                 stale, asked>>

ReclaimNoted(r) ==
  /\ Loop
  /\ pc[r] = "noting"
  /\ disk' = [disk EXCEPT ![job[r]] = mem[r]]
  /\ Finish(r)
  /\ UNCHANGED <<work, heard>>

(* Variant: the error reaches the except clauses of _run.                  *)
ReclaimFailsTheJob(r) ==
  /\ Loop
  /\ pc[r] = "noting"
  /\ Fail(r, "internal")

(* _reclaim swallows whatever the thread raises.                           *)
ReclaimFails(r) ==
  /\ Loop
  /\ pc[r] = "noting"
  /\ Finish(r)
  /\ UNCHANGED <<disk, work, heard>>

TellFailure(r) ==
  /\ Loop
  /\ pc[r] = "telling_failure"
  /\ \/ heard' = [heard EXCEPT ![job[r]] = mem[r].state]
     \/ Env \cap {"loss", "raise"} # {} /\ UNCHANGED heard
  /\ Finish(r)
  /\ UNCHANGED <<disk, work>>
-----------------------------------------------------------------------------
(***************************************************************************)
(* POST /jobs/{id}/cancel.  The flag and the state are two writes.         *)
(***************************************************************************)
(* Variant: cancel always works on a copy of its own.                      *)
NeverShared(j) == FALSE

(* _record: the live instance if there is one, otherwise what is on disk.  *)
Shared(j) == recOf[j] # NoRun

Current(j) == IF Shared(j) THEN mem[recOf[j]] ELSE disk[j]

Write(j, rec) ==
  /\ disk' = [disk EXCEPT ![j] = rec]
  /\ mem' = IF Shared(j) THEN [mem EXCEPT ![recOf[j]] = rec] ELSE mem

CancelFlag(j) ==
  /\ "cancel" \in Env
  /\ Loop
  /\ Current(j).state # "absent"
  /\ Write(j, [Current(j) EXCEPT !.cancelRequested = TRUE])
  /\ mid' = IF Current(j).state \in TerminalStates THEN NoJob ELSE j
  /\ asked' = asked \cup {r \in Runs : job[r] = j /\ pc[r] \in Driving}
  /\ UNCHANGED <<up, crashes, orphans, job, pc, verdict, child, hb, killer, maps,
                 work, heard, stale>>

(* The child this server would signal: the one in _procs, if it still runs *)
Target(j) == {r \in Runs : procOf[j] = r /\ child[r] \in {"alive", "termed"}}

Purged(w, purge) == IF purge = "purge" THEN NoWorkDir ELSE w

(* `canceling`, SIGTERM to the process group, and either a wait for it to  *)
(* go or, with no child to wait for, the purge at once.  While one cancel  *)
(* of a run waits in _kill another is not modelled.                        *)
CancelMark ==
  /\ up = "serving"
  /\ mid \in Jobs
  /\ Write(mid, [Current(mid) EXCEPT
                   !.state = IF IsLive(Current(mid)) THEN "canceling" ELSE @])
  /\ \E purge \in {"keep"} \cup (Env \cap {"purge"}) :
       IF Target(mid) = {}
         THEN /\ work' = [work EXCEPT ![mid] = Purged(@, purge)]
              /\ UNCHANGED <<child, killer>>
         ELSE /\ child' = [r \in Runs |-> IF r \in Target(mid) THEN "termed"
                                                               ELSE child[r]]
              /\ killer' = [r \in Runs |-> IF r \in Target(mid) /\ killer[r] = "none"
                                             THEN purge ELSE killer[r]]
              /\ UNCHANGED work
  /\ mid' = NoJob
  /\ UNCHANGED <<up, crashes, orphans, job, pc, verdict, hb, maps, heard, stale,
                 asked>>

(* The end of a cancel that waited: the child was seen to go ...           *)
KillSeen(r) ==
  /\ Loop
  /\ killer[r] # "none"
  /\ child[r] \in {"exited", "killed"}
  /\ work' = [work EXCEPT ![job[r]] = Purged(@, killer[r])]
  /\ killer' = [killer EXCEPT ![r] = "none"]
  /\ UNCHANGED <<server, job, pc, mem, verdict, child, hb, maps, disk, heard,
                 stale, asked>>

(* Variant: the grace runs out and nothing more is done.                   *)
KillGivesUp(r) ==
  /\ Loop
  /\ killer[r] # "none"
  /\ child[r] = "termed"
  /\ work' = [work EXCEPT ![job[r]] = Purged(@, killer[r])]
  /\ killer' = [killer EXCEPT ![r] = "none"]
  /\ UNCHANGED <<server, job, pc, mem, verdict, child, hb, maps, disk, heard,
                 stale, asked>>

(* ... or the grace ran out and SIGKILL was sent.                          *)
KillInsists(r) ==
  /\ Loop
  /\ killer[r] # "none"
  /\ child[r] = "termed"
  /\ child' = [child EXCEPT ![r] = "killed"]
  /\ work' = [work EXCEPT ![job[r]] = Purged(@, killer[r])]
  /\ killer' = [killer EXCEPT ![r] = "none"]
  /\ UNCHANGED <<server, job, pc, mem, verdict, hb, maps, disk, heard, stale,
                 asked>>
-----------------------------------------------------------------------------
(***************************************************************************)
(* DELETE /jobs/{id} and the sweep.                                        *)
(***************************************************************************)
Delete(j) ==
  /\ "delete" \in Env
  /\ Loop
  /\ disk[j].state # "absent"
  /\ ~IsLive(disk[j])
  /\ work' = [work EXCEPT ![j] = NoWorkDir]
  /\ disk' = [disk EXCEPT ![j] = Absent]
  /\ UNCHANGED <<server, job, pc, mem, verdict, child, hb, killer, maps, heard,
                 stale, asked>>

(* Variant: the sweep looks for `canceling` only.                          *)
SweepableLive(rec) == rec.state \notin {"absent", "canceling"}

(* A sweep reads the finished records first (_reclaimable) ...             *)
Sweepable(rec) == ~IsLive(rec) /\ rec.state \notin {"absent", "canceling"}

SweepPick(j) ==
  /\ "sweep" \in Env
  /\ up = "serving"
  /\ Sweepable(disk[j])
  /\ work[j].output
  /\ stale[j] = Absent
  /\ stale' = [stale EXCEPT ![j] = disk[j]]
  /\ UNCHANGED <<server, job, pc, mem, verdict, child, hb, killer, maps, disk,
                 work, heard, asked>>

(* ... and later, in its thread, empties the directory of each and writes  *)
(* the copy it read.  Delivered, past the retention window or in an        *)
(* emergency: any finished job can be due.                                 *)
SweepDrop(j) ==
  /\ up = "serving"
  /\ stale[j] # Absent
  /\ IF work[j].output
       THEN /\ work' = [work EXCEPT ![j].output = FALSE]
            /\ disk' = [disk EXCEPT ![j] = stale[j]]
       ELSE UNCHANGED <<work, disk>>
  /\ stale' = [stale EXCEPT ![j] = Absent]
  /\ UNCHANGED <<server, job, pc, mem, verdict, child, hb, killer, maps, heard,
                 asked>>
-----------------------------------------------------------------------------
(***************************************************************************)
(* Crash and restart.                                                      *)
(***************************************************************************)
AfterCrash(c) == IF c \in {"alive", "termed"} /\ "survivor" \notin Env
                   THEN "killed" ELSE c

(* The process dies; so do its threads and, with the pod, its children.    *)
Crash ==
  /\ "crash" \in Env
  /\ crashes < MaxCrashes
  /\ up # "down"
  /\ crashes' = crashes + 1
  /\ up' = "down"
  /\ mid' = NoJob
  /\ orphans' = {}
  /\ pc' = [r \in Runs |-> CASE pc[r] \in {"unused", "done"} -> pc[r]
                             [] OTHER -> "lost"]
  /\ child' = [r \in Runs |-> AfterCrash(child[r])]
  /\ mem' = [r \in Runs |-> Absent]
  /\ verdict' = [r \in Runs |-> "none"]
  /\ hb' = [r \in Runs |-> FALSE]
  /\ killer' = [r \in Runs |-> "none"]
  /\ recOf' = [j \in Jobs |-> NoRun]
  /\ procOf' = [j \in Jobs |-> NoRun]
  /\ stale' = [j \in Jobs |-> Absent]
  /\ UNCHANGED <<job, disk, work, heard, asked>>

Restart ==
  /\ up = "down"
  /\ up' = "adopting"
  /\ UNCHANGED <<mid, crashes, orphans, job, pc, mem, verdict, child, hb, killer,
                 maps, disk, work, heard, stale, asked>>

(* Variants: every record that is not a success is taken for an orphan, or *)
(* only those whose child was at work.                                     *)
OrphanedUnlessDone(rec) == rec.state \notin {"absent", "succeeded", "interrupted"}

OrphanedRunning(rec) == rec.state = "running"

(* adopt_orphans: one live record after the other is published as          *)
(* `interrupted`.                                                          *)
Orphaned(rec) == IsLive(rec)

Adopt(j) ==
  /\ up = "adopting"
  /\ Orphaned(disk[j])
  /\ disk' = [disk EXCEPT ![j].state = "interrupted"]
  /\ orphans' = orphans \cup {j}
  /\ UNCHANGED <<up, mid, crashes, job, pc, mem, verdict, child, hb, killer, maps,
                 work, heard, stale, asked>>

Adopted ==
  /\ up = "adopting"
  /\ \A j \in Jobs : ~Orphaned(disk[j])
  /\ up' = "announcing"
  /\ UNCHANGED <<mid, crashes, orphans, job, pc, mem, verdict, child, hb, killer,
                 maps, disk, work, heard, stale, asked>>

(* The startup hook then posts their events, awaiting each.                *)
Announce(j) ==
  /\ up = "announcing"
  /\ j \in orphans
  /\ orphans' = orphans \ {j}
  /\ \/ heard' = [heard EXCEPT ![j] = "interrupted"]
     \/ "loss" \in Env /\ UNCHANGED heard
  /\ UNCHANGED <<up, mid, crashes, job, pc, mem, verdict, child, hb, killer, maps,
                 disk, work, stale, asked>>

(* The hook itself fails, and the server with it: it never starts serving. *)
AnnounceRaises ==
  /\ "raise" \in Env
  /\ up = "announcing"
  /\ orphans # {}
  /\ orphans' = {}
  /\ up' = "down"
  /\ UNCHANGED <<mid, crashes, job, pc, mem, verdict, child, hb, killer, maps,
                 disk, work, heard, stale, asked>>

Announced ==
  /\ up = "announcing"
  /\ orphans = {}
  /\ up' = "serving"
  /\ UNCHANGED <<mid, crashes, orphans, job, pc, mem, verdict, child, hb, killer,
                 maps, disk, work, heard, stale, asked>>
-----------------------------------------------------------------------------
(* The steps of the coroutine of run r, of which at most one await is      *)
(* pending at any time.                                                    *)
RunStep(r) ==
  \/ Weighed(r) \/ Refuse(r)
  \/ BeginLocal(r) \/ BeginUrl(r) \/ BeginR2(r) \/ Sized(r) \/ Pulled(r)
  \/ StageFails(r)
  \/ ReapConcludes(r) \/ ReapUploads(r) \/ ReapMisses(r)
  \/ Uploaded(r) \/ UploadFails(r) \/ Aborted(r)
  \/ Tell(r) \/ TellRaises(r) \/ TellFailure(r)
  \/ ReclaimNothing(r) \/ ReclaimFiles(r) \/ ReclaimNoted(r) \/ ReclaimFails(r)

ChildStep(r) == ChildEnds(r) \/ ChildDies(r)

KillStep(r) == KillSeen(r) \/ KillInsists(r)

BootStep == \/ Restart \/ Adopted \/ Announced \/ AnnounceRaises
            \/ \E j \in Jobs : Adopt(j) \/ Announce(j)

RequestStep == \/ \E j \in Jobs, r \in Runs : Submit(j, r) \/ SubmitLow(j, r)
               \/ \E j \in Jobs : CancelFlag(j) \/ Delete(j)

SweepStep == \E j \in Jobs : SweepPick(j) \/ SweepDrop(j)

Next ==
  \/ \E r \in Runs : \/ RunStep(r) \/ PullTick(r) \/ Heartbeat(r)
                     \/ ChildStep(r) \/ KillStep(r)
  \/ RequestStep \/ CancelMark \/ SweepStep
  \/ Crash \/ BootStep

Spec == Init /\ [][Next]_vars

(* A resumed coroutine sits in asyncio's FIFO queue: cancels cannot keep   *)
(* overtaking it, so its steps are strongly fair.  Every transfer and      *)
(* every post gives up after a bounded number of attempts.                 *)
LoopFairness ==
  /\ \A r \in Runs : SF_vars(RunStep(r)) /\ SF_vars(KillStep(r))
  /\ WF_vars(CancelMark)
  /\ WF_vars(BootStep)

(* A child left alone comes to an end; one that was sent SIGTERM may hang. *)
ChildFairness ==
  \A r \in Runs : WF_vars(child[r] = "alive" /\ ChildStep(r))

FairSpec == Spec /\ LoopFairness /\ ChildFairness
-----------------------------------------------------------------------------
(***************************************************************************)
(* Properties.                                                             *)
(***************************************************************************)
(* The runs the pod is working on because somebody still wants them.       *)
Working == {r \in Runs : pc[r] \in Driving /\ ~mem[r].cancelRequested}

(* The 409 of POST /jobs: where no submission has to wait for a sweep, no  *)
(* interleaving of submissions, cancels, ends of runs, crashes and         *)
(* restarts puts more wanted runs on the pod than it has slots, although   *)
(* the slots are counted from the records on disk.  Submissions that find  *)
(* the volume below its floor are counted before their sweep and accepted  *)
(* after it, however many they are: with "lowdisk" this does not hold.     *)
SlotsRespected == Cardinality(Working) <= MaxConcurrent

(* JobRunner._records: while a coroutine drives a job, the record it       *)
(* writes, the one cancel finds and the document on disk are the same, so  *)
(* that neither of the two overwrites what the other wrote.                *)
OneRecord == \A r \in Runs :
  pc[r] \in Driving => recOf[job[r]] = r /\ disk[job[r]] = mem[r]

(* Cancel records its flag first.  Of a run whose flag was recorded before *)
(* it had ended, the document on the pod keeps the flag for good, whoever  *)
(* writes it after that, and never says `interrupted`, which asks the      *)
(* control plane to run the job again -- unless the server dies before the *)
(* run has ended: then it is the restart that decides.                     *)
CancelNotRetried == \A r \in asked :
  /\ disk[job[r]].cancelRequested
  /\ pc[r] # "lost" => disk[job[r]].state # "interrupted"

(* runner.py: "if this pod dies between the two, the flag is what tells    *)
(* the next process that the job was cancelled rather than interrupted".   *)
(* The restart does not look at it, so this does not hold.                 *)
FlagRemembered == \A r \in asked : disk[job[r]].state # "interrupted"

(* store.LIVE_STATES: any other state is final.  A record that says a job  *)
(* is over never says anything else afterwards.                            *)
TerminalIsFinal == [][\A j \in Jobs : disk[j].state \in TerminalStates
                                       => disk'[j].state = disk[j].state]_disk

(* A job as the document on disk and the events show it.                   *)
Life == INSTANCE JobLife WITH state  <- [j \in Jobs |-> disk[j].state],
                              cancel <- [j \in Jobs |-> disk[j].cancelRequested]

(* The records on the pod and what the control plane hears of them are the *)
(* life of each job as JobLife has it, whatever coroutines, cancels,       *)
(* sweeps, heartbeats, crashes and restarts make of it: a job is submitted *)
(* once, goes through its phases in their order, ends once, as canceled    *)
(* only if that was asked for, and what is told is what is on record.      *)
LivesOnce == Life!LifeSpec

(* What the control plane was told about the end of a job is what the      *)
(* record on the pod says, for good: it may never hear, but it never       *)
(* hears two ends or a wrong one.                                          *)
HeardIsDisk == \A j \in Jobs :
  heard[j] \in TerminalStates => disk[j].state = heard[j]

(* The sweep and the reclaim after a delivery free the space of finished   *)
(* jobs: the finished file of a job that is still moving and that nobody   *)
(* cancelled is never removed under it.                                    *)
LiveFilesKept == [][\A j \in Jobs :
  IsLive(disk[j]) /\ work[j].output /\ ~disk'[j].cancelRequested
    => work'[j].output]_<<work, disk>>

(* DELETE /jobs/{id} "remove a finished job's state": a record that was    *)
(* removed is made again by a submission of the job and by nothing else.   *)
DeletedStaysDeleted == [][\A j \in Jobs :
  disk[j] = Absent /\ disk'[j] # Absent => disk'[j] = Created]_disk

(* Every heartbeat task ends with its run.                                 *)
HeartbeatsEnd == \A r \in Runs :
  hb[r] => pc[r] \in {"watching", "uploading", "aborting"}

(* Two children never work for the same job.                               *)
Running(r) == child[r] \in {"alive", "termed"}
OneChildPerJob == \A r, s \in Runs :
  Running(r) /\ Running(s) /\ job[r] = job[s] => r = s

(* An accepted job's record says in the end how it ended, if the server    *)
(* does not die.                                                           *)
RecordsSettle == \A j \in Jobs :
  disk[j].state \in LiveStates \cup {"canceling"}
    ~> disk[j].state \in TerminalStates \/ crashes > 0

(* store.py: "a job that silently stays `running` forever holds a slot":   *)
(* a slot always comes back, through crashes and restarts too.             *)
SlotsComeBack == \A j \in Jobs : IsLive(disk[j]) ~> ~IsLive(disk[j])

(* A cancel that finds a child stops it and the run, even a child that     *)
(* ignores SIGTERM and would never end on its own.                         *)
CancelStops == \A r \in Runs : child[r] = "termed" ~> pc[r] \in {"done", "lost"}
=============================================================================

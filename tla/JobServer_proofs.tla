--------------------------- MODULE JobServer_proofs ---------------------------
(***************************************************************************)
(* Theorems about JobServer, for any jobs, runs, number of slots and any   *)
(* environment the theorem allows.                                         *)
(***************************************************************************)
EXTENDS JobServer, FiniteSetTheorems, TLAPS

(* The state a verdict is published as is a terminal one.                  *)
LEMMA StateForTerminal ==
  ASSUME NEW o \in Outcomes \cup {"none"}
  PROVE  StateFor(o) \in TerminalStates
BY DEF StateFor, Outcomes, TerminalStates

(* A decided outcome is one of the outcomes.                               *)
LEMMA DecideOutcomeType ==
  ASSUME NEW c \in BOOLEAN, NEW rep \in Reports \cup {"none"}, NEW s \in BOOLEAN
  PROVE  DecideOutcome(c, rep, s) \in Outcomes
BY ServerAssumption DEF DecideOutcome, Outcomes, ReportKinds

LEMMA InitType == Init => TypeOK
BY ServerAssumption
DEF Init, TypeOK, Absent, Record, WorkDir, NoWorkDir, PCs

(* Where a run is under way, its job is known.                             *)
(* A flag of one work directory changes.                                   *)
LEMMA FlagUpdate ==
  ASSUME TypeOK, NEW j \in Jobs, NEW b \in BOOLEAN
  PROVE  /\ [work EXCEPT ![j].output = b] \in [Jobs -> WorkDir]
         /\ [work EXCEPT ![j].dir = b] \in [Jobs -> WorkDir]
<1>1. work \in [Jobs -> WorkDir]
  BY DEF TypeOK
<1>2. work[j] \in WorkDir
  BY <1>1
<1>3. [work[j] EXCEPT !.output = b] \in WorkDir /\ [work[j] EXCEPT !.dir = b] \in WorkDir
  BY <1>2 DEF WorkDir
<1>4. QED
  BY <1>1, <1>3

LEMMA JobKnown ==
  ASSUME TypeOK, NEW r \in Runs, pc[r] # "unused"
  PROVE  job[r] \in Jobs
BY DEF TypeOK

LEMMA SaveType ==
  ASSUME TypeOK, NEW r \in Runs, pc[r] # "unused", NEW rec \in Record,
         Save(r, rec)
  PROVE  /\ mem' \in [Runs -> Record]
         /\ disk' \in [Jobs -> Record]
BY JobKnown DEF TypeOK, Save

LEMMA RecordUpdate ==
  ASSUME NEW rec \in Record, NEW st \in LiveStates \cup TerminalStates
                                            \cup {"absent", "canceling"},
         NEW k \in BOOLEAN
  PROVE  /\ [rec EXCEPT !.state = st] \in Record
         /\ [rec EXCEPT !.state = st, !.outputKey = k] \in Record
         /\ [rec EXCEPT !.cancelRequested = TRUE] \in Record
BY DEF Record

(* Concluding and failing write terminal records and keep the types.       *)
LEMMA ConcludeType ==
  ASSUME TypeOK, NEW r \in Runs, pc[r] # "unused",
         NEW o \in Outcomes \cup {"none"}, NEW k \in BOOLEAN, Conclude(r, o, k)
  PROVE  TypeOK'
<1> DEFINE rec == [mem[r] EXCEPT !.state = StateFor(o), !.outputKey = k]
<1>1. rec \in Record
  BY StateForTerminal, RecordUpdate DEF TypeOK
<1>2. Save(r, rec)
  BY DEF Conclude
<1>3. mem' \in [Runs -> Record] /\ disk' \in [Jobs -> Record]
  BY <1>1, <1>2, SaveType
<1>4. QED
  BY <1>3 DEF TypeOK, Conclude, PCs, server, maps

LEMMA FailType ==
  ASSUME TypeOK, NEW r \in Runs, pc[r] # "unused", NEW o \in Outcomes, Fail(r, o)
  PROVE  TypeOK'
<1> DEFINE rec == [mem[r] EXCEPT !.state = StateFor(FailOutcome(r, o))]
<1>1. FailOutcome(r, o) \in Outcomes
  BY DEF FailOutcome, Outcomes
<1>2. rec \in Record
  BY <1>1, StateForTerminal, RecordUpdate DEF TypeOK
<1>3. Save(r, rec)
  BY DEF Fail
<1>4. mem' \in [Runs -> Record] /\ disk' \in [Jobs -> Record]
  BY <1>2, <1>3, SaveType
<1>5. QED
  BY <1>4 DEF TypeOK, Fail, PCs, server, maps
(* The steps that write one record besides Conclude and Fail.              *)
LEMMA LaunchType ==
  ASSUME TypeOK, NEW r \in Runs, pc[r] # "unused", Launch(r)
  PROVE  TypeOK'
<1>1. [mem[r] EXCEPT !.state = "running"] \in Record
  BY RecordUpdate DEF TypeOK, LiveStates
<1>2. mem' \in [Runs -> Record] /\ disk' \in [Jobs -> Record]
  BY <1>1, SaveType DEF Launch
<1>3. procOf' \in [Jobs -> Runs \cup {NoRun}]
  BY JobKnown DEF TypeOK, Launch
<1>4. /\ pc' \in [Runs -> PCs]
      /\ \A s \in Runs : job'[s] = NoJob <=> pc'[s] = "unused"
  BY DEF TypeOK, Launch, PCs
<1>5. child' \in [Runs -> {"none", "alive", "termed", "exited", "killed"}]
      /\ hb' \in [Runs -> BOOLEAN]
  BY DEF TypeOK, Launch
<1>6. QED
  BY <1>2, <1>3, <1>4, <1>5 DEF TypeOK, Launch, server, maps

LEMMA DownloadingType ==
  ASSUME TypeOK, NEW r \in Runs, pc[r] # "unused", Downloading(r)
  PROVE  TypeOK'
<1>1. [mem[r] EXCEPT !.state = "downloading"] \in Record
  BY RecordUpdate DEF TypeOK, LiveStates
<1>2. mem' \in [Runs -> Record] /\ disk' \in [Jobs -> Record]
  BY <1>1, SaveType DEF Downloading
<1>3. work' \in [Jobs -> WorkDir]
  BY JobKnown, FlagUpdate DEF Downloading
<1>4. pc' \in [Runs -> PCs]
  BY DEF TypeOK, Downloading, PCs
<1>5. \A s \in Runs : job'[s] = NoJob <=> pc'[s] = "unused"
  BY DEF TypeOK, Downloading
<1>6. QED
  BY <1>2, <1>3, <1>4, <1>5 DEF TypeOK, Downloading, server, maps

LEMMA RecordConstants == Absent \in Record /\ Created \in Record
BY DEF Absent, Created, Record, LiveStates

LEMMA AcceptType ==
  ASSUME TypeOK, NEW r \in Runs, NEW j \in Jobs, Accept(j, r)
  PROVE  TypeOK'
<1>1. work' \in [Jobs -> WorkDir]
  BY FlagUpdate DEF Accept
<1>2. mem' \in [Runs -> Record] /\ disk' \in [Jobs -> Record]
  BY RecordConstants DEF TypeOK, Accept
<1>3. /\ job' \in [Runs -> Jobs \cup {NoJob}]
      /\ pc' \in [Runs -> PCs]
      /\ \A s \in Runs : job'[s] = NoJob <=> pc'[s] = "unused"
  BY ServerAssumption DEF TypeOK, Accept, PCs
<1>4. QED
  BY <1>1, <1>2, <1>3 DEF TypeOK, Accept, server, maps

LEMMA FinishType ==
  ASSUME TypeOK, NEW r \in Runs, pc[r] # "unused", Finish(r),
         disk' \in [Jobs -> Record], work' \in [Jobs -> WorkDir],
         heard' \in [Jobs -> LiveStates \cup TerminalStates
                                \cup {"absent", "canceling"}]
  PROVE  TypeOK'
BY JobKnown, RecordConstants DEF TypeOK, Finish, PCs, server

LEMMA JudgedType ==
  ASSUME TypeOK, NEW r \in Runs, pc[r] # "unused"
  PROVE  /\ Judged(r) \in Outcomes
         /\ UploadFailure(Judged(r)) \in Outcomes
<1>1. work[job[r]].report \in Reports \cup {"none"}
  BY JobKnown DEF TypeOK, WorkDir
<1>2. mem[r].cancelRequested \in BOOLEAN
  BY DEF TypeOK, Record
<1>3. Judged(r) \in Outcomes
  BY <1>1, <1>2, DecideOutcomeType DEF Judged
<1>4. QED
  BY <1>3 DEF UploadFailure, Outcomes

(* A job with no work directory of its own is outside the function: the    *)
(* update of its entry changes nothing.                                    *)
LEMMA WorkUpdate ==
  ASSUME TypeOK, NEW j, NEW w, j \in Jobs => w \in WorkDir
  PROVE  [work EXCEPT ![j] = w] \in [Jobs -> WorkDir]
BY DEF TypeOK

(* The steps of the coroutine of one run.                                  *)
LEMMA RunStepType ==
  ASSUME TypeOK, NEW r \in Runs, RunStep(r)
  PROVE  TypeOK'
<1>1. CASE Weighed(r)
  BY <1>1, AcceptType, JobKnown DEF Weighed
<1>2. CASE Refuse(r)
  BY <1>2 DEF TypeOK, Refuse, PCs, server, maps
<1>3. CASE BeginLocal(r)
  BY <1>3, LaunchType DEF BeginLocal
<1>4. CASE BeginUrl(r)
  BY <1>4, DownloadingType DEF BeginUrl
<1>5. CASE BeginR2(r)
  BY <1>5 DEF TypeOK, BeginR2, PCs, server, maps
<1>6. CASE Sized(r)
  BY <1>6, DownloadingType DEF Sized
<1>7. CASE Pulled(r)
  BY <1>7, LaunchType DEF Pulled
<1>8. CASE StageFails(r)
  BY <1>8, FailType DEF StageFails, Outcomes
<1>9. CASE ReapConcludes(r)
  BY <1>9, ConcludeType, JudgedType DEF ReapConcludes, Resumed
<1>10. CASE ReapUploads(r)
  <2>1. pc[r] # "unused" /\ Judged(r) \in Outcomes
    BY <1>10, JudgedType DEF ReapUploads, Resumed
  <2>2. [mem[r] EXCEPT !.state = "uploading"] \in Record
    BY RecordUpdate DEF TypeOK, LiveStates
  <2>3. mem' \in [Runs -> Record] /\ disk' \in [Jobs -> Record]
    BY <1>10, <2>1, <2>2, SaveType DEF ReapUploads
  <2>4. QED
    BY <1>10, <2>1, <2>3 DEF TypeOK, ReapUploads, PCs, server, maps
<1>11. CASE ReapMisses(r)
  <2>1. pc[r] # "unused" /\ UploadFailure(Judged(r)) \in Outcomes
    BY <1>11, JudgedType DEF ReapMisses, Resumed
  <2>2. QED
    BY <1>11, <2>1 DEF TypeOK, ReapMisses, PCs, server, maps
<1>12. CASE Uploaded(r)
  BY <1>12, ConcludeType DEF Uploaded, TypeOK
<1>13. CASE UploadFails(r)
  BY <1>13 DEF TypeOK, UploadFails, UploadFailure, Outcomes, PCs, server, maps
<1>14. CASE Aborted(r)
  BY <1>14, ConcludeType DEF Aborted, TypeOK
<1>15. CASE Tell(r)
  <2>1. mem[r].state \in LiveStates \cup TerminalStates \cup {"absent", "canceling"}
    BY DEF TypeOK, Record
  <2>2. QED
    BY <1>15, <2>1 DEF TypeOK, Tell, PCs, server, maps
<1>16. CASE TellRaises(r)
  BY <1>16, FailType DEF TellRaises, Outcomes
<1>17. CASE TellFailure(r)
  <2>1. mem[r].state \in LiveStates \cup TerminalStates \cup {"absent", "canceling"}
    BY DEF TypeOK, Record
  <2>2. heard' \in [Jobs -> LiveStates \cup TerminalStates
                             \cup {"absent", "canceling"}]
    BY <1>17, <2>1 DEF TypeOK, TellFailure
  <2>3. QED
    BY <1>17, <2>2, FinishType DEF TellFailure, TypeOK
<1>18. CASE ReclaimNothing(r)
  BY <1>18, FinishType DEF ReclaimNothing, TypeOK
<1>19. CASE ReclaimFiles(r)
  <2>1. work' \in [Jobs -> WorkDir]
    <3>1. job[r] \in Jobs
      BY <1>19, JobKnown DEF ReclaimFiles
    <3>2. work' = [work EXCEPT ![job[r]].output = FALSE]
      BY <1>19 DEF ReclaimFiles
    <3>3. QED
      BY <3>1, <3>2, FlagUpdate
  <2>2. QED
    BY <1>19, <2>1 DEF TypeOK, ReclaimFiles, PCs, server, maps
<1>20. CASE ReclaimNoted(r)
  <2>1. disk' \in [Jobs -> Record]
    BY <1>20 DEF TypeOK, ReclaimNoted
  <2>2. QED
    BY <1>20, <2>1, FinishType DEF ReclaimNoted, TypeOK
<1>21. CASE ReclaimFails(r)
  BY <1>21, FinishType DEF ReclaimFails, TypeOK
<1>22. QED
  BY <1>1, <1>2, <1>3, <1>4, <1>5, <1>6, <1>7, <1>8, <1>9, <1>10, <1>11, <1>12,
     <1>13, <1>14, <1>15, <1>16, <1>17, <1>18, <1>19, <1>20, <1>21 DEF RunStep
LEMMA CurrentType ==
  ASSUME TypeOK, NEW j \in Jobs
  PROVE  Current(j) \in Record
BY DEF TypeOK, Current, Shared

LEMMA WriteType ==
  ASSUME TypeOK, NEW j \in Jobs, NEW rec \in Record, Write(j, rec)
  PROVE  mem' \in [Runs -> Record] /\ disk' \in [Jobs -> Record]
BY DEF TypeOK, Write, Shared

LEMMA PurgedType ==
  ASSUME NEW w \in WorkDir, NEW p
  PROVE  Purged(w, p) \in WorkDir
BY DEF Purged, NoWorkDir, WorkDir

(* The two halves of a cancel, and the end of one that waited.             *)
LEMMA CancelFlagType ==
  ASSUME TypeOK, NEW j \in Jobs, CancelFlag(j)
  PROVE  TypeOK'
<1>1. [Current(j) EXCEPT !.cancelRequested = TRUE] \in Record
  BY CurrentType DEF Record
<1>2. mem' \in [Runs -> Record] /\ disk' \in [Jobs -> Record]
  BY <1>1, WriteType DEF CancelFlag
<1>3. QED
  BY <1>2 DEF TypeOK, CancelFlag, maps

LEMMA CancelMarkType ==
  ASSUME TypeOK, CancelMark
  PROVE  TypeOK'
<1> DEFINE st == IF IsLive(Current(mid)) THEN "canceling" ELSE Current(mid).state
<1>1. mid \in Jobs
  BY DEF CancelMark
<1>2. [Current(mid) EXCEPT !.state = st] \in Record
  BY <1>1, CurrentType DEF Record
<1>3. Write(mid, [Current(mid) EXCEPT !.state = st])
  BY <1>1, <1>2, CurrentType DEF CancelMark, Record
<1>4. mem' \in [Runs -> Record] /\ disk' \in [Jobs -> Record]
  BY <1>1, <1>2, <1>3, WriteType
<1>5. PICK purge \in {"keep"} \cup (Env \cap {"purge"}) :
        IF Target(mid) = {}
          THEN /\ work' = [work EXCEPT ![mid] = Purged(@, purge)]
               /\ UNCHANGED <<child, killer>>
          ELSE /\ child' = [r \in Runs |-> IF r \in Target(mid) THEN "termed"
                                                                ELSE child[r]]
               /\ killer' = [r \in Runs |-> IF r \in Target(mid) /\ killer[r] = "none"
                                              THEN purge ELSE killer[r]]
               /\ UNCHANGED work
  BY DEF CancelMark
<1>6. work' \in [Jobs -> WorkDir]
  BY <1>1, <1>5, PurgedType DEF TypeOK
<1>7. /\ child' \in [Runs -> {"none", "alive", "termed", "exited", "killed"}]
      /\ killer' \in [Runs -> {"none", "keep", "purge"}]
  BY <1>5 DEF TypeOK
<1>8. QED
  BY <1>4, <1>6, <1>7 DEF TypeOK, CancelMark, maps

LEMMA KillStepType ==
  ASSUME TypeOK, NEW r \in Runs, KillStep(r)
  PROVE  TypeOK'
<1>1. work' \in [Jobs -> WorkDir]
  <2>1. work' = [work EXCEPT ![job[r]] = Purged(work[job[r]], killer[r])]
    BY DEF KillStep, KillSeen, KillInsists
  <2>2. job[r] \in Jobs => Purged(work[job[r]], killer[r]) \in WorkDir
    BY PurgedType DEF TypeOK
  <2>3. QED
    BY <2>1, <2>2, WorkUpdate
<1>2. QED
  BY <1>1 DEF TypeOK, KillStep, KillSeen, KillInsists, server, maps

LEMMA WrittenType ==
  ASSUME NEW w \in WorkDir, NEW report \in Reports
  PROVE  Written(w, report) \in WorkDir
BY DEF Written, WorkDir

(* Children and heartbeats.                                                *)
LEMMA ChildStepType ==
  ASSUME TypeOK, NEW r \in Runs, ChildStep(r)
  PROVE  TypeOK'
<1>1. work' \in [Jobs -> WorkDir]
  <2>1. CASE work' = work
    BY <2>1 DEF TypeOK
  <2>2. CASE \E report \in Reports :
               work' = [work EXCEPT ![job[r]] = Written(@, report)]
    <3>1. PICK report \in Reports :
            work' = [work EXCEPT ![job[r]] = Written(work[job[r]], report)]
      BY <2>2
    <3>2. job[r] \in Jobs => Written(work[job[r]], report) \in WorkDir
      BY WrittenType DEF TypeOK
    <3>3. QED
      BY <3>1, <3>2, WorkUpdate
  <2>3. CASE \E report \in Reports :
               work' = [work EXCEPT ![job[r]].report = report]
    <3>1. PICK report \in Reports :
            work' = [work EXCEPT ![job[r]] = [work[job[r]] EXCEPT !.report = report]]
      BY <2>3
    <3>2. job[r] \in Jobs => [work[job[r]] EXCEPT !.report = report] \in WorkDir
      BY DEF TypeOK, WorkDir
    <3>3. QED
      BY <3>1, <3>2, WorkUpdate
  <2>4. QED
    BY <2>1, <2>2, <2>3 DEF ChildStep, ChildEnds, ChildDies
<1>2. QED
  BY <1>1 DEF TypeOK, ChildStep, ChildEnds, ChildDies, server, maps

LEMMA HeartbeatType ==
  ASSUME TypeOK, NEW r \in Runs, Heartbeat(r)
  PROVE  TypeOK'
<1> DEFINE shared == recOf[job[r]]
           fresh  == IF shared # NoRun THEN mem[shared] ELSE disk'[job[r]]
           posted == IF fresh.state = "absent" THEN mem[r].state ELSE fresh.state
<1>1. disk' \in [Jobs -> Record]
  BY DEF TypeOK, Heartbeat
<1>2. CASE job[r] \in Jobs
  <2>1. fresh \in Record
    BY <1>1, <1>2 DEF TypeOK
  <2>2. posted \in LiveStates \cup TerminalStates \cup {"absent", "canceling"}
    BY <2>1 DEF TypeOK, Record
  <2>3. heard' = [heard EXCEPT ![job[r]] = posted]
    BY DEF Heartbeat
  <2>4. heard' \in [Jobs -> LiveStates \cup TerminalStates
                             \cup {"absent", "canceling"}]
    BY <2>2, <2>3 DEF TypeOK
  <2>5. QED
    BY <1>1, <2>4 DEF TypeOK, Heartbeat, server, maps
<1>3. CASE job[r] \notin Jobs
  <2>1. heard' = heard
    BY <1>3 DEF TypeOK, Heartbeat
  <2>2. UNCHANGED <<server, maps, job, pc, mem, verdict, child, hb, killer, work, stale, asked>>
    BY DEF Heartbeat
  <2>3. QED
    BY <1>1, <2>1, <2>2 DEF TypeOK, server, maps
<1>4. QED
  BY <1>2, <1>3

(* Deletes and sweeps.                                                     *)
LEMMA DeleteType ==
  ASSUME TypeOK, NEW j \in Jobs, Delete(j)
  PROVE  TypeOK'
<1>1. NoWorkDir \in WorkDir
  BY DEF NoWorkDir, WorkDir
<1>2. QED
  BY <1>1, RecordConstants DEF TypeOK, Delete, server, maps

LEMMA SweepType ==
  ASSUME TypeOK, NEW j \in Jobs, SweepPick(j) \/ SweepDrop(j)
  PROVE  TypeOK'
<1>1. work' \in [Jobs -> WorkDir]
  <2>1. CASE work' = work
    BY <2>1 DEF TypeOK
  <2>2. CASE work' = [work EXCEPT ![j].output = FALSE]
    BY <2>2, FlagUpdate
  <2>3. QED
    BY <2>1, <2>2 DEF SweepPick, SweepDrop
<1>2. QED
  BY <1>1, RecordConstants DEF TypeOK, SweepPick, SweepDrop, server, maps

(* Crash and restart.                                                      *)
LEMMA CrashType ==
  ASSUME TypeOK, Crash
  PROVE  TypeOK'
<1>1. pc' \in [Runs -> PCs] /\ \A r \in Runs : job'[r] = NoJob <=> pc'[r] = "unused"
  BY DEF TypeOK, Crash, PCs
<1>2. child' \in [Runs -> {"none", "alive", "termed", "exited", "killed"}]
  BY DEF TypeOK, Crash, AfterCrash
<1>3. crashes' \in 0 .. MaxCrashes
  BY ServerAssumption DEF TypeOK, Crash
<1>4. QED
  BY <1>1, <1>2, <1>3, RecordConstants DEF TypeOK, Crash

LEMMA BootType ==
  ASSUME TypeOK, BootStep
  PROVE  TypeOK'
<1>1. CASE Restart \/ Adopted \/ Announced \/ AnnounceRaises
  BY <1>1 DEF TypeOK, Restart, Adopted, Announced, AnnounceRaises, maps
<1>2. CASE \E j \in Jobs : Adopt(j)
  <2>1. PICK j \in Jobs : Adopt(j)
    BY <1>2
  <2>2. [disk[j] EXCEPT !.state = "interrupted"] \in Record
    BY RecordUpdate DEF TypeOK, TerminalStates
  <2>3. disk' \in [Jobs -> Record]
    BY <2>1, <2>2 DEF TypeOK, Adopt
  <2>4. QED
    BY <2>1, <2>3 DEF TypeOK, Adopt, maps
<1>3. CASE \E j \in Jobs : Announce(j)
  BY <1>3 DEF TypeOK, Announce, TerminalStates, maps
<1>4. QED
  BY <1>1, <1>2, <1>3 DEF BootStep

LEMMA SubmitType ==
  ASSUME TypeOK, NEW j \in Jobs, NEW r \in Runs, Submit(j, r) \/ SubmitLow(j, r)
  PROVE  TypeOK'
<1>1. CASE Submit(j, r)
  BY <1>1, AcceptType DEF Submit
<1>2. CASE SubmitLow(j, r)
  BY <1>2, ServerAssumption DEF TypeOK, SubmitLow, PCs, server, maps
<1>3. QED
  BY <1>1, <1>2

(* One step of the server, of a child, of a thread or of the environment.  *)
LEMMA StepType == TypeOK /\ [Next]_vars => TypeOK'
<1> SUFFICES ASSUME TypeOK, [Next]_vars
             PROVE  TypeOK'
  OBVIOUS
<1>1. CASE \E r \in Runs : RunStep(r)
  BY <1>1, RunStepType
<1>2. CASE \E r \in Runs : PullTick(r)
  BY <1>2 DEF TypeOK, PullTick, server, maps
<1>3. CASE \E r \in Runs : Heartbeat(r)
  BY <1>3, HeartbeatType
<1>4. CASE \E r \in Runs : ChildStep(r)
  BY <1>4, ChildStepType
<1>5. CASE \E r \in Runs : KillStep(r)
  BY <1>5, KillStepType
<1>6. CASE RequestStep
  BY <1>6, SubmitType, CancelFlagType, DeleteType DEF RequestStep
<1>7. CASE CancelMark
  BY <1>7, CancelMarkType
<1>8. CASE SweepStep
  BY <1>8, SweepType DEF SweepStep
<1>9. CASE Crash
  BY <1>9, CrashType
<1>10. CASE BootStep
  BY <1>10, BootType
<1>11. CASE UNCHANGED vars
  BY <1>11 DEF TypeOK, vars, server, maps
<1>12. QED
  BY <1>1, <1>2, <1>3, <1>4, <1>5, <1>6, <1>7, <1>8, <1>9, <1>10, <1>11 DEF Next

(* The variables keep their types, with any number of jobs, runs, slots    *)
(* and crashes and whatever the environment may do.                        *)
THEOREM TypeCorrect == Spec => []TypeOK
<1>1. Init => TypeOK
  BY InitType
<1>2. TypeOK /\ [Next]_vars => TypeOK'
  BY StepType
<1>3. QED
  BY <1>1, <1>2, PTL DEF Spec
-----------------------------------------------------------------------------
(***************************************************************************)
(* The inductive invariant behind the safety theorems.  It holds when jobs *)
(* are not deleted and a submit never waits for space: both let two runs   *)
(* of one job overlap.                                                     *)
(***************************************************************************)
NoOverlap == Env \cap {"delete", "lowdisk"} = {}

(* The coroutine of the run is under way.                                  *)
Held == Driving \cup {"telling", "reclaiming", "noting", "telling_failure"}

(* A held run owns the entry of its job, and every entry is that of a held *)
(* run.                                                                    *)
Owned == \A r \in Runs : pc[r] \in Held => recOf[job[r]] = r

Entered == \A j \in Jobs :
  recOf[j] # NoRun => job[recOf[j]] = j /\ pc[recOf[j]] \in Held

(* While it is driven the record on disk is the run's own, and it is not   *)
(* over; only a cancel that was recorded takes it out of the live states.  *)
Driven == \A r \in Runs : pc[r] \in Driving =>
  /\ disk[job[r]] = mem[r]
  /\ mem[r].state \in LiveStates \cup {"canceling"}
  /\ mem[r].state = "canceling" => mem[r].cancelRequested

(* Once concluded, it is over in both places, and in the same way unless a *)
(* sweep's copy is older than a failure to post.                           *)
Concluded == \A r \in Runs : pc[r] \in Held \ Driving =>
  /\ mem[r].state \in TerminalStates
  /\ disk[job[r]].state \in TerminalStates
  /\ "raise" \notin Env => disk[job[r]].state = mem[r].state

(* Between the two writes of a cancel the job is not over and is flagged.  *)
Marking == mid # NoJob =>
  /\ up = "serving"
  /\ Current(mid).state \in LiveStates \cup {"canceling"}
  /\ Current(mid).cancelRequested

(* A sweep works from a copy of a finished record, which stays finished.   *)
Swept == \A j \in Jobs : stale[j] # Absent =>
  /\ up = "serving"
  /\ stale[j].state \in TerminalStates
  /\ disk[j].state \in TerminalStates
  /\ "raise" \notin Env => disk[j].state = stale[j].state

(* Without the server there are no coroutines, and no submission waits.    *)
Quiet == /\ \A r \in Runs : pc[r] # "weighing"
         /\ up # "serving" => \A r \in Runs : pc[r] \notin Held

(* Adopted jobs are interrupted until their event is posted.               *)
Adopting == \A j \in orphans :
  up \in {"adopting", "announcing"} /\ disk[j].state = "interrupted"

IInv == /\ TypeOK
        /\ Owned /\ Entered /\ Driven /\ Concluded /\ Marking
        /\ Swept /\ Quiet /\ Adopting /\ HeartbeatsEnd
-----------------------------------------------------------------------------
LEMMA InitInv == Init => IInv
<1> SUFFICES ASSUME Init PROVE IInv
  OBVIOUS
<1>1. TypeOK
  BY InitType
<1>2. Owned /\ Driven /\ Concluded /\ HeartbeatsEnd
  BY DEF Init, Owned, Driven, Concluded, HeartbeatsEnd, Held, Driving
<1>3. Entered /\ Marking /\ Swept /\ Quiet /\ Adopting
  BY DEF Init, Entered, Marking, Swept, Quiet, Adopting, Held, Driving
<1>4. QED
  BY <1>1, <1>2, <1>3 DEF IInv

(* Two held runs are never for the same job.                               *)
LEMMA HeldApart ==
  ASSUME IInv, NEW r \in Runs, NEW s \in Runs, pc[r] \in Held, pc[s] \in Held,
         job[r] = job[s]
  PROVE  r = s
BY DEF IInv, Owned

LEMMA HeldKnown ==
  ASSUME TypeOK, NEW r \in Runs, pc[r] \in Held
  PROVE  job[r] \in Jobs /\ r # NoRun
BY JobKnown, ServerAssumption DEF Held, Driving

(* The variables IInv speaks of besides their types.                       *)
core == <<up, mid, orphans, job, pc, mem, hb, recOf, disk, stale>>

(* A step that leaves them alone.                                          *)
LEMMA FrameInv ==
  ASSUME IInv, TypeOK', UNCHANGED core
  PROVE  IInv'
BY DEF IInv, core, Owned, Entered, Driven, Concluded, Marking, Swept, Quiet,
       Adopting, HeartbeatsEnd, HeardIsDisk, Current, Shared

(* A step that only moves the coroutine of a run, within the part of it    *)
(* that drives the job or within the part after that.                      *)
LEMMA MoveInv ==
  ASSUME IInv, TypeOK', NEW r \in Runs, NEW p,
         \/ pc[r] \in Driving /\ p \in Driving
         \/ pc[r] \in Held \ Driving /\ p \in Held \ Driving,
         hb[r] => p \in {"watching", "uploading", "aborting"},
         pc' = [pc EXCEPT ![r] = p],
         UNCHANGED <<up, mid, orphans, job, mem, hb, recOf, disk, stale>>
  PROVE  IInv'
<1>1. p \in Held /\ pc[r] \in Held /\ pc'[r] = p
  BY DEF IInv, TypeOK, Held
<1>2. \A s \in Runs : s # r => pc'[s] = pc[s]
  BY DEF IInv, TypeOK
<1>3. Owned'
  BY <1>1, <1>2 DEF IInv, Owned
<1>4. Entered'
  BY <1>1, <1>2 DEF IInv, TypeOK, Entered
<1>5. Driven' /\ Concluded'
  BY <1>1, <1>2 DEF IInv, Driven, Concluded
<1>6. Marking' /\ Swept' /\ Adopting'
  BY DEF IInv, Marking, Swept, Adopting, Current, Shared
<1>7. Quiet'
  BY <1>1, <1>2 DEF IInv, Quiet, Held, Driving
<1>8. HeartbeatsEnd'
  BY <1>1, <1>2 DEF IInv, HeartbeatsEnd
<1>9. QED
  BY <1>3, <1>4, <1>5, <1>6, <1>7, <1>8 DEF IInv

(* While a run is held, nothing but its own steps and cancels concern the  *)
(* record of its job: what a save of it means for the others.              *)
LEMMA SaveFrame ==
  ASSUME IInv, TypeOK', NEW r \in Runs, pc[r] \in Held, NEW rec, Save(r, rec),
         UNCHANGED job
  PROVE  /\ mem'[r] = rec
         /\ disk'[job[r]] = rec
         /\ \A s \in Runs : s # r => mem'[s] = mem[s]
         /\ \A s \in Runs : s # r /\ pc[s] \in Held
                             => disk'[job[s]] = disk[job[s]]
         /\ \A j \in Jobs : j # job[r] => disk'[j] = disk[j]
<1>1. job[r] \in Jobs
  BY HeldKnown DEF IInv
<1>2. QED
  BY <1>1, HeldApart DEF IInv, TypeOK, Save

(* A save by a run that goes on driving its job.                           *)
LEMMA DriveInv ==
  ASSUME IInv, TypeOK', NEW r \in Runs, NEW p \in Driving, NEW rec \in Record,
         Loop, pc[r] \in Driving, Save(r, rec), rec.state \in LiveStates,
         pc' = [pc EXCEPT ![r] = p],
         \A s \in Runs : s # r => hb'[s] = hb[s],
         hb'[r] => p \in {"watching", "uploading", "aborting"},
         UNCHANGED <<up, mid, orphans, job, recOf, stale>>
  PROVE  IInv'
<1>1. p \in Held /\ pc[r] \in Held /\ pc'[r] = p
  BY DEF IInv, TypeOK, Held
<1>2. \A s \in Runs : s # r => pc'[s] = pc[s]
  BY DEF IInv, TypeOK
<1>3. /\ mem'[r] = rec /\ disk'[job[r]] = rec
      /\ \A s \in Runs : s # r => mem'[s] = mem[s]
      /\ \A s \in Runs : s # r /\ pc[s] \in Held => disk'[job[s]] = disk[job[s]]
      /\ \A j \in Jobs : j # job[r] => disk'[j] = disk[j]
  BY <1>1, SaveFrame
<1>4. Owned'
  BY <1>1, <1>2 DEF IInv, Owned
<1>5. Entered'
  BY <1>1, <1>2 DEF IInv, TypeOK, Entered
<1>6. Driven'
  BY <1>1, <1>2, <1>3 DEF IInv, Driven, Held, LiveStates
<1>7. Concluded'
  BY <1>1, <1>2, <1>3 DEF IInv, Concluded
<1>8. Marking' /\ Adopting'
  BY DEF IInv, Marking, Adopting, Loop
<1>9. Swept'
  <2>1. stale[job[r]] = Absent
    BY <1>1, HeldKnown DEF IInv, Swept, Driven, LiveStates, TerminalStates
  <2>2. QED
    BY <1>3, <2>1 DEF IInv, Swept
<1>10. Quiet'
  BY <1>1, <1>2 DEF IInv, Quiet, Held, Driving
<1>11. HeartbeatsEnd'
  BY <1>1, <1>2 DEF IInv, HeartbeatsEnd
<1>12. QED
  BY <1>4, <1>5, <1>6, <1>7, <1>8, <1>9, <1>10, <1>11 DEF IInv

(* A save that says the run is over.                                       *)
LEMMA EndInv ==
  ASSUME IInv, TypeOK', NEW r \in Runs, NEW p \in Held \ Driving, NEW rec \in Record,
         Loop, pc[r] \in Driving \/ (pc[r] \in Held /\ "raise" \in Env),
         Save(r, rec), rec.state \in TerminalStates,
         pc' = [pc EXCEPT ![r] = p], hb' = [hb EXCEPT ![r] = FALSE],
         UNCHANGED <<up, mid, orphans, job, recOf, stale>>
  PROVE  IInv'
<1>1. p \in Held /\ pc[r] \in Held /\ pc'[r] = p
  BY DEF IInv, TypeOK, Held
<1>2. \A s \in Runs : s # r => pc'[s] = pc[s]
  BY DEF IInv, TypeOK
<1>3. /\ mem'[r] = rec /\ disk'[job[r]] = rec
      /\ \A s \in Runs : s # r => mem'[s] = mem[s]
      /\ \A s \in Runs : s # r /\ pc[s] \in Held => disk'[job[s]] = disk[job[s]]
      /\ \A j \in Jobs : j # job[r] => disk'[j] = disk[j]
  BY <1>1, SaveFrame
<1>4. Owned'
  BY <1>1, <1>2 DEF IInv, Owned
<1>5. Entered'
  BY <1>1, <1>2 DEF IInv, TypeOK, Entered
<1>6. Driven'
  BY <1>1, <1>2, <1>3 DEF IInv, Driven, Held
<1>7. Concluded'
  BY <1>1, <1>2, <1>3 DEF IInv, Concluded
<1>8. Marking' /\ Adopting'
  <2>1. orphans = {}
    BY DEF IInv, Adopting, Loop
  <2>2. QED
    BY <2>1 DEF IInv, Marking, Adopting, Loop
<1>9. Swept'
  <2>1. CASE pc[r] \in Driving
    <3>1. stale[job[r]] = Absent
      BY <1>1, <2>1, HeldKnown DEF IInv, Swept, Driven, LiveStates, TerminalStates
    <3>2. QED
      BY <1>3, <3>1 DEF IInv, Swept
  <2>2. CASE "raise" \in Env
    BY <1>3, <2>2 DEF IInv, Swept
  <2>3. QED
    BY <2>1, <2>2
<1>10. Quiet'
  BY <1>1, <1>2 DEF IInv, Quiet, Held, Driving
<1>11. HeartbeatsEnd'
  BY <1>1, <1>2 DEF IInv, TypeOK, HeartbeatsEnd
<1>12. QED
  BY <1>4, <1>5, <1>6, <1>7, <1>8, <1>9, <1>10, <1>11 DEF IInv

LEMMA ConcludeInv ==
  ASSUME IInv, TypeOK', NEW r \in Runs, NEW o \in Outcomes \cup {"none"},
         NEW k \in BOOLEAN, Loop, pc[r] \in Driving, Conclude(r, o, k)
  PROVE  IInv'
<1> DEFINE rec == [mem[r] EXCEPT !.state = StateFor(o), !.outputKey = k]
<1>a. mem[r] \in Record
  BY DEF IInv, TypeOK
<1>b. StateFor(o) \in TerminalStates
  BY StateForTerminal
<1>1. rec \in Record /\ rec.state = StateFor(o)
  BY <1>a, <1>b, RecordUpdate DEF Record
<1>2. "telling" \in Held \ Driving
  BY DEF Held, Driving
<1>3. QED
  BY <1>1, <1>b, <1>2, EndInv DEF Conclude, server, maps

LEMMA FailInv ==
  ASSUME IInv, TypeOK', NEW r \in Runs, NEW o \in Outcomes, Loop,
         pc[r] \in Driving \/ (pc[r] \in Held /\ "raise" \in Env), Fail(r, o)
  PROVE  IInv'
<1> DEFINE rec == [mem[r] EXCEPT !.state = StateFor(FailOutcome(r, o))]
<1>1. FailOutcome(r, o) \in Outcomes
  BY DEF FailOutcome, Outcomes
<1>a. mem[r] \in Record
  BY DEF IInv, TypeOK
<1>b. StateFor(FailOutcome(r, o)) \in TerminalStates
  BY <1>1, StateForTerminal
<1>2. rec \in Record /\ rec.state = StateFor(FailOutcome(r, o))
  BY <1>a, <1>b, RecordUpdate DEF Record
<1>3. "telling_failure" \in Held \ Driving
  BY DEF Held, Driving
<1>4. QED
  BY <1>b, <1>2, <1>3, EndInv DEF Fail, server, maps

(* The end of the coroutine.                                               *)
LEMMA FinishInv ==
  ASSUME IInv, TypeOK', NEW r \in Runs, Loop, pc[r] \in Held \ Driving, Finish(r),
         \/ disk' = disk
         \/ disk' = [disk EXCEPT ![job[r]] = mem[r]]
  PROVE  IInv'
<1>1. pc[r] \in Held /\ pc'[r] = "done" /\ job[r] \in Jobs
  BY HeldKnown DEF IInv, TypeOK, Finish
<1>2. \A s \in Runs : s # r => pc'[s] = pc[s] /\ mem'[s] = mem[s]
  BY DEF IInv, TypeOK, Finish
<1>3. \A j \in Jobs : j # job[r] => disk'[j] = disk[j] /\ recOf'[j] = recOf[j]
  BY DEF IInv, TypeOK, Finish
<1>4. \A s \in Runs : s # r /\ pc[s] \in Held => job[s] # job[r] /\ job[s] \in Jobs
  BY <1>1, HeldApart, HeldKnown DEF IInv
<1>5. "done" \notin Held
  BY DEF Held, Driving
<1>6. UNCHANGED <<up, mid, orphans, job, hb, stale>> /\ recOf'[job[r]] = NoRun
  BY <1>1 DEF IInv, TypeOK, Finish, server
<1>7. Owned'
  BY <1>1, <1>2, <1>3, <1>4, <1>5, <1>6 DEF IInv, Owned
<1>8. Entered'
  BY <1>1, <1>2, <1>3, <1>6 DEF IInv, TypeOK, Entered
<1>9. Driven'
  BY <1>1, <1>2, <1>3, <1>4, <1>5, <1>6 DEF IInv, Driven, Held
<1>10. Concluded'
  BY <1>1, <1>2, <1>3, <1>4, <1>5, <1>6 DEF IInv, Concluded
<1>11. Marking' /\ Adopting'
  BY <1>6 DEF IInv, Marking, Adopting, Loop
<1>12. Swept'
  BY <1>1, <1>3, <1>6 DEF IInv, TypeOK, Swept, Concluded
<1>13. Quiet'
  BY <1>1, <1>2, <1>5, <1>6 DEF IInv, Quiet
<1>14. HeartbeatsEnd'
  BY <1>1, <1>2, <1>6 DEF IInv, HeartbeatsEnd, Held, Driving
<1>15. QED
  BY <1>7, <1>8, <1>9, <1>10, <1>11, <1>12, <1>13, <1>14 DEF IInv

(* The steps of the coroutine of a run.                                    *)
LEMMA RunStepInv ==
  ASSUME IInv, TypeOK', NEW r \in Runs, RunStep(r)
  PROVE  IInv'
<1> USE DEF Held, Driving
<1>1. CASE Weighed(r) \/ Refuse(r)
  BY <1>1 DEF IInv, Quiet, Weighed, Refuse
<1>2. ASSUME Launch(r), Loop, pc[r] \in Driving PROVE IInv'
  <2>1. [mem[r] EXCEPT !.state = "running"] \in Record
    BY RecordUpdate DEF IInv, TypeOK, LiveStates
  <2>2. [mem[r] EXCEPT !.state = "running"].state \in LiveStates
    BY DEF IInv, TypeOK, Record, LiveStates
  <2>3. \A s \in Runs : s # r => hb'[s] = hb[s]
    BY <1>2 DEF IInv, TypeOK, Launch
  <2>4. QED
    BY <1>2, <2>1, <2>2, <2>3, DriveInv DEF Launch, server
<1>3. ASSUME Downloading(r), Loop, pc[r] \in {"accepted", "sizing"} PROVE IInv'
  <2>1. [mem[r] EXCEPT !.state = "downloading"] \in Record
    BY RecordUpdate DEF IInv, TypeOK, LiveStates
  <2>2. [mem[r] EXCEPT !.state = "downloading"].state \in LiveStates
    BY DEF IInv, TypeOK, Record, LiveStates
  <2>3. hb' = hb /\ ~hb[r]
    BY <1>3 DEF IInv, HeartbeatsEnd, Downloading
  <2>4. QED
    BY <1>3, <2>1, <2>2, <2>3, DriveInv DEF Downloading, server, maps
<1>4. CASE BeginLocal(r) \/ Pulled(r)
  BY <1>2, <1>4 DEF BeginLocal, Pulled
<1>5. CASE BeginUrl(r) \/ Sized(r)
  BY <1>3, <1>5 DEF BeginUrl, Sized
<1>6. CASE BeginR2(r)
  <2>1. ~hb[r]
    BY <1>6 DEF IInv, HeartbeatsEnd, BeginR2
  <2>2. QED
    BY <1>6, <2>1, MoveInv DEF BeginR2, server, maps
<1>7. CASE StageFails(r)
  BY <1>7, FailInv DEF StageFails, Outcomes
<1>8. CASE ReapConcludes(r)
  BY <1>8, ConcludeInv, JudgedType DEF ReapConcludes, Resumed, IInv
<1>9. CASE ReapUploads(r)
  <2>1. [mem[r] EXCEPT !.state = "uploading"] \in Record
    BY RecordUpdate DEF IInv, TypeOK, LiveStates
  <2>2. [mem[r] EXCEPT !.state = "uploading"].state \in LiveStates
    BY DEF IInv, TypeOK, Record, LiveStates
  <2>3. QED
    BY <1>9, <2>1, <2>2, DriveInv DEF ReapUploads, Resumed, server, maps
<1>10. CASE ReapMisses(r)
  BY <1>10, MoveInv DEF ReapMisses, Resumed, server, maps
<1>11. CASE Uploaded(r)
  BY <1>11, ConcludeInv DEF Uploaded, IInv, TypeOK
<1>12. CASE UploadFails(r)
  BY <1>12, MoveInv DEF UploadFails, server, maps
<1>13. CASE Aborted(r)
  BY <1>13, ConcludeInv DEF Aborted, IInv, TypeOK
<1>14. CASE Tell(r)
  <2>1. ~hb[r]
    BY <1>14 DEF IInv, HeartbeatsEnd, Tell
  <2>2. QED
    BY <1>14, <2>1, MoveInv DEF Tell, server, maps
<1>15. CASE TellRaises(r)
  BY <1>15, FailInv DEF TellRaises, Outcomes
<1>16. CASE ReclaimFiles(r)
  <2>1. ~hb[r]
    BY <1>16 DEF IInv, HeartbeatsEnd, ReclaimFiles
  <2>2. QED
    BY <1>16, <2>1, MoveInv DEF ReclaimFiles, server, maps
<1>17. CASE ReclaimNothing(r) \/ ReclaimFails(r) \/ TellFailure(r)
  BY <1>17, FinishInv DEF ReclaimNothing, ReclaimFails, TellFailure
<1>18. CASE ReclaimNoted(r)
  BY <1>18, FinishInv DEF ReclaimNoted
<1>19. QED
  BY <1>1, <1>4, <1>5, <1>6, <1>7, <1>8, <1>9, <1>10, <1>11, <1>12, <1>13,
     <1>14, <1>15, <1>16, <1>17, <1>18 DEF RunStep

(* Progress of a download, heartbeats, children and kills: the record is   *)
(* written as it is on disk already, or not at all.                        *)
LEMMA TickInv ==
  ASSUME IInv, TypeOK', NEW r \in Runs,
         PullTick(r) \/ Heartbeat(r) \/ ChildStep(r) \/ KillStep(r)
  PROVE  IInv'
<1>1. CASE PullTick(r)
  <2>1. pc[r] \in Driving /\ disk' = [disk EXCEPT ![job[r]] = mem[r]]
    BY <1>1 DEF PullTick, Driving
  <2>2. disk' = disk
    BY <2>1 DEF IInv, TypeOK, Driven
  <2>3. QED
    BY <1>1, <2>2, FrameInv DEF PullTick, core, server, maps
<1>2. CASE Heartbeat(r)
  <2>1. pc[r] \in Driving
    BY <1>2 DEF Heartbeat, IInv, HeartbeatsEnd, Driving
  <2>2. disk' = disk \/ disk' = [disk EXCEPT ![job[r]] = mem[r]]
    BY <1>2 DEF Heartbeat
  <2>3. disk' = disk
    BY <2>1, <2>2 DEF IInv, TypeOK, Driven
  <2>4. QED
    BY <1>2, <2>3, FrameInv DEF Heartbeat, core, server, maps
<1>3. CASE ChildStep(r)
  BY <1>3, FrameInv DEF ChildStep, ChildEnds, ChildDies, core, server, maps
<1>4. CASE KillStep(r)
  BY <1>4, FrameInv DEF KillStep, KillSeen, KillInsists, core, server, maps
<1>5. QED
  BY <1>1, <1>2, <1>3, <1>4

(* A submission of an unknown id: nobody holds it.                         *)
LEMMA SubmitInv ==
  ASSUME IInv, TypeOK', NEW j \in Jobs, NEW r \in Runs, Submit(j, r)
  PROVE  IInv'
<1>1. pc[r] = "unused" /\ Loop /\ disk[j].state = "absent" /\ Accept(j, r)
  BY DEF Submit, Admissible
<1>2. \A s \in Runs : pc[s] \in Held => job[s] # j /\ s # r
  BY <1>1, HeldKnown DEF IInv, Driven, Concluded, Held, Driving, LiveStates,
                         TerminalStates
<1>3. /\ pc'[r] = "accepted" /\ job'[r] = j /\ mem'[r] = Created
      /\ disk'[j] = Created /\ recOf'[j] = r
      /\ \A s \in Runs : s # r => /\ pc'[s] = pc[s] /\ job'[s] = job[s]
                                  /\ mem'[s] = mem[s]
      /\ \A k \in Jobs : k # j => disk'[k] = disk[k] /\ recOf'[k] = recOf[k]
  BY <1>1 DEF Accept, IInv, TypeOK
<1>4. UNCHANGED <<up, mid, orphans, hb, stale>>
  BY <1>1 DEF Accept, server
<1>5. "accepted" \in Driving /\ "accepted" \in Held
  BY DEF Held, Driving
<1>6. Created.state = "preparing" /\ "preparing" \in LiveStates
  BY DEF Created, Absent, LiveStates
<1>7. \A s \in Runs : pc'[s] \in Held /\ s # r =>
        /\ pc[s] \in Held /\ job'[s] = job[s] /\ job[s] # j /\ job[s] \in Jobs
        /\ disk'[job[s]] = disk[job[s]] /\ recOf'[job[s]] = recOf[job[s]]
  BY <1>2, <1>3, HeldKnown DEF IInv
<1>8. Owned'
  BY <1>3, <1>7 DEF IInv, Owned
<1>9. Entered'
  BY <1>2, <1>3, <1>5, ServerAssumption DEF IInv, TypeOK, Entered
<1>10. Driven'
  BY <1>3, <1>6, <1>7 DEF IInv, Driven, Held, LiveStates
<1>11. Concluded'
  BY <1>3, <1>5, <1>7 DEF IInv, Concluded
<1>12. Marking' /\ Adopting'
  BY <1>1, <1>4 DEF IInv, Marking, Adopting, Loop
<1>13. Swept'
  BY <1>1, <1>3, <1>4 DEF IInv, Swept, TerminalStates
<1>14. Quiet'
  BY <1>1, <1>3, <1>4 DEF IInv, Quiet, Loop
<1>15. HeartbeatsEnd'
  BY <1>1, <1>3, <1>4 DEF IInv, HeartbeatsEnd
<1>16. QED
  BY <1>8, <1>9, <1>10, <1>11, <1>12, <1>13, <1>14, <1>15 DEF IInv

(* What a cancel writes: the record it found, with the flag or the state   *)
(* changed, to the disk and to the instance it shares.                     *)
LEMMA CurrentFacts ==
  ASSUME IInv, NEW j \in Jobs
  PROVE  /\ Current(j) \in Record
         /\ Shared(j) => /\ recOf[j] \in Runs /\ job[recOf[j]] = j
                         /\ pc[recOf[j]] \in Held /\ Current(j) = mem[recOf[j]]
         /\ ~Shared(j) => Current(j) = disk[j]
         /\ \A s \in Runs : pc[s] \in Held /\ job[s] = j => Shared(j) /\ recOf[j] = s
         /\ disk[j].state \in TerminalStates <=> Current(j).state \in TerminalStates
<1>1. Current(j) \in Record
  BY CurrentType DEF IInv
<1>2. Shared(j) => /\ recOf[j] \in Runs /\ job[recOf[j]] = j
                   /\ pc[recOf[j]] \in Held /\ Current(j) = mem[recOf[j]]
  BY DEF IInv, TypeOK, Entered, Shared, Current
<1>3. ~Shared(j) => Current(j) = disk[j]
  BY DEF Shared, Current
<1>4. \A s \in Runs : pc[s] \in Held /\ job[s] = j => Shared(j) /\ recOf[j] = s
  BY ServerAssumption DEF IInv, Owned, Shared
<1>5. disk[j].state \in TerminalStates <=> Current(j).state \in TerminalStates
  <2>1. CASE Shared(j) /\ pc[recOf[j]] \in Driving
    BY <1>2, <2>1 DEF IInv, Driven
  <2>2. CASE Shared(j) /\ pc[recOf[j]] \notin Driving
    BY <1>2, <2>2 DEF IInv, Concluded
  <2>3. QED
    BY <1>3, <2>1, <2>2
<1>6. QED
  BY <1>1, <1>2, <1>3, <1>4, <1>5

(* A cancel keeps IInv if what it writes keeps an ended record ended in    *)
(* the same way, and a record that is not, in flight.                      *)
LEMMA WriteInv ==
  ASSUME IInv, TypeOK', NEW j \in Jobs, NEW rec, Loop \/ mid = j, up = "serving",
         Write(j, rec), rec.cancelRequested,
         Current(j).state \in TerminalStates => rec.state = Current(j).state,
         Current(j).state \in LiveStates \cup {"canceling"}
            => rec.state \in LiveStates \cup {"canceling"},
         rec.state \in LiveStates \cup {"canceling"} \/ mid' = NoJob,
         mid' \in {j, NoJob},
         UNCHANGED <<up, orphans, job, pc, hb, recOf, stale>>
  PROVE  IInv'
<1>1. /\ \A k \in Jobs : k # j => disk'[k] = disk[k]
      /\ disk'[j] = rec
      /\ Shared(j) => mem'[recOf[j]] = rec
      /\ \A s \in Runs : ~(Shared(j) /\ s = recOf[j]) => mem'[s] = mem[s]
  BY CurrentFacts DEF Write, IInv, TypeOK
<1>2. \A s \in Runs : pc[s] \in Held =>
        \/ job[s] = j /\ Shared(j) /\ s = recOf[j] /\ mem'[s] = rec
             /\ disk'[job[s]] = rec /\ Current(j) = mem[s]
        \/ job[s] # j /\ mem'[s] = mem[s] /\ disk'[job[s]] = disk[job[s]]
  <2> SUFFICES ASSUME NEW s \in Runs, pc[s] \in Held
               PROVE  \/ job[s] = j /\ Shared(j) /\ s = recOf[j] /\ mem'[s] = rec
                           /\ disk'[job[s]] = rec /\ Current(j) = mem[s]
                      \/ job[s] # j /\ mem'[s] = mem[s] /\ disk'[job[s]] = disk[job[s]]
    OBVIOUS
  <2>1. CASE job[s] = j
    BY <1>1, <2>1, CurrentFacts
  <2>2. CASE job[s] # j
    BY <1>1, <2>2, CurrentFacts, HeldKnown DEF IInv
  <2>3. QED
    BY <2>1, <2>2
<1>3. Owned' /\ Entered' /\ HeartbeatsEnd'
  BY DEF IInv, Owned, Entered, HeartbeatsEnd
<1>4. Driven'
  BY <1>2 DEF IInv, Driven, Held
<1>5. Concluded'
  BY <1>2, CurrentFacts DEF IInv, Concluded
<1>6. Marking'
  <2>1. Current(j)' = rec
    BY <1>1 DEF Current, Shared
  <2>2. QED
    BY <2>1 DEF Marking
<1>7. Swept'
  <2>1. stale[j] # Absent => rec.state = Current(j).state
                             /\ disk[j].state \in TerminalStates
    BY CurrentFacts DEF IInv, Swept
  <2>2. stale[j] # Absent /\ "raise" \notin Env => Current(j).state = disk[j].state
    <3>1. CASE Shared(j)
      BY <2>1, <3>1, CurrentFacts DEF IInv, Concluded, Driven, LiveStates, TerminalStates
    <3>2. CASE ~Shared(j)
      BY <3>2, CurrentFacts
    <3>3. QED
      BY <3>1, <3>2
  <2>3. ASSUME NEW k \in Jobs, stale[k] # Absent
        PROVE  /\ stale[k].state \in TerminalStates
               /\ disk'[k].state \in TerminalStates
               /\ "raise" \notin Env => disk'[k].state = stale[k].state
    <3>1. CASE k = j
      BY <1>1, <2>1, <2>2, <2>3, <3>1, CurrentFacts DEF IInv, Swept
    <3>2. CASE k # j
      BY <1>1, <2>3, <3>2 DEF IInv, Swept
    <3>3. QED
      BY <3>1, <3>2
  <2>4. QED
    BY <2>3 DEF Swept
<1>8. Quiet' /\ Adopting'
  BY DEF IInv, Quiet, Adopting
<1>9. QED
  BY <1>3, <1>4, <1>5, <1>6, <1>7, <1>8 DEF IInv

LEMMA CancelFlagInv ==
  ASSUME IInv, TypeOK', NEW j \in Jobs, CancelFlag(j)
  PROVE  IInv'
<1> DEFINE rec == [Current(j) EXCEPT !.cancelRequested = TRUE]
<1>1. /\ rec.cancelRequested /\ rec.state = Current(j).state
      /\ Current(j).state \in LiveStates \cup TerminalStates \cup {"canceling"}
  BY CurrentType DEF CancelFlag, IInv, Record
<1>2. Loop /\ Write(j, rec) /\ up = "serving"
  BY DEF CancelFlag, Loop
<1>3. /\ mid' \in {j, NoJob}
      /\ rec.state \in LiveStates \cup {"canceling"} \/ mid' = NoJob
      /\ UNCHANGED <<up, orphans, job, pc, hb, recOf, stale>>
  BY <1>1 DEF CancelFlag, maps
<1> HIDE DEF rec
<1>4. QED
  BY <1>1, <1>2, <1>3, WriteInv

LEMMA CancelMarkInv ==
  ASSUME IInv, TypeOK', CancelMark
  PROVE  IInv'
<1> DEFINE rec == [Current(mid) EXCEPT
                     !.state = IF IsLive(Current(mid)) THEN "canceling" ELSE @]
<1>1. mid \in Jobs /\ up = "serving" /\ mid # NoJob
  BY ServerAssumption DEF CancelMark
<1>2. /\ Current(mid).state \in LiveStates \cup {"canceling"}
      /\ Current(mid).cancelRequested /\ Current(mid) \in Record
  BY <1>1, CurrentType DEF IInv, Marking
<1>3. rec.cancelRequested /\ rec.state = "canceling"
  BY <1>2 DEF Record, IsLive
<1>4. Write(mid, rec)
  BY DEF CancelMark
<1>5. mid' = NoJob /\ UNCHANGED <<up, orphans, job, pc, hb, recOf, stale>>
  BY DEF CancelMark, maps
<1>6. Current(mid).state \notin TerminalStates
  BY <1>2 DEF LiveStates, TerminalStates
<1> HIDE DEF rec
<1>7. QED
  BY <1>1, <1>3, <1>4, <1>5, <1>6, WriteInv

(* A sweep takes a copy of a finished record and writes it back later.     *)
LEMMA SweepPickInv ==
  ASSUME IInv, TypeOK', NEW j \in Jobs, SweepPick(j)
  PROVE  IInv'
<1>1. up = "serving" /\ disk[j].state \in TerminalStates
  BY DEF SweepPick, Sweepable, IsLive, IInv, TypeOK, Record
<1>2. stale' = [stale EXCEPT ![j] = disk[j]]
      /\ UNCHANGED <<up, mid, orphans, job, pc, mem, hb, recOf, disk>>
  BY DEF SweepPick, server, maps
<1>3. Swept'
  BY <1>1, <1>2 DEF IInv, TypeOK, Swept
<1>4. QED
  BY <1>2, <1>3 DEF IInv, Owned, Entered, Driven, Concluded, Marking, Quiet,
                    Adopting, HeartbeatsEnd, Current, Shared

LEMMA SweepDropInv ==
  ASSUME IInv, TypeOK', NEW j \in Jobs, SweepDrop(j)
  PROVE  IInv'
<1>1. /\ up = "serving" /\ stale[j].state \in TerminalStates
      /\ disk[j].state \in TerminalStates
      /\ "raise" \notin Env => disk[j].state = stale[j].state
  BY DEF SweepDrop, IInv, Swept
<1>2. UNCHANGED <<up, mid, orphans, job, pc, mem, hb, recOf>>
  BY DEF SweepDrop, server, maps
<1>3. /\ stale'[j] = Absent
      /\ \A k \in Jobs : k # j => stale'[k] = stale[k] /\ disk'[k] = disk[k]
      /\ disk'[j] = disk[j] \/ disk'[j] = stale[j]
  BY DEF SweepDrop, IInv, TypeOK
<1>4. Owned' /\ Entered' /\ Quiet' /\ HeartbeatsEnd'
  BY <1>2 DEF IInv, Owned, Entered, Quiet, HeartbeatsEnd
<1>5. \A s \in Runs : pc[s] \in Driving => job[s] # j /\ job[s] \in Jobs
  BY <1>1, HeldKnown DEF IInv, Driven, Held, LiveStates, TerminalStates
<1>6. Driven'
  BY <1>2, <1>3, <1>5 DEF IInv, Driven
<1>7. Concluded'
  BY <1>1, <1>2, <1>3, HeldKnown DEF IInv, Concluded
<1>8. Marking'
  <2>1. CASE mid = NoJob
    BY <1>2, <2>1 DEF Marking
  <2>2. CASE mid # NoJob
    <3>1. mid \in Jobs /\ Current(mid).state \notin TerminalStates
      BY <2>2 DEF IInv, TypeOK, Marking, LiveStates, TerminalStates
    <3>2. mid # j
      BY <1>1, <3>1, CurrentFacts
    <3>3. Current(mid)' = Current(mid)
      BY <1>2, <1>3, <3>1, <3>2 DEF Current, Shared
    <3>4. QED
      BY <1>2, <3>3 DEF IInv, Marking
  <2>3. QED
    BY <2>1, <2>2
<1>9. Swept' /\ Adopting'
  BY <1>1, <1>2, <1>3 DEF IInv, Swept, Adopting
<1>10. QED
  BY <1>4, <1>6, <1>7, <1>8, <1>9 DEF IInv

(* A crash leaves no coroutine, no entry and no copy behind.               *)
LEMMA CrashInv ==
  ASSUME IInv, TypeOK', Crash
  PROVE  IInv'
<1>1. \A r \in Runs : pc'[r] \in {"unused", "done", "lost"} /\ ~hb'[r]
  BY DEF Crash, IInv, TypeOK
<1>2. /\ \A j \in Jobs : recOf'[j] = NoRun /\ stale'[j] = Absent
      /\ orphans' = {} /\ mid' = NoJob
  BY DEF Crash
<1>3. QED
  BY <1>1, <1>2 DEF IInv, Owned, Entered, Driven, Concluded, Marking, Swept,
                    Quiet, Adopting, HeartbeatsEnd, Held, Driving

(* The next start: nothing is held until it serves again.                  *)
LEMMA BootInv ==
  ASSUME IInv, TypeOK', BootStep
  PROVE  IInv'
<1>1. up # "serving" /\ UNCHANGED <<mid, job, pc, mem, hb, recOf, stale>>
  BY DEF BootStep, Restart, Adopt, Adopted, Announce, AnnounceRaises, Announced,
         maps
<1>2. /\ \A r \in Runs : pc[r] \notin Held /\ ~hb[r]
      /\ \A j \in Jobs : stale[j] = Absent /\ recOf[j] = NoRun
      /\ mid = NoJob
  BY <1>1 DEF IInv, TypeOK, Quiet, HeartbeatsEnd, Swept, Marking, Entered, Held, Driving
<1>3. Owned' /\ Entered' /\ Driven' /\ Concluded' /\ Marking' /\ Swept' /\ HeartbeatsEnd'
  BY <1>1, <1>2 DEF Owned, Entered, Driven, Concluded, Marking, Swept,
                    HeartbeatsEnd, Held
<1>4. Quiet'
  BY <1>1, <1>2 DEF IInv, Quiet
<1>5. Adopting'
  <2>1. CASE Restart \/ Adopted \/ Announced \/ AnnounceRaises
    BY <2>1 DEF IInv, Adopting, Restart, Adopted, Announced, AnnounceRaises
  <2>2. CASE \E j \in Jobs : Adopt(j)
    BY <2>2 DEF IInv, TypeOK, Adopting, Adopt, Record
  <2>3. CASE \E j \in Jobs : Announce(j)
    BY <2>3 DEF IInv, Adopting, Announce
  <2>4. QED
    BY <2>1, <2>2, <2>3 DEF BootStep
<1>6. QED
  BY <1>3, <1>4, <1>5 DEF IInv

LEMMA StepInv ==
  ASSUME NoOverlap, IInv, [Next]_vars
  PROVE  IInv'
<1>1. TypeOK'
  BY StepType DEF IInv
<1>2. CASE \E r \in Runs : RunStep(r)
  BY <1>1, <1>2, RunStepInv
<1>3. CASE \E r \in Runs : PullTick(r) \/ Heartbeat(r) \/ ChildStep(r) \/ KillStep(r)
  BY <1>1, <1>3, TickInv
<1>4. CASE RequestStep
  BY <1>1, <1>4, SubmitInv, CancelFlagInv
     DEF RequestStep, SubmitLow, Delete, NoOverlap
<1>5. CASE CancelMark
  BY <1>1, <1>5, CancelMarkInv
<1>6. CASE SweepStep
  BY <1>1, <1>6, SweepPickInv, SweepDropInv DEF SweepStep
<1>7. CASE Crash
  BY <1>1, <1>7, CrashInv
<1>8. CASE BootStep
  BY <1>1, <1>8, BootInv
<1>9. CASE UNCHANGED vars
  BY <1>1, <1>9, FrameInv DEF vars, core, server, maps
<1>10. QED
  BY <1>2, <1>3, <1>4, <1>5, <1>6, <1>7, <1>8, <1>9 DEF Next

(* The strengthening behind the theorems below: who owns which record,     *)
(* and what it may say, at every point of every interleaving.              *)
THEOREM InvCorrect == ASSUME NoOverlap PROVE Spec => []IInv
<1>1. Init => IInv
  BY InitInv
<1>2. IInv /\ [Next]_vars => IInv'
  BY StepInv
<1>3. QED
  BY <1>1, <1>2, PTL DEF Spec
-----------------------------------------------------------------------------
(* JobRunner._records: as long as no two runs of a job overlap, the record *)
(* a coroutine writes, the one a cancel finds and the one on disk are the  *)
(* same record, in every interleaving with cancels, heartbeats, sweeps,    *)
(* crashes and restarts.                                                   *)
THEOREM OneRecordCorrect == ASSUME NoOverlap PROVE Spec => []OneRecord
<1>1. IInv => OneRecord
  BY DEF IInv, Owned, Driven, OneRecord, Held
<1>2. QED
  BY <1>1, InvCorrect, PTL
-----------------------------------------------------------------------------
(* The ends of runs: whatever happens next, they stay.                     *)
EndsStay == \A j \in Jobs :
  disk[j].state \in TerminalStates => disk'[j].state = disk[j].state

(* Writes of a run that drives its job concern a record that is not over.  *)
LEMMA DrivingEndsStay ==
  ASSUME IInv, NEW r \in Runs, pc[r] \in Driving, NEW rec, Save(r, rec)
  PROVE  EndsStay
<1>1. disk[job[r]].state \notin TerminalStates
  BY DEF IInv, Driven, LiveStates, TerminalStates
<1>2. \A j \in Jobs : j # job[r] => disk'[j] = disk[j]
  BY DEF IInv, TypeOK, Save
<1>3. QED
  BY <1>1, <1>2 DEF EndsStay

LEMMA RunEndsStay ==
  ASSUME IInv, NoOverlap, "raise" \notin Env, NEW r \in Runs, RunStep(r)
  PROVE  EndsStay
<1> USE DEF Held, Driving
<1>1. CASE Weighed(r) \/ Refuse(r)
  BY <1>1 DEF IInv, Quiet, Weighed, Refuse
<1>2. CASE BeginLocal(r) \/ Pulled(r) \/ BeginUrl(r) \/ Sized(r)
  BY <1>2, DrivingEndsStay DEF BeginLocal, Pulled, BeginUrl, Sized, Launch, Downloading
<1>3. CASE StageFails(r) \/ ReapConcludes(r) \/ ReapUploads(r) \/ Uploaded(r)
             \/ Aborted(r)
  BY <1>3, DrivingEndsStay
  DEF StageFails, ReapConcludes, ReapUploads, Resumed, Uploaded, Aborted, Fail, Conclude
<1>4. CASE BeginR2(r) \/ ReapMisses(r) \/ UploadFails(r) \/ Tell(r)
             \/ ReclaimNothing(r) \/ ReclaimFiles(r) \/ ReclaimFails(r) \/ TellFailure(r)
  BY <1>4 DEF EndsStay, BeginR2, ReapMisses, UploadFails, Tell, ReclaimNothing,
              ReclaimFiles, ReclaimFails, TellFailure
<1>5. CASE TellRaises(r)
  BY <1>5 DEF TellRaises
<1>6. CASE ReclaimNoted(r)
  <2>1. /\ disk' = [disk EXCEPT ![job[r]] = mem[r]]
        /\ disk[job[r]].state = mem[r].state
    BY <1>6 DEF ReclaimNoted, IInv, Concluded
  <2>2. QED
    BY <2>1 DEF EndsStay, IInv, TypeOK
<1>7. QED
  BY <1>1, <1>2, <1>3, <1>4, <1>5, <1>6 DEF RunStep

(* A cancel writes the record it found, which is over if the one on disk is.*)
LEMMA WriteEndsStay ==
  ASSUME IInv, "raise" \notin Env, NEW j \in Jobs, NEW rec, Write(j, rec),
         Current(j).state \in TerminalStates => rec.state = Current(j).state
  PROVE  EndsStay
<1>1. disk' = [disk EXCEPT ![j] = rec]
  BY DEF Write
<1>2. disk[j].state \in TerminalStates =>
        Current(j).state \in TerminalStates /\ Current(j).state = disk[j].state
  <2>1. CASE Shared(j)
    BY <2>1, CurrentFacts DEF IInv, Concluded, Driven, LiveStates, TerminalStates
  <2>2. CASE ~Shared(j)
    BY <2>2, CurrentFacts
  <2>3. QED
    BY <2>1, <2>2
<1>3. QED
  BY <1>1, <1>2 DEF EndsStay, IInv, TypeOK

LEMMA StepEndsStay ==
  ASSUME IInv, NoOverlap, "raise" \notin Env, [Next]_vars
  PROVE  EndsStay
<1>1. CASE \E r \in Runs : RunStep(r)
  BY <1>1, RunEndsStay
<1>2. CASE \E r \in Runs : PullTick(r) \/ Heartbeat(r)
  <2>1. PICK r \in Runs : PullTick(r) \/ Heartbeat(r)
    BY <1>2
  <2>2. pc[r] \in Driving
    BY <2>1 DEF PullTick, Heartbeat, IInv, HeartbeatsEnd, Driving
  <2>3. disk' = disk \/ disk' = [disk EXCEPT ![job[r]] = mem[r]]
    BY <2>1 DEF PullTick, Heartbeat
  <2>4. disk' = disk
    BY <2>2, <2>3 DEF IInv, TypeOK, Driven
  <2>5. QED
    BY <2>4 DEF EndsStay
<1>3. CASE \E r \in Runs : ChildStep(r) \/ KillStep(r)
  BY <1>3 DEF EndsStay, ChildStep, ChildEnds, ChildDies, KillStep, KillSeen, KillInsists
<1>4. CASE RequestStep
  <2>1. CASE \E j \in Jobs, r \in Runs : Submit(j, r)
    BY <2>1 DEF Submit, Admissible, Accept, EndsStay, IInv, TypeOK, TerminalStates
  <2>2. CASE \E j \in Jobs : CancelFlag(j)
    <3>1. PICK j \in Jobs : CancelFlag(j)
      BY <2>2
    <3>2. [Current(j) EXCEPT !.cancelRequested = TRUE].state = Current(j).state
      BY CurrentType DEF IInv, Record
    <3>3. QED
      BY <3>1, <3>2, WriteEndsStay DEF CancelFlag
  <2>3. QED
    BY <1>4, <2>1, <2>2 DEF RequestStep, SubmitLow, Delete, NoOverlap
<1>5. CASE CancelMark
  <2>1. mid \in Jobs /\ mid # NoJob
    BY <1>5, ServerAssumption DEF CancelMark
  <2>2. Current(mid).state \notin TerminalStates
    BY <2>1 DEF IInv, Marking, LiveStates, TerminalStates
  <2>3. QED
    BY <1>5, <2>1, <2>2, WriteEndsStay DEF CancelMark
<1>6. CASE SweepStep
  <2>1. PICK j \in Jobs : SweepPick(j) \/ SweepDrop(j)
    BY <1>6 DEF SweepStep
  <2>2. \/ disk' = disk
        \/ disk' = [disk EXCEPT ![j] = stale[j]] /\ stale[j] # Absent
    BY <2>1 DEF SweepPick, SweepDrop
  <2>3. QED
    BY <2>2 DEF EndsStay, IInv, TypeOK, Swept
<1>7. CASE Crash
  BY <1>7 DEF Crash, EndsStay
<1>8. CASE BootStep
  <2>1. CASE \E j \in Jobs : Adopt(j)
    BY <2>1 DEF Adopt, Orphaned, IsLive, EndsStay, IInv, TypeOK, LiveStates, TerminalStates
  <2>2. QED
    BY <1>8, <2>1 DEF BootStep, Restart, Adopted, Announce, AnnounceRaises, Announced,
                      EndsStay
<1>9. CASE UNCHANGED vars
  BY <1>9 DEF vars, EndsStay
<1>10. QED
  BY <1>1, <1>2, <1>3, <1>4, <1>5, <1>6, <1>7, <1>8, <1>9 DEF Next

(* store.LIVE_STATES, "anything else is final": without overlapping runs   *)
(* and with a notifier that never raises, an end that was recorded is      *)
(* never rewritten, whoever else writes the record.                        *)
THEOREM TerminalIsFinalCorrect ==
  ASSUME NoOverlap, "raise" \notin Env
  PROVE  Spec => TerminalIsFinal
<1>1. IInv /\ [Next]_vars => [EndsStay]_disk
  BY StepEndsStay
<1>2. QED
  BY <1>1, InvCorrect, PTL DEF Spec, TerminalIsFinal, EndsStay
-----------------------------------------------------------------------------
(* A heartbeat never posts an end.                                         *)
LEMMA HeartbeatPosts ==
  ASSUME IInv, NEW r \in Runs, Heartbeat(r)
  PROVE  /\ job[r] \in Jobs
         /\ \A j \in Jobs : j # job[r] => heard'[j] = heard[j]
         /\ heard'[job[r]] \notin TerminalStates
<1>1. pc[r] \in Held /\ pc[r] \in Driving
  BY DEF Heartbeat, IInv, HeartbeatsEnd, Held, Driving
<1>2. job[r] \in Jobs /\ r # NoRun /\ recOf[job[r]] = r
  BY <1>1, HeldKnown DEF IInv, Owned
<1>3. mem[r].state \in LiveStates \cup {"canceling"}
  BY <1>1 DEF IInv, Driven
<1>4. mem[r].state # "absent" /\ mem[r].state \notin TerminalStates
  BY <1>3 DEF LiveStates, TerminalStates
<1>5. heard' = [heard EXCEPT ![job[r]] = mem[r].state]
  BY <1>2, <1>4 DEF Heartbeat
<1>6. QED
  BY <1>2, <1>4, <1>5 DEF IInv, TypeOK

LEMMA HeardStep ==
  ASSUME IInv, NoOverlap, "raise" \notin Env, HeardIsDisk, [Next]_vars
  PROVE  HeardIsDisk'
<1>1. EndsStay
  BY StepEndsStay
<1>2. ASSUME NEW k \in Jobs, \A j \in Jobs : j # k => heard'[j] = heard[j],
             \/ heard'[k] = heard[k]
             \/ heard'[k] \notin TerminalStates
             \/ heard'[k] = disk'[k].state
      PROVE  HeardIsDisk'
  BY <1>1, <1>2 DEF HeardIsDisk, EndsStay
<1>3. CASE heard' = heard
  BY <1>1, <1>3 DEF HeardIsDisk, EndsStay
<1>4. CASE \E r \in Runs : Tell(r) \/ TellFailure(r)
  <2>1. PICK r \in Runs : Tell(r) \/ TellFailure(r)
    BY <1>4
  <2>2. pc[r] \in Held \ Driving
    BY <2>1 DEF Tell, TellFailure, Held, Driving
  <2>3. job[r] \in Jobs /\ disk[job[r]].state = mem[r].state
    BY <2>2, HeldKnown DEF IInv, Concluded
  <2>4. disk' = disk /\ (heard' = heard \/ heard' = [heard EXCEPT ![job[r]] = mem[r].state])
    BY <2>1 DEF Tell, TellFailure
  <2>5. /\ \A j \in Jobs : j # job[r] => heard'[j] = heard[j]
        /\ heard'[job[r]] = heard[job[r]] \/ heard'[job[r]] = disk'[job[r]].state
    BY <2>3, <2>4 DEF IInv, TypeOK
  <2>6. QED
    BY <1>2, <2>3, <2>5
<1>5. CASE \E r \in Runs : Heartbeat(r)
  BY <1>2, <1>5, HeartbeatPosts
<1>6. CASE \E j \in Jobs : Announce(j)
  <2>1. PICK j \in Jobs : Announce(j)
    BY <1>6
  <2>2. disk' = disk /\ disk[j].state = "interrupted"
    BY <2>1 DEF Announce, IInv, Adopting
  <2>3. heard' = heard \/ heard' = [heard EXCEPT ![j] = "interrupted"]
    BY <2>1 DEF Announce
  <2>4. /\ \A i \in Jobs : i # j => heard'[i] = heard[i]
        /\ heard'[j] = heard[j] \/ heard'[j] = disk'[j].state
    BY <2>2, <2>3 DEF IInv, TypeOK
  <2>5. QED
    BY <1>2, <2>4
<1>7. CASE \E r \in Runs : RunStep(r) /\ ~Tell(r) /\ ~TellFailure(r)
  <2>1. heard' = heard
    BY <1>7
    DEF RunStep, Weighed, Refuse, Accept, BeginLocal, BeginUrl, BeginR2, Sized, Pulled,
        Launch, Downloading, StageFails, Fail, ReapConcludes, ReapUploads, ReapMisses,
        Conclude, Uploaded, UploadFails, Aborted, TellRaises, ReclaimNothing,
        ReclaimFiles, ReclaimNoted, ReclaimFails
  <2>2. QED
    BY <1>3, <2>1
<1>8. CASE \E r \in Runs : PullTick(r) \/ ChildStep(r) \/ KillStep(r)
  BY <1>3, <1>8 DEF PullTick, ChildStep, ChildEnds, ChildDies, KillStep, KillSeen,
                    KillInsists
<1>9. CASE RequestStep \/ CancelMark \/ SweepStep
  BY <1>3, <1>9 DEF RequestStep, Submit, SubmitLow, Accept, CancelFlag, Delete, CancelMark,
                    SweepStep, SweepPick, SweepDrop
<1>10. CASE Crash \/ Restart \/ Adopted \/ Announced \/ AnnounceRaises
            \/ \E j \in Jobs : Adopt(j)
  BY <1>3, <1>10 DEF Crash, Restart, Adopted, Announced, AnnounceRaises, Adopt
<1>11. CASE UNCHANGED vars
  BY <1>3, <1>11 DEF vars
<1>12. QED
  BY <1>4, <1>5, <1>6, <1>7, <1>8, <1>9, <1>10, <1>11 DEF Next, BootStep

(* The control plane never hears two ends of a job, nor one the record on  *)
(* the pod does not bear out, however many events are lost.                *)
THEOREM HeardIsDiskCorrect ==
  ASSUME NoOverlap, "raise" \notin Env
  PROVE  Spec => []HeardIsDisk
<1>1. Init => HeardIsDisk
  BY DEF Init, HeardIsDisk, TerminalStates
<1>2. IInv /\ HeardIsDisk /\ [Next]_vars => HeardIsDisk'
  BY HeardStep
<1>3. QED
  BY <1>1, <1>2, InvCorrect, PTL DEF Spec
-----------------------------------------------------------------------------
(* Wanted runs are for different jobs, each of them live on disk.          *)
LEMMA WorkingBound ==
  ASSUME IInv, IsFiniteSet(Jobs)
  PROVE  LET LiveJobs == {j \in Jobs : IsLive(disk[j])}
         IN  /\ IsFiniteSet(Working)
             /\ IsFiniteSet(LiveJobs)
             /\ Cardinality(Working) <= Cardinality(LiveJobs)
<1> DEFINE LiveJobs == {j \in Jobs : IsLive(disk[j])}
           f == [r \in Working |-> job[r]]
<1>1. IsFiniteSet(LiveJobs)
  BY FS_Subset
<1>2. \A r \in Working : r \in Runs /\ pc[r] \in Held /\ pc[r] \in Driving
  BY DEF Working, Held
<1>3. \A r \in Working : job[r] \in LiveJobs
  <2> SUFFICES ASSUME NEW r \in Working PROVE job[r] \in LiveJobs
    OBVIOUS
  <2>1. job[r] \in Jobs /\ disk[job[r]] = mem[r]
    BY <1>2, HeldKnown DEF IInv, Driven
  <2>2. mem[r].state \in LiveStates
    BY <1>2 DEF IInv, Driven, Working
  <2>3. QED
    BY <2>1, <2>2 DEF IsLive
<1>4. \A r, s \in Working : job[r] = job[s] => r = s
  BY <1>2, HeldApart
<1>5. f \in Injection(Working, LiveJobs)
  BY <1>3, <1>4 DEF Injection, IsInjective
<1>6. QED
  BY <1>1, <1>5, FS_Injection

(* Only the acceptance of a submission adds to the wanted runs.            *)
LEMMA WorkingShrinks ==
  ASSUME IInv, NoOverlap, [Next]_vars,
         ~ \E j \in Jobs, r \in Runs : Submit(j, r)
  PROVE  Working' \subseteq Working
<1> SUFFICES ASSUME NEW r \in Runs, pc'[r] \in Driving, ~mem'[r].cancelRequested
             PROVE  pc[r] \in Driving /\ ~mem[r].cancelRequested
  BY DEF Working
<1>1. CASE \E s \in Runs : RunStep(s)
  <2>1. PICK s \in Runs : RunStep(s)
    BY <1>1
  <2>2. CASE s # r
    <3>1. pc'[r] = pc[r] /\ mem'[r] = mem[r]
      BY <2>1, <2>2
      DEF IInv, TypeOK, Quiet, RunStep, Weighed, Refuse, BeginLocal, BeginUrl, BeginR2,
          Sized, Pulled, Launch, Downloading, StageFails, Fail, ReapConcludes,
          ReapUploads, ReapMisses, Conclude, Uploaded, UploadFails, Aborted, Tell,
          TellRaises, TellFailure, ReclaimNothing, ReclaimFiles, ReclaimNoted,
          ReclaimFails, Finish, Save
    <3>2. QED
      BY <3>1
  <2>3. CASE s = r
    <3>1. pc[r] \in Driving
      BY <2>1, <2>3
      DEF IInv, TypeOK, Quiet, Driving, RunStep, Weighed, Refuse, BeginLocal, BeginUrl,
          BeginR2, Sized, Pulled, Launch, Downloading, StageFails, Fail, ReapConcludes,
          ReapUploads, ReapMisses, Conclude, Resumed, Uploaded, UploadFails, Aborted, Tell,
          TellRaises, TellFailure, ReclaimNothing, ReclaimFiles, ReclaimNoted,
          ReclaimFails, Finish, Save
    <3>2. mem'[r].cancelRequested = mem[r].cancelRequested
      BY <2>1, <2>3
      DEF IInv, TypeOK, Record, Quiet, Driving, RunStep, Weighed, Refuse, BeginLocal,
          BeginUrl, BeginR2, Sized, Pulled, Launch, Downloading, StageFails, Fail,
          ReapConcludes, ReapUploads, ReapMisses, Conclude, Resumed, Uploaded,
          UploadFails, Aborted, Tell, TellRaises, TellFailure, ReclaimNothing,
          ReclaimFiles, ReclaimNoted, ReclaimFails, Finish, Save
    <3>3. QED
      BY <3>1, <3>2
  <2>4. QED
    BY <2>2, <2>3
<1>2. CASE \E s \in Runs : PullTick(s) \/ Heartbeat(s) \/ ChildStep(s) \/ KillStep(s)
  BY <1>2 DEF PullTick, Heartbeat, ChildStep, ChildEnds, ChildDies, KillStep, KillSeen,
              KillInsists
<1>3. CASE \E j \in Jobs : CancelFlag(j)
  <2>1. PICK j \in Jobs : CancelFlag(j)
    BY <1>3
  <2>2. pc' = pc /\ Current(j) \in Record
    BY <2>1, CurrentType DEF CancelFlag, IInv
  <2>3. mem' = mem \/ mem' = [mem EXCEPT ![recOf[j]] =
                                [Current(j) EXCEPT !.cancelRequested = TRUE]]
    BY <2>1 DEF CancelFlag, Write
  <2>4. mem'[r] = mem[r] \/ mem'[r].cancelRequested
    BY <2>2, <2>3 DEF IInv, TypeOK, Record
  <2>5. QED
    BY <2>2, <2>4
<1>4. CASE CancelMark
  <2>1. mid \in Jobs /\ mid # NoJob /\ pc' = pc
    BY <1>4, ServerAssumption DEF CancelMark
  <2>2. Current(mid) \in Record /\ Current(mid).cancelRequested
    BY <2>1, CurrentType DEF IInv, Marking
  <2> DEFINE rec == [Current(mid) EXCEPT
                       !.state = IF IsLive(Current(mid)) THEN "canceling" ELSE @]
  <2>3. rec.cancelRequested
    BY <2>2 DEF Record
  <2>4. mem' = mem \/ mem' = [mem EXCEPT ![recOf[mid]] = rec]
    BY <1>4 DEF CancelMark, Write
  <2> HIDE DEF rec
  <2>5. mem'[r] = mem[r] \/ mem'[r].cancelRequested
    BY <2>3, <2>4 DEF IInv, TypeOK
  <2>6. QED
    BY <2>1, <2>5
<1>5. CASE SweepStep
  BY <1>5 DEF SweepStep, SweepPick, SweepDrop
<1>6. CASE Crash
  BY <1>6 DEF Crash, Driving
<1>7. CASE BootStep
  BY <1>7 DEF BootStep, Restart, Adopt, Adopted, Announce, AnnounceRaises, Announced
<1>8. CASE UNCHANGED vars
  BY <1>8 DEF vars
<1>9. QED
  BY <1>1, <1>2, <1>3, <1>4, <1>5, <1>6, <1>7, <1>8
  DEF Next, RequestStep, SubmitLow, Delete, NoOverlap

LEMMA SlotsStep ==
  ASSUME IInv, NoOverlap, IsFiniteSet(Jobs), SlotsRespected, [Next]_vars
  PROVE  SlotsRespected'
<1> DEFINE LiveJobs == {j \in Jobs : IsLive(disk[j])}
<1>1. /\ IsFiniteSet(Working) /\ IsFiniteSet(LiveJobs)
      /\ Cardinality(Working) <= Cardinality(LiveJobs)
  BY WorkingBound
<1>2. /\ Cardinality(Working) \in Nat /\ Cardinality(LiveJobs) \in Nat
      /\ MaxConcurrent \in Nat
  BY <1>1, FS_CardinalityType, ServerAssumption
<1>3. CASE \E j \in Jobs, r \in Runs : Submit(j, r)
  <2>1. PICK j \in Jobs, r \in Runs : Submit(j, r)
    BY <1>3
  <2>2. ~(Cardinality(LiveJobs) >= MaxConcurrent)
    BY <2>1 DEF Submit, Admissible, AtCapacity
  <2>3. Working' \subseteq Working \cup {r}
    BY <2>1 DEF Working, Submit, Accept, IInv, TypeOK
  <2>4. /\ IsFiniteSet(Working \cup {r})
        /\ Cardinality(Working \cup {r}) <= Cardinality(Working) + 1
    <3>1. r \notin Working
      BY <2>1 DEF Working, Submit, Driving
    <3>2. /\ IsFiniteSet(Working \cup {r})
          /\ Cardinality(Working \cup {r}) = Cardinality(Working) + 1
      BY <1>1, <3>1, FS_AddElement
    <3>3. QED
      BY <1>2, <3>2
  <2>5. IsFiniteSet(Working') /\ Cardinality(Working') <= Cardinality(Working \cup {r})
    BY <2>3, <2>4, FS_Subset
  <2>6. Cardinality(Working') \in Nat /\ Cardinality(Working \cup {r}) \in Nat
    BY <2>4, <2>5, FS_CardinalityType
  <2> HIDE DEF LiveJobs
  <2>7. QED
    BY <1>1, <1>2, <2>2, <2>4, <2>5, <2>6 DEF SlotsRespected
<1>4. CASE ~ \E j \in Jobs, r \in Runs : Submit(j, r)
  <2>1. Working' \subseteq Working
    BY <1>4, WorkingShrinks
  <2>2. IsFiniteSet(Working') /\ Cardinality(Working') <= Cardinality(Working)
    BY <1>1, <2>1, FS_Subset
  <2>3. Cardinality(Working') \in Nat
    BY <2>2, FS_CardinalityType
  <2>4. QED
    BY <1>2, <2>2, <2>3 DEF SlotsRespected
<1>5. QED
  BY <1>3, <1>4

(* The 409 of POST /jobs: counting live records on disk is enough to keep  *)
(* the runs somebody still wants within the pod's slots.                   *)
THEOREM SlotsRespectedCorrect ==
  ASSUME NoOverlap, IsFiniteSet(Jobs)
  PROVE  Spec => []SlotsRespected
<1>1. Init => SlotsRespected
  <2> SUFFICES ASSUME Init PROVE SlotsRespected
    OBVIOUS
  <2>1. Working = {}
    BY DEF Init, Working, Driving
  <2>2. QED
    BY <2>1, FS_EmptySet, ServerAssumption DEF SlotsRespected
<1>2. IInv /\ SlotsRespected /\ [Next]_vars => SlotsRespected'
  BY SlotsStep
<1>3. QED
  BY <1>1, <1>2, InvCorrect, PTL DEF Spec
-----------------------------------------------------------------------------
(***************************************************************************)
(* Cancellation: a run that was asked to stop before it had ended does not *)
(* end as one to be run again, and the files of a job nobody cancelled are *)
(* left alone while it moves.                                              *)
(***************************************************************************)
(* The flag stays with the run until it is gone, and no end it comes to is *)
(* an interruption.                                                        *)
Asked == \A r \in asked :
  /\ pc[r] # "unused"
  /\ pc[r] \in Held => mem[r].cancelRequested
  /\ mem[r].state # "interrupted"

(* The outcome kept across an upload is that of a finished output.         *)
Verdicts == \A r \in Runs :
  pc[r] \in {"uploading", "aborting"} => verdict[r] # "interrupted"

Cancels == Asked /\ Verdicts

LEMMA StateForInterrupted ==
  ASSUME NEW o \in Outcomes \cup {"none"}, o # "interrupted"
  PROVE  StateFor(o) # "interrupted"
BY DEF StateFor, Outcomes

(* _decide_outcome does not take a cancelled run for an interrupted one,   *)
(* whatever its report says and however it ended.                          *)
LEMMA CanceledOutcome ==
  ASSUME NEW report \in ReportKinds \cup {"none"}, NEW signalled \in BOOLEAN
  PROVE  DecideOutcome(TRUE, report, signalled) # "interrupted"
BY DEF DecideOutcome, ReportKinds

(* A step of a coroutine leaves the other runs alone.                      *)
LEMMA OthersStay ==
  ASSUME IInv, NEW r \in Runs, NEW s \in Runs, r # s, RunStep(s)
  PROVE  pc'[r] = pc[r] /\ mem'[r] = mem[r] /\ verdict'[r] = verdict[r]
BY DEF IInv, TypeOK, Quiet, RunStep, Weighed, Refuse, BeginLocal, BeginUrl, BeginR2,
       Sized, Pulled, Launch, Downloading, StageFails, Fail, ReapConcludes,
       ReapUploads, ReapMisses, Conclude, Uploaded, UploadFails, Aborted, Tell,
       TellRaises, TellFailure, ReclaimNothing, ReclaimFiles, ReclaimNoted,
       ReclaimFails, Finish, Save

LEMMA RunStepFrame ==
  ASSUME IInv, NEW s \in Runs, RunStep(s)
  PROVE  UNCHANGED <<job, killer, asked>> /\ pc'[s] # "unused"
BY DEF IInv, TypeOK, Quiet, RunStep, Weighed, Refuse, BeginLocal, BeginUrl, BeginR2,
       Sized, Pulled, Launch, Downloading, StageFails, Fail, ReapConcludes,
       ReapUploads, ReapMisses, Conclude, Uploaded, UploadFails, Aborted, Tell,
       TellRaises, TellFailure, ReclaimNothing, ReclaimFiles, ReclaimNoted,
       ReclaimFails, Finish

(* What a step of a run does to its own record and verdict, in four kinds: *)
(* it goes on driving, it ends, it is past its end, or it is gone.         *)
LEMMA OwnStep ==
  ASSUME IInv, Verdicts, NEW r \in Runs, RunStep(r)
  PROVE  /\ pc'[r] \in Driving =>
              /\ pc[r] \in Driving
              /\ mem'[r].cancelRequested = mem[r].cancelRequested
              /\ mem'[r].state # "interrupted"
         /\ pc'[r] \in {"uploading", "aborting"} => verdict'[r] # "interrupted"
         /\ pc'[r] \in Held => /\ pc[r] \in Held
                              /\ mem'[r].cancelRequested = mem[r].cancelRequested
         /\ \/ pc'[r] \in Driving
            \/ mem'[r].state = "interrupted" =>
                 \/ mem[r].state = "interrupted"
                 \/ pc[r] \in Driving /\ ~mem[r].cancelRequested
<1> DEFINE Goal ==
      /\ pc'[r] \in Driving =>
              /\ pc[r] \in Driving
              /\ mem'[r].cancelRequested = mem[r].cancelRequested
              /\ mem'[r].state # "interrupted"
      /\ pc'[r] \in {"uploading", "aborting"} => verdict'[r] # "interrupted"
      /\ pc'[r] \in Held => /\ pc[r] \in Held
                           /\ mem'[r].cancelRequested = mem[r].cancelRequested
      /\ \/ pc'[r] \in Driving
         \/ mem'[r].state = "interrupted" =>
              \/ mem[r].state = "interrupted"
              \/ pc[r] \in Driving /\ ~mem[r].cancelRequested
<1>a. mem[r] \in Record /\ mem[r].cancelRequested \in BOOLEAN
  BY DEF IInv, TypeOK, Record
<1> USE DEF Held
<1>b. pc[r] \in Driving => mem[r].state # "interrupted"
  BY DEF IInv, Driven, LiveStates
<1>1. CASE Weighed(r) \/ Refuse(r)
  BY <1>1 DEF IInv, Quiet, Weighed, Refuse
<1>2. CASE BeginLocal(r) \/ Pulled(r) \/ BeginUrl(r) \/ Sized(r)
  <2>1. /\ pc[r] \in Driving /\ pc'[r] \in {"watching", "pulling"}
        /\ \E s \in {"running", "downloading"} :
             mem' = [mem EXCEPT ![r] = [mem[r] EXCEPT !.state = s]]
    BY <1>2 DEF BeginLocal, Pulled, BeginUrl, Sized, Launch, Downloading, Save, Driving,
                IInv, TypeOK
  <2>2. mem'[r].cancelRequested = mem[r].cancelRequested /\ mem'[r].state # "interrupted"
    BY <1>a, <2>1 DEF IInv, TypeOK, Record
  <2>3. QED
    BY <2>1, <2>2 DEF Driving
<1>3. CASE BeginR2(r)
  BY <1>3, <1>b DEF BeginR2, IInv, TypeOK, Driving
<1>4. ASSUME NEW o \in Outcomes \cup {"none"}, NEW k \in BOOLEAN, Conclude(r, o, k),
             pc[r] \in Driving, o = "interrupted" => ~mem[r].cancelRequested
      PROVE  Goal
  <2>1. pc'[r] = "telling" /\ mem'[r] = [mem[r] EXCEPT !.state = StateFor(o), !.outputKey = k]
    BY <1>4 DEF Conclude, Save, IInv, TypeOK
  <2>2. mem'[r].state = StateFor(o)
    BY <1>a, <2>1 DEF Record
  <2>3. mem'[r].state = "interrupted" => ~mem[r].cancelRequested
    BY <1>4, <2>2, StateForInterrupted
  <2>4. mem'[r].cancelRequested = mem[r].cancelRequested
    BY <1>a, <2>1 DEF Record
  <2>5. QED
    BY <1>4, <2>1, <2>3, <2>4 DEF Driving
<1>5. ASSUME NEW o \in {"input_error", "internal"}, Fail(r, o),
             pc[r] \in Held
      PROVE  Goal
  <2>1. FailOutcome(r, o) \in Outcomes /\ FailOutcome(r, o) # "interrupted"
    BY DEF FailOutcome, Outcomes
  <2>2. /\ pc'[r] = "telling_failure"
        /\ mem'[r] = [mem[r] EXCEPT !.state = StateFor(FailOutcome(r, o))]
    BY <1>5 DEF Fail, Save, IInv, TypeOK
  <2>3. mem'[r].state # "interrupted"
    BY <1>a, <2>1, <2>2, StateForInterrupted DEF Record
  <2>4. mem'[r].cancelRequested = mem[r].cancelRequested
    BY <1>a, <2>2 DEF Record
  <2>5. QED
    BY <1>5, <2>2, <2>3, <2>4 DEF Driving
<1>6. CASE StageFails(r) \/ TellRaises(r)
  BY <1>5, <1>6 DEF StageFails, TellRaises, Driving
<1>7. CASE ReapConcludes(r)
  <2>1. Judged(r) \in Outcomes \cup {"none"}
    BY <1>7, JudgedType DEF ReapConcludes, Resumed, IInv
  <2>2. Judged(r) = "interrupted" => ~mem[r].cancelRequested
    <3>1. work[job[r]].report \in ReportKinds \cup {"none"}
      BY <1>7, JobKnown, ServerAssumption DEF ReapConcludes, Resumed, IInv, TypeOK, WorkDir
    <3>2. QED
      BY <1>a, <3>1, CanceledOutcome DEF Judged
  <2>3. QED
    BY <1>4, <1>7, <2>1, <2>2 DEF ReapConcludes, Resumed, Driving
<1>8. CASE ReapUploads(r)
  <2>1. /\ pc[r] = "watching" /\ pc'[r] = "uploading"
        /\ mem'[r] = [mem[r] EXCEPT !.state = "uploading"]
        /\ verdict'[r] \in Publishable
    BY <1>8 DEF ReapUploads, Resumed, Save, IInv, TypeOK
  <2>2. mem'[r].cancelRequested = mem[r].cancelRequested /\ mem'[r].state # "interrupted"
    BY <1>a, <2>1 DEF Record
  <2>3. QED
    BY <2>1, <2>2 DEF Driving, Publishable
<1>9. CASE ReapMisses(r)
  <2>1. /\ pc[r] = "watching" /\ pc'[r] = "aborting" /\ mem'[r] = mem[r]
        /\ \E o \in Publishable : verdict'[r] = UploadFailure(o)
    BY <1>9 DEF ReapMisses, Resumed, IInv, TypeOK
  <2>2. QED
    BY <1>b, <2>1 DEF Driving, Publishable, UploadFailure
<1>10. CASE UploadFails(r)
  <2>1. /\ pc[r] = "uploading" /\ pc'[r] = "aborting" /\ mem'[r] = mem[r]
        /\ verdict'[r] = UploadFailure(verdict[r])
    BY <1>10 DEF UploadFails, IInv, TypeOK
  <2>2. QED
    BY <1>b, <2>1 DEF Driving, Verdicts, UploadFailure
<1>11. CASE Uploaded(r) \/ Aborted(r)
  <2>1. verdict[r] \in Outcomes \cup {"none"} /\ verdict[r] # "interrupted"
        /\ pc[r] \in Driving
    BY <1>11 DEF Uploaded, Aborted, IInv, TypeOK, Verdicts, Driving
  <2>2. QED
    BY <1>4, <1>11, <2>1 DEF Uploaded, Aborted
<1>12. CASE Tell(r) \/ ReclaimFiles(r)
  BY <1>12 DEF Tell, ReclaimFiles, IInv, TypeOK, Driving
<1>13. CASE ReclaimNothing(r) \/ ReclaimNoted(r) \/ ReclaimFails(r) \/ TellFailure(r)
  <2>1. Finish(r)
    BY <1>13 DEF ReclaimNothing, ReclaimNoted, ReclaimFails, TellFailure
  <2>2. pc'[r] = "done" /\ mem'[r] = Absent
    BY <2>1 DEF Finish, IInv, TypeOK
  <2>3. QED
    BY <2>2 DEF Driving, Held, Absent
<1>14. QED
  BY <1>1, <1>2, <1>3, <1>6, <1>7, <1>8, <1>9, <1>10, <1>11, <1>12, <1>13 DEF RunStep

LEMMA CancelsStep ==
  ASSUME NoOverlap, IInv, Cancels, [Next]_vars
  PROVE  Cancels'
<1>1. CASE \E s \in Runs : RunStep(s)
  <2>1. PICK s \in Runs : RunStep(s)
    BY <1>1
  <2>2. UNCHANGED <<job, killer, asked>> /\ pc'[s] # "unused"
    BY <2>1, RunStepFrame
  <2>3. \A r \in Runs : r # s => /\ pc'[r] = pc[r] /\ mem'[r] = mem[r]
                                 /\ verdict'[r] = verdict[r]
    BY <2>1, OthersStay
  <2>4. asked \subseteq Runs
    BY DEF IInv, TypeOK
  <2>5. Verdicts'
    BY <2>1, <2>3, OwnStep DEF Cancels, Verdicts
  <2>6. Asked'
    <3> SUFFICES ASSUME NEW r \in asked
                 PROVE  /\ pc'[r] # "unused"
                        /\ pc'[r] \in Held => mem'[r].cancelRequested
                        /\ mem'[r].state # "interrupted"
      BY <2>2 DEF Asked
    <3>1. CASE r # s
      BY <2>3, <2>4, <3>1 DEF Cancels, Asked
    <3>2. CASE r = s
      BY <2>1, <2>2, <3>2, OwnStep DEF Cancels, Asked, Held
    <3>3. QED
      BY <3>1, <3>2
  <2>7. QED
    BY <2>5, <2>6 DEF Cancels
<1>2. CASE \E s \in Runs : PullTick(s) \/ Heartbeat(s) \/ ChildStep(s) \/ KillStep(s)
  BY <1>2 DEF Cancels, Asked, Verdicts, PullTick, Heartbeat, ChildStep, ChildEnds,
              ChildDies, KillStep, KillSeen, KillInsists
<1>3. CASE \E j \in Jobs, r \in Runs : Submit(j, r)
  <2>1. PICK j \in Jobs, r \in Runs : Submit(j, r)
    BY <1>3
  <2>2. /\ pc[r] = "unused" /\ pc'[r] = "accepted"
        /\ \A s \in Runs : s # r => pc'[s] = pc[s] /\ mem'[s] = mem[s]
        /\ UNCHANGED <<asked, verdict>>
    BY <2>1 DEF Submit, Accept, IInv, TypeOK
  <2>3. asked \subseteq Runs
    BY DEF IInv, TypeOK
  <2>4. QED
    BY <2>2, <2>3 DEF Cancels, Asked, Verdicts
<1>4. CASE \E j \in Jobs : CancelFlag(j)
  <2>1. PICK j \in Jobs : CancelFlag(j)
    BY <1>4
  <2> DEFINE rec == [Current(j) EXCEPT !.cancelRequested = TRUE]
  <2>2. Write(j, rec) /\ rec.cancelRequested /\ rec.state = Current(j).state
    BY <2>1, CurrentFacts DEF CancelFlag, Record
  <2> HIDE DEF rec
  <2>3. /\ asked' = asked \cup {r \in Runs : job[r] = j /\ pc[r] \in Driving}
        /\ UNCHANGED <<pc, verdict>>
    BY <2>1 DEF CancelFlag
  <2>4. \A s \in Runs : \/ mem'[s] = mem[s] /\ ~(Shared(j) /\ s = recOf[j])
                        \/ /\ Shared(j) /\ s = recOf[j] /\ mem'[s] = rec
                           /\ mem[s] = Current(j)
    BY <2>2 DEF Write, Current, Shared, IInv, TypeOK
  <2>5. ASSUME NEW r \in Runs, job[r] = j, pc[r] \in Driving
        PROVE  mem'[r].cancelRequested /\ mem'[r].state # "interrupted"
    <3>1. Shared(j) /\ recOf[j] = r
      BY <2>5, CurrentFacts DEF Held
    <3>2. mem'[r] = rec /\ mem[r] = Current(j)
      BY <2>4, <3>1
    <3>3. QED
      BY <2>2, <2>5, <3>2 DEF IInv, Driven, LiveStates
  <2>6. asked \subseteq Runs
    BY DEF IInv, TypeOK
  <2>7. ASSUME NEW r \in asked'
        PROVE  /\ pc'[r] # "unused"
               /\ pc'[r] \in Held => mem'[r].cancelRequested
               /\ mem'[r].state # "interrupted"
    <3>1. CASE r \in asked
      BY <2>2, <2>3, <2>4, <2>6, <3>1 DEF Cancels, Asked
    <3>2. CASE r \notin asked
      BY <2>3, <2>5, <2>7, <3>2 DEF Driving
    <3>3. QED
      BY <3>1, <3>2
  <2>8. QED
    BY <2>3, <2>7 DEF Cancels, Asked, Verdicts
<1>5. CASE CancelMark
  <2>1. mid \in Jobs /\ mid # NoJob
    BY <1>5, ServerAssumption DEF CancelMark
  <2> DEFINE rec == [Current(mid) EXCEPT
                       !.state = IF IsLive(Current(mid)) THEN "canceling" ELSE @]
  <2>2. /\ rec.cancelRequested
        /\ rec.state = "canceling" \/ rec.state = Current(mid).state
    BY <2>1, CurrentFacts DEF IInv, Marking, Record
  <2>3. Write(mid, rec) /\ UNCHANGED <<pc, verdict, asked>>
    BY <1>5 DEF CancelMark
  <2> HIDE DEF rec
  <2>4. \A s \in Runs : \/ mem'[s] = mem[s]
                        \/ mem'[s] = rec /\ mem[s] = Current(mid)
    BY <2>3 DEF Write, Current, Shared, IInv, TypeOK
  <2>5. asked \subseteq Runs
    BY DEF IInv, TypeOK
  <2>6. QED
    BY <2>2, <2>3, <2>4, <2>5 DEF Cancels, Asked, Verdicts
<1>6. CASE SweepStep
  BY <1>6 DEF Cancels, Asked, Verdicts, SweepStep, SweepPick, SweepDrop
<1>7. CASE Crash
  <2>1. \A r \in Runs : /\ pc'[r] \in {"unused", "done", "lost"}
                        /\ pc'[r] = "unused" => pc[r] = "unused"
                        /\ mem'[r] = Absent
    BY <1>7 DEF Crash, IInv, TypeOK
  <2>2. asked \subseteq Runs /\ asked' = asked
    BY <1>7 DEF Crash, IInv, TypeOK
  <2>3. QED
    BY <2>1, <2>2 DEF Cancels, Asked, Verdicts, Driving, Held, Absent
<1>8. CASE BootStep
  BY <1>8 DEF Cancels, Asked, Verdicts, BootStep, Restart, Adopt, Adopted, Announce,
              AnnounceRaises, Announced
<1>9. CASE UNCHANGED vars
  BY <1>9 DEF vars, Cancels, Asked, Verdicts
<1>10. QED
  BY <1>1, <1>2, <1>3, <1>4, <1>5, <1>6, <1>7, <1>8, <1>9
  DEF Next, RequestStep, SubmitLow, Delete, NoOverlap

-----------------------------------------------------------------------------
(* A record that is over, or whose cancellation was recorded.              *)
Spent(rec) == \/ rec.state \in TerminalStates
              \/ rec.state # "absent" /\ rec.cancelRequested

SpentStay == \A j \in Jobs : Spent(disk[j]) => Spent(disk'[j])

(* The entry in _procs is a run of the job, and a cancel that waits in     *)
(* _kill has left its mark on the record.                                  *)
Signalled == \A j \in Jobs : procOf[j] # NoRun => job[procOf[j]] = j

Killing == \A r \in Runs :
  killer[r] # "none" => job[r] \in Jobs /\ Spent(disk[job[r]])

Files == Signalled /\ Killing

LEMMA SaveSpent ==
  ASSUME IInv, NEW r \in Runs, NEW rec, Save(r, rec),
         job[r] \in Jobs /\ Spent(disk[job[r]]) => Spent(rec)
  PROVE  SpentStay
BY DEF IInv, TypeOK, Save, SpentStay

(* A run that goes on driving its job keeps the flag.                      *)
LEMMA DriveSpent ==
  ASSUME IInv, NEW r \in Runs, pc[r] \in Driving, NEW st \in LiveStates,
         Save(r, [mem[r] EXCEPT !.state = st])
  PROVE  SpentStay
<1> DEFINE rec == [mem[r] EXCEPT !.state = st]
<1>1. disk[job[r]] = mem[r] /\ mem[r].state \notin TerminalStates /\ mem[r] \in Record
  BY DEF IInv, TypeOK, Driven, LiveStates, TerminalStates
<1>2. rec.state = st /\ rec.cancelRequested = mem[r].cancelRequested
  BY <1>1 DEF Record
<1>3. st # "absent"
  BY DEF LiveStates
<1> HIDE DEF rec
<1>4. QED
  BY <1>1, <1>2, <1>3, SaveSpent DEF Spent, rec

LEMMA EndSpent ==
  ASSUME IInv, NEW r \in Runs, NEW o \in Outcomes \cup {"none"},
         \/ \E k \in BOOLEAN : Conclude(r, o, k)
         \/ o \in Outcomes /\ Fail(r, o)
  PROVE  SpentStay
<1>1. mem[r] \in Record
  BY DEF IInv, TypeOK
<1>2. FailOutcome(r, o) \in Outcomes \cup {"none"}
  BY DEF FailOutcome, Outcomes
<1>3. PICK rec : Save(r, rec) /\ rec.state \in TerminalStates
  <2>1. CASE \E k \in BOOLEAN : Conclude(r, o, k)
    <3>1. PICK k \in BOOLEAN : Conclude(r, o, k)
      BY <2>1
    <3>2. Save(r, [mem[r] EXCEPT !.state = StateFor(o), !.outputKey = k])
      BY <3>1 DEF Conclude
    <3>3. [mem[r] EXCEPT !.state = StateFor(o), !.outputKey = k].state = StateFor(o)
      BY <1>1 DEF Record
    <3>4. QED
      BY <3>2, <3>3, StateForTerminal
  <2>2. CASE Fail(r, o)
    <3>1. Save(r, [mem[r] EXCEPT !.state = StateFor(FailOutcome(r, o))])
      BY <2>2 DEF Fail
    <3>2. [mem[r] EXCEPT !.state = StateFor(FailOutcome(r, o))].state
            = StateFor(FailOutcome(r, o))
      BY <1>1 DEF Record
    <3>3. StateFor(FailOutcome(r, o)) \in TerminalStates
      BY <1>2, <2>2, StateForTerminal DEF FailOutcome, Outcomes
    <3>4. QED
      BY <3>1, <3>2, <3>3
  <2>3. QED
    BY <2>1, <2>2
<1>4. QED
  BY <1>3, SaveSpent DEF Spent

LEMMA RunSpent ==
  ASSUME IInv, NEW r \in Runs, RunStep(r)
  PROVE  SpentStay
<1> USE DEF Driving
<1>1. CASE Weighed(r) \/ Refuse(r)
  BY <1>1 DEF IInv, Quiet, Weighed, Refuse
<1>2. CASE BeginLocal(r) \/ Pulled(r) \/ BeginUrl(r) \/ Sized(r) \/ ReapUploads(r)
  <2>1. {"running", "downloading", "uploading"} \subseteq LiveStates
    BY DEF LiveStates
  <2>2. QED
    BY <1>2, <2>1, DriveSpent
    DEF BeginLocal, Pulled, BeginUrl, Sized, ReapUploads, Resumed, Launch, Downloading
<1>3. CASE StageFails(r) \/ TellRaises(r)
  BY <1>3, EndSpent DEF StageFails, TellRaises, Outcomes
<1>4. CASE ReapConcludes(r)
  BY <1>4, EndSpent, JudgedType DEF ReapConcludes, Resumed, IInv
<1>5. CASE Uploaded(r) \/ Aborted(r)
  BY <1>5, EndSpent DEF Uploaded, Aborted, IInv, TypeOK
<1>6. CASE BeginR2(r) \/ ReapMisses(r) \/ UploadFails(r) \/ Tell(r)
             \/ ReclaimNothing(r) \/ ReclaimFiles(r) \/ ReclaimFails(r) \/ TellFailure(r)
  BY <1>6 DEF SpentStay, BeginR2, ReapMisses, UploadFails, Tell, ReclaimNothing,
              ReclaimFiles, ReclaimFails, TellFailure
<1>7. CASE ReclaimNoted(r)
  <2>1. disk' = [disk EXCEPT ![job[r]] = mem[r]] /\ mem[r].state \in TerminalStates
    BY <1>7 DEF ReclaimNoted, IInv, Concluded, Held
  <2>2. QED
    BY <2>1 DEF SpentStay, Spent, IInv, TypeOK
<1>8. QED
  BY <1>1, <1>2, <1>3, <1>4, <1>5, <1>6, <1>7 DEF RunStep

LEMMA WriteSpent ==
  ASSUME IInv, NEW j \in Jobs, NEW rec, Write(j, rec), rec.cancelRequested,
         rec.state # "absent"
  PROVE  SpentStay /\ Spent(disk'[j])
BY DEF IInv, TypeOK, Write, SpentStay, Spent

(* Both writes of a cancel leave the flag on the record.                   *)
LEMMA CancelSpent ==
  ASSUME IInv, NEW j \in Jobs, CancelFlag(j) \/ (CancelMark /\ mid = j)
  PROVE  SpentStay /\ Spent(disk'[j]) /\ disk'[j].cancelRequested
<1>1. PICK rec : Write(j, rec) /\ rec.cancelRequested /\ rec.state # "absent"
  <2>1. CASE CancelFlag(j)
    <3> DEFINE rec == [Current(j) EXCEPT !.cancelRequested = TRUE]
    <3>1. Write(j, rec) /\ rec.cancelRequested /\ rec.state # "absent"
      BY <2>1, CurrentFacts DEF CancelFlag, Record
    <3>2. QED
      BY <3>1
  <2>2. CASE CancelMark /\ mid = j
    <3> DEFINE rec == [Current(mid) EXCEPT
                         !.state = IF IsLive(Current(mid)) THEN "canceling" ELSE @]
    <3>1. Current(mid).cancelRequested /\ Current(mid).state # "absent"
      BY <2>2, ServerAssumption DEF IInv, Marking, LiveStates
    <3>2. rec.cancelRequested /\ rec.state # "absent"
      BY <2>2, <3>1, CurrentFacts DEF Record
    <3>3. Write(j, rec)
      BY <2>2 DEF CancelMark
    <3>4. QED
      BY <3>2, <3>3
  <2>3. QED
    BY <2>1, <2>2
<1>2. disk'[j] = rec
  BY <1>1 DEF Write, IInv, TypeOK
<1>3. QED
  BY <1>1, <1>2, WriteSpent

LEMMA StepSpent ==
  ASSUME IInv, NoOverlap, [Next]_vars
  PROVE  SpentStay
<1>1. CASE \E r \in Runs : RunStep(r)
  BY <1>1, RunSpent
<1>2. CASE \E r \in Runs : PullTick(r) \/ Heartbeat(r)
  <2>1. PICK r \in Runs : PullTick(r) \/ Heartbeat(r)
    BY <1>2
  <2>2. pc[r] \in Driving
    BY <2>1 DEF PullTick, Heartbeat, IInv, HeartbeatsEnd, Driving
  <2>3. disk' = disk \/ disk' = [disk EXCEPT ![job[r]] = mem[r]]
    BY <2>1 DEF PullTick, Heartbeat
  <2>4. disk' = disk
    BY <2>2, <2>3 DEF IInv, TypeOK, Driven
  <2>5. QED
    BY <2>4 DEF SpentStay
<1>3. CASE \E r \in Runs : ChildStep(r) \/ KillStep(r)
  BY <1>3 DEF SpentStay, ChildStep, ChildEnds, ChildDies, KillStep, KillSeen, KillInsists
<1>4. CASE RequestStep
  <2>1. CASE \E j \in Jobs, r \in Runs : Submit(j, r)
    <3>1. PICK j \in Jobs : disk[j].state = "absent" /\ disk' = [disk EXCEPT ![j] = Created]
      BY <2>1 DEF Submit, Admissible, Accept
    <3>2. ~Spent(disk[j])
      BY <3>1 DEF Spent, TerminalStates
    <3>3. QED
      BY <3>1, <3>2 DEF SpentStay, IInv, TypeOK
  <2>2. QED
    BY <1>4, <2>1, CancelSpent DEF RequestStep, SubmitLow, Delete, NoOverlap
<1>5. CASE CancelMark
  BY <1>5, CancelSpent DEF CancelMark
<1>6. CASE SweepStep
  <2>1. PICK j \in Jobs : SweepPick(j) \/ SweepDrop(j)
    BY <1>6 DEF SweepStep
  <2>2. \/ disk' = disk
        \/ disk' = [disk EXCEPT ![j] = stale[j]] /\ stale[j] # Absent
    BY <2>1 DEF SweepPick, SweepDrop
  <2>3. QED
    BY <2>2 DEF SpentStay, Spent, IInv, TypeOK, Swept
<1>7. CASE Crash
  BY <1>7 DEF Crash, SpentStay
<1>8. CASE BootStep
  <2>1. CASE \E j \in Jobs : Adopt(j)
    BY <2>1 DEF Adopt, SpentStay, Spent, IInv, TypeOK, Record, TerminalStates
  <2>2. QED
    BY <1>8, <2>1 DEF BootStep, Restart, Adopted, Announce, AnnounceRaises, Announced,
                      SpentStay
<1>9. CASE UNCHANGED vars
  BY <1>9 DEF vars, SpentStay
<1>10. QED
  BY <1>1, <1>2, <1>3, <1>4, <1>5, <1>6, <1>7, <1>8, <1>9 DEF Next

(* A job is submitted once, and its record stays: no two runs are of one.  *)
Once == /\ \A r \in Runs : job[r] # NoJob => disk[job[r]].state # "absent"
        /\ \A r, s \in Runs : job[r] # NoJob /\ job[r] = job[s] => r = s

(* What the record of a cancelled run says: the flag, and, unless the      *)
(* server died under it, no interruption; once the run is gone, an end.    *)
Recalled(r, rec) == /\ rec.cancelRequested
                    /\ pc[r] # "lost" => rec.state # "interrupted"
                    /\ pc[r] = "done" => ~IsLive(rec)

(* So says the document, and so does the copy a sweep has of it.           *)
OnRecord == \A r \in asked :
  /\ Recalled(r, disk[job[r]])
  /\ stale[job[r]] # Absent => Recalled(r, stale[job[r]])

(* What a step of a coroutine writes: its record, as it has it then.       *)
LEMMA RunWrites ==
  ASSUME IInv, NEW r \in Runs, RunStep(r)
  PROVE  /\ pc[r] \in Held
         /\ pc'[r] \in Held \/ (pc'[r] = "done" /\ pc[r] \in Held \ Driving)
         /\ stale' = stale
         /\ \A j \in Jobs : j # job[r] => disk'[j] = disk[j]
         /\ \/ disk'[job[r]] = disk[job[r]]
            \/ disk'[job[r]] = mem'[r] /\ pc'[r] \in Held
            \/ disk'[job[r]] = mem[r] /\ pc[r] \in Held \ Driving
<1> USE DEF Held, Driving
<1>1. CASE Weighed(r) \/ Refuse(r)
  BY <1>1 DEF IInv, Quiet, Weighed, Refuse
<1>2. ASSUME NEW rec, Save(r, rec), pc[r] \in Held, pc'[r] \in Held, stale' = stale
      PROVE  /\ \A j \in Jobs : j # job[r] => disk'[j] = disk[j]
             /\ disk'[job[r]] = mem'[r]
  BY <1>2, HeldKnown DEF IInv, TypeOK, Save
<1>3. CASE BeginLocal(r) \/ Pulled(r) \/ BeginUrl(r) \/ Sized(r)
  BY <1>2, <1>3 DEF BeginLocal, Pulled, BeginUrl, Sized, Launch, Downloading, IInv, TypeOK
<1>4. CASE StageFails(r) \/ ReapConcludes(r) \/ ReapUploads(r) \/ Uploaded(r)
             \/ Aborted(r) \/ TellRaises(r)
  BY <1>2, <1>4
  DEF StageFails, ReapConcludes, ReapUploads, Resumed, Uploaded, Aborted, TellRaises,
      Fail, Conclude, IInv, TypeOK
<1>5. CASE BeginR2(r) \/ ReapMisses(r) \/ UploadFails(r) \/ Tell(r)
             \/ ReclaimNothing(r) \/ ReclaimFiles(r) \/ ReclaimFails(r) \/ TellFailure(r)
  BY <1>5
  DEF BeginR2, ReapMisses, Resumed, UploadFails, Tell, ReclaimNothing, ReclaimFiles,
      ReclaimFails, TellFailure, Finish, IInv, TypeOK
<1>6. CASE ReclaimNoted(r)
  BY <1>6, HeldKnown DEF ReclaimNoted, Finish, IInv, TypeOK
<1>7. QED
  BY <1>1, <1>3, <1>4, <1>5, <1>6 DEF RunStep

LEMMA JobsKnown ==
  ASSUME IInv, NEW r \in Runs, job[r] # NoJob
  PROVE  job[r] \in Jobs
BY DEF IInv, TypeOK

(* A record is on disk for good: nothing is deleted.                       *)
LEMMA KnownStep ==
  ASSUME NoOverlap, IInv, [Next]_vars
  PROVE  \A j \in Jobs : disk[j].state # "absent" => disk'[j].state # "absent"
<1> DEFINE Goal == \A j \in Jobs : disk[j].state # "absent" => disk'[j].state # "absent"
<1>0. IInv'
  BY StepInv
<1>a. "absent" \notin LiveStates \cup TerminalStates \cup {"canceling"}
  BY DEF LiveStates, TerminalStates
<1>1. CASE \E r \in Runs : RunStep(r)
  <2>1. PICK r \in Runs : RunStep(r)
    BY <1>1
  <2>2. job'[r] = job[r]
    BY <2>1, RunStepFrame
  <2>3. pc'[r] \in Held => disk'[job[r]].state # "absent"
    BY <1>0, <1>a, <2>2 DEF IInv, Driven, Concluded
  <2>4. pc[r] \in Held \ Driving => mem[r].state # "absent"
    BY <1>a DEF IInv, Concluded
  <2>5. QED
    BY <2>1, <2>3, <2>4, RunWrites
<1>2. CASE \E r \in Runs : PullTick(r) \/ Heartbeat(r)
  <2>1. PICK r \in Runs : PullTick(r) \/ Heartbeat(r)
    BY <1>2
  <2>2. pc[r] \in Driving
    BY <2>1 DEF PullTick, Heartbeat, IInv, HeartbeatsEnd, Driving
  <2>3. disk' = disk \/ disk' = [disk EXCEPT ![job[r]] = mem[r]]
    BY <2>1 DEF PullTick, Heartbeat
  <2>4. QED
    BY <2>2, <2>3 DEF IInv, TypeOK, Driven
<1>3. CASE \E r \in Runs : ChildStep(r) \/ KillStep(r)
  BY <1>3 DEF ChildStep, ChildEnds, ChildDies, KillStep, KillSeen, KillInsists
<1>4. CASE \E j \in Jobs, r \in Runs : Submit(j, r)
  BY <1>4 DEF Submit, Accept, Created, Absent, IInv, TypeOK
<1>5. CASE \E j \in Jobs : CancelFlag(j) \/ (CancelMark /\ mid = j)
  <2>1. PICK j \in Jobs : CancelFlag(j) \/ (CancelMark /\ mid = j)
    BY <1>5
  <2>2. Spent(disk'[j]) /\ (disk' = [disk EXCEPT ![j] = disk'[j]])
    BY <2>1, CancelSpent DEF CancelFlag, CancelMark, Write, IInv, TypeOK
  <2>3. disk'[j].state # "absent"
    BY <1>a, <2>2 DEF Spent
  <2>4. QED
    BY <2>2, <2>3 DEF IInv, TypeOK
<1>6. CASE SweepStep
  <2>1. PICK j \in Jobs : SweepPick(j) \/ SweepDrop(j)
    BY <1>6 DEF SweepStep
  <2>2. \/ disk' = disk
        \/ disk' = [disk EXCEPT ![j] = stale[j]] /\ stale[j] # Absent
    BY <2>1 DEF SweepPick, SweepDrop
  <2>3. QED
    BY <1>a, <2>2 DEF IInv, TypeOK, Swept
<1>7. CASE Crash \/ UNCHANGED vars
  BY <1>7 DEF Crash, vars
<1>8. CASE BootStep
  BY <1>8 DEF BootStep, Restart, Adopt, Adopted, Announce, AnnounceRaises, Announced,
              IInv, TypeOK, Record
<1>9. QED
  BY <1>1, <1>2, <1>3, <1>4, <1>5, <1>6, <1>7, <1>8
  DEF Next, RequestStep, SubmitLow, Delete, NoOverlap, CancelMark

LEMMA OnceStep ==
  ASSUME NoOverlap, IInv, Once, [Next]_vars
  PROVE  Once'
<1>1. CASE UNCHANGED job
  BY <1>1, KnownStep, JobsKnown DEF Once
<1>2. CASE \E j \in Jobs, r \in Runs : Submit(j, r)
  <2>1. PICK j \in Jobs, r \in Runs : Submit(j, r)
    BY <1>2
  <2>2. /\ disk[j].state = "absent" /\ disk'[j] = Created
        /\ job' = [job EXCEPT ![r] = j]
    BY <2>1 DEF Submit, Admissible, Accept, IInv, TypeOK
  <2>3. \A s \in Runs : s # r => job'[s] = job[s]
    BY <2>2
  <2>4. job'[r] = j
    BY <2>2 DEF IInv, TypeOK
  <2>5. \A s \in Runs : s # r /\ job[s] # NoJob => job[s] # j
    BY <2>2 DEF Once
  <2>6. Created.state # "absent"
    BY DEF Created, Absent
  <2>7. QED
    BY <2>2, <2>3, <2>4, <2>5, <2>6, KnownStep, JobsKnown DEF Once
<1>3. CASE [Next]_vars /\ ~(\E j \in Jobs, r \in Runs : Submit(j, r))
  <2>1. job' = job
    BY <1>3, RunStepFrame
    DEF Next, RequestStep, SubmitLow, Delete, NoOverlap, PullTick, Heartbeat, ChildStep,
        ChildEnds, ChildDies, KillStep, KillSeen, KillInsists, CancelFlag, CancelMark,
        SweepStep, SweepPick, SweepDrop, Crash, BootStep, Restart, Adopt, Adopted,
        Announce, AnnounceRaises, Announced, vars
  <2>2. QED
    BY <1>1, <2>1
<1>4. QED
  BY <1>2, <1>3

(* The two documents of a job that a step may write, and when they change. *)
LEMMA OnRecordStep ==
  ASSUME NoOverlap, IInv, Cancels, Once, OnRecord, [Next]_vars
  PROVE  OnRecord'
<1>0. IInv' /\ Cancels'
  BY StepInv, CancelsStep
<1>a. /\ asked \subseteq Runs /\ asked' \subseteq Runs
      /\ \A r \in asked : job[r] \in Jobs /\ pc[r] # "unused"
  BY <1>0, JobKnown DEF IInv, TypeOK, Cancels, Asked
<1>b. \A rec : rec.state \in TerminalStates => ~IsLive(rec)
  BY DEF IsLive, LiveStates, TerminalStates
<1>1. CASE \E s \in Runs : RunStep(s)
  <2>1. PICK s \in Runs : RunStep(s)
    BY <1>1
  <2>2. UNCHANGED <<job, asked, stale>>
    BY <2>1, RunStepFrame, RunWrites
  <2> SUFFICES ASSUME NEW r \in asked
               PROVE  /\ Recalled(r, disk[job[r]])'
                      /\ stale[job[r]] # Absent => Recalled(r, stale[job[r]])'
    BY <2>2 DEF OnRecord
  <2>3. CASE r # s
    <3>1. pc'[r] = pc[r] /\ disk'[job[r]] = disk[job[r]]
      <4>1. job[s] \in Jobs
        BY <2>1, RunWrites, HeldKnown DEF IInv
      <4>2. job[r] # job[s]
        BY <1>a, <2>3, <4>1, ServerAssumption DEF Once
      <4>3. QED
        BY <1>a, <2>1, <2>3, <4>2, OthersStay, RunWrites
    <3>2. QED
      BY <2>2, <3>1 DEF OnRecord, Recalled
  <2>4. CASE r = s
    <3>1. /\ pc[r] \in Held /\ pc'[r] # "lost" /\ pc[r] # "lost"
          /\ pc'[r] = "done" => pc[r] \in Held \ Driving
      BY <2>1, <2>4, RunWrites DEF Held, Driving
    <3>2. /\ mem[r].cancelRequested /\ mem[r].state # "interrupted"
          /\ pc'[r] \in Held => mem'[r].cancelRequested /\ mem'[r].state # "interrupted"
      BY <1>0, <2>2, <3>1 DEF Cancels, Asked
    <3>3. disk'[job[r]].cancelRequested /\ disk'[job[r]].state # "interrupted"
      BY <2>1, <2>4, <3>1, <3>2, RunWrites DEF OnRecord, Recalled
    <3>4. pc'[r] = "done" => ~IsLive(disk'[job[r]])
      BY <1>b, <2>1, <2>4, <3>1, RunWrites DEF IInv, Concluded, Held, Driving
    <3>5. stale[job[r]] # Absent => Recalled(r, stale[job[r]])'
      BY <1>a, <1>b, <2>2, <3>1 DEF OnRecord, Recalled, IInv, Swept
    <3>6. QED
      BY <2>2, <3>3, <3>4, <3>5 DEF Recalled
  <2>5. QED
    BY <2>3, <2>4
<1>2. CASE \E s \in Runs : PullTick(s) \/ Heartbeat(s)
  <2>1. PICK s \in Runs : PullTick(s) \/ Heartbeat(s)
    BY <1>2
  <2>2. pc[s] \in Driving
    BY <2>1 DEF PullTick, Heartbeat, IInv, HeartbeatsEnd, Driving
  <2>3. disk' = disk \/ disk' = [disk EXCEPT ![job[s]] = mem[s]]
    BY <2>1 DEF PullTick, Heartbeat
  <2>4. disk' = disk
    BY <2>2, <2>3 DEF IInv, TypeOK, Driven
  <2>5. UNCHANGED <<pc, job, asked, stale>>
    BY <2>1 DEF PullTick, Heartbeat
  <2>6. QED
    BY <2>4, <2>5 DEF OnRecord, Recalled
<1>3. CASE \E s \in Runs : ChildStep(s) \/ KillStep(s)
  BY <1>3 DEF OnRecord, Recalled, ChildStep, ChildEnds, ChildDies, KillStep, KillSeen,
              KillInsists
<1>4. CASE \E j \in Jobs, r \in Runs : Submit(j, r)
  <2>1. PICK j \in Jobs, r \in Runs : Submit(j, r)
    BY <1>4
  <2>2. /\ pc[r] = "unused" /\ disk[j].state = "absent" /\ UNCHANGED <<asked, stale>>
        /\ \A s \in Runs : s # r => pc'[s] = pc[s] /\ job'[s] = job[s]
        /\ \A k \in Jobs : k # j => disk'[k] = disk[k]
    BY <2>1 DEF Submit, Admissible, Accept, IInv, TypeOK
  <2>3. \A s \in asked : s # r /\ job[s] # j
    BY <1>a, <2>2, ServerAssumption DEF Once
  <2>4. QED
    BY <1>a, <2>2, <2>3 DEF OnRecord, Recalled
<1>5. CASE \E j \in Jobs : CancelFlag(j) \/ (CancelMark /\ mid = j)
  <2>1. PICK j \in Jobs : CancelFlag(j) \/ (CancelMark /\ mid = j)
    BY <1>5
  <2>2. /\ UNCHANGED <<pc, job, stale>>
        /\ \A k \in Jobs : k # j => disk'[k] = disk[k]
        /\ disk'[j].cancelRequested
    BY <2>1, CancelSpent DEF CancelFlag, CancelMark, Write, IInv, TypeOK
  <2>3. \/ disk'[j].state = Current(j).state
        \/ disk'[j].state = "canceling"
    BY <2>1, CurrentType DEF CancelFlag, CancelMark, Write, IInv, TypeOK, Record
  <2>4. \A r \in asked' : r \in asked \/ (job[r] = j /\ pc[r] \in Driving)
    BY <2>1 DEF CancelFlag, CancelMark
  <2> SUFFICES ASSUME NEW r \in asked'
               PROVE  /\ Recalled(r, disk[job[r]])'
                      /\ stale[job[r]] # Absent => Recalled(r, stale[job[r]])'
    BY <2>2 DEF OnRecord
  <2>5. CASE job[r] # j
    BY <1>a, <2>2, <2>4, <2>5 DEF OnRecord, Recalled
  <2>6. CASE job[r] = j /\ ~Shared(j)
    <3>1. pc[r] \notin Held
      BY <1>a, <2>6, CurrentFacts
    <3>2. r \in asked
      BY <2>4, <3>1 DEF Held
    <3>3. disk'[j].state = disk[j].state \/ disk'[j].state = "canceling"
      BY <2>3, <2>6, CurrentFacts
    <3>4. IsLive(disk'[j]) => IsLive(disk[j])
      BY <3>3 DEF IsLive, LiveStates
    <3>5. QED
      BY <2>2, <2>6, <3>2, <3>3, <3>4 DEF OnRecord, Recalled
  <2>7. CASE job[r] = j /\ Shared(j)
    <3>1. recOf[j] = r /\ pc[r] \in Held /\ Current(j) = mem[r]
      BY <1>a, <2>7, CurrentFacts, ServerAssumption DEF Once
    <3>2. mem[r].state # "interrupted"
      <4>1. CASE r \in asked
        BY <4>1 DEF Cancels, Asked
      <4>2. CASE pc[r] \in Driving
        BY <1>a, <4>2 DEF IInv, Driven, LiveStates
      <4>3. QED
        BY <2>4, <4>1, <4>2
    <3>3. disk'[j].state # "interrupted"
      BY <2>3, <3>1, <3>2
    <3>4. pc[r] # "done" /\ pc[r] # "lost"
      BY <3>1 DEF Held, Driving
    <3>5. stale[j] # Absent => Recalled(r, stale[j])
      <4>1. CASE r \in asked
        BY <2>7, <4>1 DEF OnRecord
      <4>2. CASE pc[r] \in Driving
        BY <1>a, <2>7, <4>2 DEF IInv, Driven, Swept, LiveStates, TerminalStates
      <4>3. QED
        BY <2>4, <4>1, <4>2
    <3>6. QED
      BY <2>2, <2>7, <3>3, <3>4, <3>5 DEF Recalled
  <2>8. QED
    BY <2>5, <2>6, <2>7
<1>6. CASE SweepStep
  <2>1. PICK j \in Jobs : SweepPick(j) \/ SweepDrop(j)
    BY <1>6 DEF SweepStep
  <2>2. /\ UNCHANGED <<pc, job, asked>>
        /\ \A k \in Jobs : disk'[k] = disk[k] \/ (stale[k] # Absent /\ disk'[k] = stale[k])
        /\ \A k \in Jobs : stale'[k] \in {stale[k], disk[k], Absent}
    BY <2>1 DEF SweepPick, SweepDrop, IInv, TypeOK
  <2>3. QED
    BY <1>a, <2>2 DEF OnRecord, Recalled
<1>7. CASE Crash
  <2>1. /\ UNCHANGED <<job, asked, disk>>
        /\ \A r \in Runs : pc'[r] \in {pc[r], "lost"} /\ (pc[r] = "lost" => pc'[r] = "lost")
        /\ \A j \in Jobs : stale'[j] = Absent
    BY <1>7 DEF Crash, IInv, TypeOK
  <2>2. QED
    BY <1>a, <2>1 DEF OnRecord, Recalled
<1>8. CASE \E j \in Jobs : Adopt(j)
  <2>1. PICK j \in Jobs : Adopt(j)
    BY <1>8
  <2>2. /\ IsLive(disk[j]) /\ up # "serving" /\ UNCHANGED <<pc, job, asked, stale>>
        /\ \A k \in Jobs : k # j => disk'[k] = disk[k]
        /\ disk'[j].cancelRequested = disk[j].cancelRequested
        /\ disk'[j].state = "interrupted"
    BY <2>1 DEF Adopt, Orphaned, IInv, TypeOK, Record
  <2>3. ASSUME NEW r \in asked, job[r] = j
        PROVE  pc[r] = "lost"
    <3>1. pc[r] # "done"
      BY <2>2, <2>3 DEF OnRecord, Recalled
    <3>2. QED
      BY <1>a, <2>2, <3>1 DEF IInv, Quiet, TypeOK, PCs, Held, Driving
  <2>4. ~IsLive(disk'[j])
    BY <2>2 DEF IsLive, LiveStates
  <2>5. QED
    BY <1>a, <2>2, <2>3, <2>4 DEF OnRecord, Recalled
<1>9. CASE BootStep /\ ~(\E j \in Jobs : Adopt(j))
  BY <1>9 DEF OnRecord, Recalled, BootStep, Restart, Adopted, Announce, AnnounceRaises,
              Announced
<1>10. CASE UNCHANGED vars
  BY <1>10 DEF vars, OnRecord, Recalled
<1>11. QED
  BY <1>1, <1>2, <1>3, <1>4, <1>5, <1>6, <1>7, <1>8, <1>9, <1>10
  DEF Next, RequestStep, SubmitLow, Delete, NoOverlap, CancelMark

(* cancel, _decide_outcome and _fail: the flag of a run that was cancelled *)
(* before it had ended stays on record, whoever writes it, and unless the  *)
(* server dies under the run its record never says `interrupted`, whatever *)
(* the child reports, however it dies and wherever the cancel falls.       *)
THEOREM CancelNotRetriedCorrect ==
  ASSUME NoOverlap
  PROVE  Spec => []CancelNotRetried
<1> DEFINE Inv == Cancels /\ Once /\ OnRecord
<1>1. Init => Inv
  BY DEF Init, Cancels, Asked, Verdicts, Once, OnRecord
<1>2. IInv /\ Inv /\ [Next]_vars => Inv'
  BY CancelsStep, OnceStep, OnRecordStep
<1>3. Inv => CancelNotRetried
  BY DEF OnRecord, Recalled, CancelNotRetried
<1> HIDE DEF Inv
<1>4. QED
  BY <1>1, <1>2, <1>3, InvCorrect, PTL DEF Spec

(* Who runs for which job, and which cancels wait, is settled by the       *)
(* launch, the second write of a cancel and the end of the run alone.      *)
LEMMA FilesStep ==
  ASSUME IInv, NoOverlap, Files, [Next]_vars
  PROVE  Files'
<1>0. SpentStay
  BY StepSpent
<1>a. \A r \in Runs : job[r] \in Jobs => pc[r] # "unused"
  BY ServerAssumption DEF IInv, TypeOK
<1>b. \A j \in Jobs : procOf[j] # NoRun => procOf[j] \in Runs
  BY DEF IInv, TypeOK
<1>1. CASE \E s \in Runs : RunStep(s)
  <2>1. PICK s \in Runs : RunStep(s)
    BY <1>1
  <2>2. UNCHANGED <<job, killer>>
    BY <2>1, RunStepFrame
  <2>3. \/ procOf' = procOf
        \/ procOf' = [procOf EXCEPT ![job[s]] = s]
        \/ procOf' = [procOf EXCEPT ![job[s]] = NoRun]
    BY <2>1
    DEF IInv, Quiet, RunStep, Weighed, Refuse, BeginLocal, BeginUrl, BeginR2, Sized,
        Pulled, Launch, Downloading, StageFails, Fail, ReapConcludes, ReapUploads,
        ReapMisses, Conclude, Uploaded, UploadFails, Aborted, Tell, TellRaises,
        TellFailure, ReclaimNothing, ReclaimFiles, ReclaimNoted, ReclaimFails, Finish,
        maps
  <2>4. Signalled'
    BY <2>2, <2>3 DEF Files, Signalled, IInv, TypeOK
  <2>5. Killing'
    BY <1>0, <2>2 DEF Files, Killing, SpentStay
  <2>6. QED
    BY <2>4, <2>5 DEF Files
<1>2. CASE \E s \in Runs : PullTick(s) \/ Heartbeat(s) \/ ChildStep(s)
  <2>1. UNCHANGED <<job, procOf, killer>>
    BY <1>2 DEF PullTick, Heartbeat, ChildStep, ChildEnds, ChildDies, maps
  <2>2. QED
    BY <1>0, <2>1 DEF Files, Signalled, Killing, SpentStay
<1>3. CASE \E s \in Runs : KillStep(s)
  <2>1. PICK s \in Runs : KillStep(s)
    BY <1>3
  <2>2. killer' = [killer EXCEPT ![s] = "none"] /\ UNCHANGED <<job, procOf>>
    BY <2>1 DEF KillStep, KillSeen, KillInsists, maps
  <2>3. QED
    BY <1>0, <2>2 DEF Files, Signalled, Killing, SpentStay, IInv, TypeOK
<1>4. CASE \E j \in Jobs, r \in Runs : Submit(j, r)
  <2>1. PICK j \in Jobs, r \in Runs : Submit(j, r)
    BY <1>4
  <2>2. /\ pc[r] = "unused" /\ UNCHANGED <<procOf, killer>>
        /\ \A s \in Runs : s # r => job'[s] = job[s]
    BY <2>1 DEF Submit, Accept, IInv, TypeOK
  <2>3. Signalled'
    BY <1>a, <1>b, <2>2 DEF Files, Signalled
  <2>4. Killing'
    BY <1>0, <1>a, <2>2 DEF Files, Killing, SpentStay
  <2>5. QED
    BY <2>3, <2>4 DEF Files
<1>5. CASE \E j \in Jobs : CancelFlag(j)
  <2>1. UNCHANGED <<job, procOf, killer>>
    BY <1>5 DEF CancelFlag, maps
  <2>2. QED
    BY <1>0, <2>1 DEF Files, Signalled, Killing, SpentStay
<1>6. CASE CancelMark
  <2>1. mid \in Jobs /\ Spent(disk'[mid]) /\ UNCHANGED <<job, procOf>>
    BY <1>6, CancelSpent DEF CancelMark, maps
  <2>2. \A r \in Runs : killer'[r] = killer[r] \/ r \in Target(mid)
    BY <1>6 DEF CancelMark, IInv, TypeOK
  <2>3. \A r \in Target(mid) : job[r] = mid
    BY <2>1, ServerAssumption DEF Target, Files, Signalled
  <2>4. Killing'
    BY <1>0, <2>1, <2>2, <2>3 DEF Files, Killing, SpentStay
  <2>5. QED
    BY <2>1, <2>4 DEF Files, Signalled
<1>7. CASE SweepStep
  <2>1. UNCHANGED <<job, procOf, killer>>
    BY <1>7 DEF SweepStep, SweepPick, SweepDrop, maps
  <2>2. QED
    BY <1>0, <2>1 DEF Files, Signalled, Killing, SpentStay
<1>8. CASE Crash
  BY <1>8 DEF Crash, Files, Signalled, Killing
<1>9. CASE BootStep \/ UNCHANGED vars
  <2>1. UNCHANGED <<job, procOf, killer>>
    BY <1>9 DEF BootStep, Restart, Adopt, Adopted, Announce, AnnounceRaises, Announced,
                maps, vars
  <2>2. QED
    BY <1>0, <2>1 DEF Files, Signalled, Killing, SpentStay
<1>10. QED
  BY <1>1, <1>2, <1>3, <1>4, <1>5, <1>6, <1>7, <1>8, <1>9
  DEF Next, RequestStep, SubmitLow, Delete, NoOverlap

(* What takes a finished file away: the reclaim and the sweep, of a job    *)
(* that is over, and the purge of a cancel.                                *)
Kept == \A j \in Jobs :
  IsLive(disk[j]) /\ work[j].output /\ ~disk'[j].cancelRequested => work'[j].output

LEMMA RunKept ==
  ASSUME IInv, NEW r \in Runs, RunStep(r)
  PROVE  Kept
<1>1. \/ work' = work
      \/ work' = [work EXCEPT ![job[r]].dir = TRUE]
      \/ ReclaimFiles(r)
  BY DEF IInv, Quiet, RunStep, Weighed, Refuse, BeginLocal, BeginUrl, BeginR2, Sized,
         Pulled, Launch, Downloading, StageFails, Fail, ReapConcludes, ReapUploads,
         ReapMisses, Conclude, Uploaded, UploadFails, Aborted, Tell, TellRaises,
         TellFailure, ReclaimNothing, ReclaimNoted, ReclaimFails
<1>2. CASE work' = work
  BY <1>2 DEF Kept
<1>3. CASE work' = [work EXCEPT ![job[r]].dir = TRUE]
  BY <1>3 DEF Kept, IInv, TypeOK, WorkDir
<1>4. CASE ReclaimFiles(r)
  <2>1. pc[r] \in Held \ Driving /\ work' = [work EXCEPT ![job[r]].output = FALSE]
    BY <1>4 DEF ReclaimFiles, Held, Driving
  <2>2. ~IsLive(disk[job[r]])
    BY <2>1 DEF IInv, Concluded, IsLive, LiveStates, TerminalStates
  <2>3. QED
    BY <2>1, <2>2 DEF Kept, IInv, TypeOK
<1>5. QED
  BY <1>1, <1>2, <1>3, <1>4

LEMMA KillKept ==
  ASSUME IInv, Files, NEW r \in Runs, KillStep(r)
  PROVE  Kept
<1>1. /\ killer[r] # "none" /\ disk' = disk
      /\ work' = [work EXCEPT ![job[r]] = Purged(work[job[r]], killer[r])]
  BY DEF KillStep, KillSeen, KillInsists
<1>2. Spent(disk[job[r]])
  BY <1>1 DEF Files, Killing
<1>3. IsLive(disk[job[r]]) => disk[job[r]].cancelRequested
  BY <1>2 DEF Spent, IsLive, LiveStates, TerminalStates
<1>4. QED
  BY <1>1, <1>3 DEF Kept, IInv, TypeOK

LEMMA ChildKept ==
  ASSUME IInv, NEW r \in Runs, ChildStep(r)
  PROVE  Kept
<1>1. CASE work' = work
  BY <1>1 DEF Kept
<1>2. CASE \E report \in Reports : \/ work' = [work EXCEPT ![job[r]] = Written(@, report)]
                                   \/ work' = [work EXCEPT ![job[r]].report = report]
  <2>1. PICK report \in Reports : \/ work' = [work EXCEPT ![job[r]] = Written(@, report)]
                                  \/ work' = [work EXCEPT ![job[r]].report = report]
    BY <1>2
  <2>2. ASSUME NEW w \in WorkDir, w.output
        PROVE  Written(w, report).output /\ [w EXCEPT !.report = report].output
    BY <2>2 DEF Written, WorkDir
  <2>3. \A j \in Jobs : j # job[r] => work'[j] = work[j]
    BY <2>1 DEF IInv, TypeOK
  <2>4. ASSUME job[r] \in Jobs, work[job[r]].output
        PROVE  work'[job[r]].output
    <3>1. work'[job[r]] \in {Written(work[job[r]], report),
                             [work[job[r]] EXCEPT !.report = report]}
      BY <2>1, <2>4 DEF IInv, TypeOK
    <3>2. work[job[r]] \in WorkDir
      BY <2>4 DEF IInv, TypeOK
    <3>3. QED
      BY <2>2, <2>4, <3>1, <3>2
  <2>5. QED
    BY <2>3, <2>4 DEF Kept
<1>3. QED
  BY <1>1, <1>2 DEF ChildStep, ChildEnds, ChildDies

LEMMA StepKept ==
  ASSUME IInv, NoOverlap, Files, [Next]_vars
  PROVE  Kept
<1>1. CASE \E r \in Runs : RunStep(r) \/ KillStep(r) \/ ChildStep(r)
  BY <1>1, RunKept, KillKept, ChildKept
<1>2. CASE \E r \in Runs : PullTick(r) \/ Heartbeat(r)
  BY <1>2 DEF PullTick, Heartbeat, Kept
<1>3. CASE \E j \in Jobs, r \in Runs : Submit(j, r)
  <2>1. PICK j \in Jobs : work' = [work EXCEPT ![j].dir = TRUE]
    BY <1>3 DEF Submit, Accept
  <2>2. QED
    BY <2>1 DEF Kept, IInv, TypeOK, WorkDir
<1>4. CASE \E j \in Jobs : CancelFlag(j)
  BY <1>4 DEF CancelFlag, Kept
<1>5. CASE CancelMark
  <2>1. mid \in Jobs /\ disk'[mid].cancelRequested
    BY <1>5, CancelSpent DEF CancelMark
  <2>2. \A j \in Jobs : j # mid => work'[j] = work[j]
    BY <1>5 DEF CancelMark, IInv, TypeOK
  <2>3. QED
    BY <2>1, <2>2 DEF Kept
<1>6. CASE SweepStep
  <2>1. PICK j \in Jobs : SweepPick(j) \/ SweepDrop(j)
    BY <1>6 DEF SweepStep
  <2>2. \/ work' = work
        \/ work' = [work EXCEPT ![j].output = FALSE] /\ stale[j] # Absent
    BY <2>1 DEF SweepPick, SweepDrop
  <2>3. stale[j] # Absent => ~IsLive(disk[j])
    BY DEF IInv, Swept, IsLive, LiveStates, TerminalStates
  <2>4. QED
    BY <2>2, <2>3 DEF Kept, IInv, TypeOK
<1>7. CASE Crash \/ BootStep \/ UNCHANGED vars
  BY <1>7 DEF Crash, BootStep, Restart, Adopt, Adopted, Announce, AnnounceRaises,
              Announced, vars, Kept
<1>8. QED
  BY <1>1, <1>2, <1>3, <1>4, <1>5, <1>6, <1>7
  DEF Next, RequestStep, SubmitLow, Delete, NoOverlap

(* reclaim.py: whatever sweeps, reclaims and late ends of cancels run      *)
(* beside it, the finished file of a job that is still moving and that     *)
(* nobody cancelled is never removed.                                      *)
THEOREM LiveFilesKeptCorrect ==
  ASSUME NoOverlap
  PROVE  Spec => LiveFilesKept
<1>1. Init => Files
  BY DEF Init, Files, Signalled, Killing
<1>2. IInv /\ Files /\ [Next]_vars => Files'
  BY FilesStep
<1>3. IInv /\ Files /\ [Next]_vars => [Kept]_<<work, disk>>
  BY StepKept
<1>4. QED
  BY <1>1, <1>2, <1>3, InvCorrect, PTL DEF Spec, LiveFilesKept, Kept
-----------------------------------------------------------------------------
(***************************************************************************)
(* The server implements JobLife: the initial states map to initial        *)
(* states, and every step to a step of one job's life or to a stutter.     *)
(***************************************************************************)
(* How far the record of a job has come where its coroutine is suspended.  *)
InPhase(p, s) ==
  /\ p \in {"accepted", "sizing"} => s \in {"preparing", "canceling"}
  /\ p = "pulling" => s \in {"downloading", "canceling"}
  /\ p = "watching" => s \in {"running", "canceling"}
  /\ p = "uploading" => s \in {"uploading", "canceling"}
  /\ p = "aborting" => s \in {"running", "uploading", "canceling"}

Phased == \A r \in Runs : InPhase(pc[r], mem[r].state)

(* What an upload, made or missed, leaves to be said of the run.           *)
Decided == \A r \in Runs :
  pc[r] \in {"uploading", "aborting"} => verdict[r] \in Publishable \cup {"upload_failed"}

Lives == Phased /\ Decided

(* A job that was never submitted was never cancelled.                     *)
Blank == \A j \in Jobs :
  disk[j].state = "absent" => disk[j].cancelRequested = FALSE

(* A step of the abstract job, or none.                                    *)
LifeStep == [Life!LifeNext]_<<[j \in Jobs |-> disk[j].state],
                              [j \in Jobs |-> disk[j].cancelRequested], heard>>

LEMMA StatesApart ==
  /\ Life!Over = TerminalStates
  /\ Life!Phases = LiveStates
  /\ Life!Moving = LiveStates \cup {"canceling"}
BY DEF Life!Over, Life!Phases, Life!Moving, TerminalStates, LiveStates

(* One record is written with another state: the abstract job takes it on. *)
LEMMA Becoming ==
  ASSUME TypeOK, NEW j \in Jobs, NEW rec, disk' = [disk EXCEPT ![j] = rec],
         rec.cancelRequested = disk[j].cancelRequested, heard' = heard
  PROVE  Life!Becomes(j, rec.state)
<1>1. disk \in [Jobs -> Record]
  BY DEF TypeOK
<1>2. [k \in Jobs |-> disk'[k].state]
        = [[k \in Jobs |-> disk[k].state] EXCEPT ![j] = rec.state]
  BY <1>1
<1>3. [k \in Jobs |-> disk'[k].cancelRequested] = [k \in Jobs |-> disk[k].cancelRequested]
  BY <1>1
<1>4. QED
  BY <1>2, <1>3 DEF Life!Becomes

(* One record is written with another flag.                                *)
LEMMA Flagging ==
  ASSUME TypeOK, NEW j \in Jobs, NEW rec, disk' = [disk EXCEPT ![j] = rec],
         rec.state = disk[j].state
  PROVE  /\ [k \in Jobs |-> disk'[k].state] = [k \in Jobs |-> disk[k].state]
         /\ [k \in Jobs |-> disk'[k].cancelRequested]
              = [[k \in Jobs |-> disk[k].cancelRequested]
                    EXCEPT ![j] = rec.cancelRequested]
<1>1. disk \in [Jobs -> Record]
  BY DEF TypeOK
<1>2. QED
  BY <1>1

LEMMA Unseen ==
  ASSUME disk' = disk, heard' = heard
  PROVE  LifeStep
BY DEF LifeStep

(* What is told is on record.                                              *)
LEMMA Telling ==
  ASSUME TypeOK, NEW j \in Jobs, disk' = disk, disk[j].state # "absent",
         \/ heard' = heard
         \/ heard' = [heard EXCEPT ![j] = disk[j].state]
  PROVE  LifeStep
<1>1. CASE heard' = heard
  BY <1>1, Unseen
<1>2. CASE heard' = [heard EXCEPT ![j] = disk[j].state]
  <2>1. Life!Told(j)
    BY <1>2 DEF Life!Told
  <2>2. QED
    BY <2>1 DEF LifeStep, Life!LifeNext
<1>3. QED
  BY <1>1, <1>2

(* The copy a sweep or a reclaim writes of a job that is over.             *)
LEMMA Rewriting ==
  ASSUME TypeOK, NEW j \in Jobs, NEW rec \in Record, disk' = [disk EXCEPT ![j] = rec],
         rec.state = disk[j].state, rec.state \in TerminalStates, heard' = heard
  PROVE  LifeStep
<1>1. rec.cancelRequested \in BOOLEAN
  BY DEF Record
<1>2. Life!Rewritten(j)
  BY <1>1, Flagging, StatesApart DEF Life!Rewritten
<1>3. QED
  BY <1>2 DEF LifeStep, Life!LifeNext

(* A run saves its record with the state of its next phase ...             *)
LEMMA SavedAs ==
  ASSUME IInv, NEW r \in Runs, pc[r] \in Driving, NEW rec, Save(r, rec),
         rec.cancelRequested = mem[r].cancelRequested, heard' = heard
  PROVE  /\ job[r] \in Jobs /\ disk[job[r]] = mem[r]
         /\ Life!Becomes(job[r], rec.state)
<1>1. job[r] \in Jobs /\ disk[job[r]] = mem[r]
  BY HeldKnown DEF IInv, Driven, Held
<1>2. disk' = [disk EXCEPT ![job[r]] = rec]
  BY DEF Save
<1>3. QED
  BY <1>1, <1>2, Becoming DEF IInv

LEMMA PhaseSaved ==
  ASSUME IInv, NEW r \in Runs, pc[r] \in Driving, NEW s,
         Save(r, [mem[r] EXCEPT !.state = s]), heard' = heard,
         s \in Life!After(mem[r].state)
  PROVE  LifeStep
<1> DEFINE rec == [mem[r] EXCEPT !.state = s]
<1>1. mem[r] \in Record
  BY DEF IInv, TypeOK
<1>2. rec.state = s /\ rec.cancelRequested = mem[r].cancelRequested /\ Save(r, rec)
  BY <1>1 DEF Record
<1> HIDE DEF rec
<1>3. job[r] \in Jobs /\ disk[job[r]] = mem[r] /\ Life!Becomes(job[r], s)
  BY <1>2, SavedAs
<1>4. Life!Moves(job[r])
  BY <1>3 DEF Life!Moves
<1>5. QED
  BY <1>3, <1>4 DEF LifeStep, Life!LifeNext

(* ... or that of its end.                                                 *)
LEMMA EndSaved ==
  ASSUME IInv, NEW r \in Runs, pc[r] \in Driving, NEW rec, Save(r, rec),
         rec.cancelRequested = mem[r].cancelRequested, heard' = heard,
         rec.state \in TerminalStates,
         rec.state = "canceled" => mem[r].cancelRequested,
         rec.state \in {"succeeded", "needs_review"}
            => mem[r].state \in {"running", "uploading", "canceling"}
  PROVE  LifeStep
<1>1. job[r] \in Jobs /\ disk[job[r]] = mem[r] /\ Life!Becomes(job[r], rec.state)
  BY SavedAs
<1>2. mem[r].state \in LiveStates \cup {"canceling"}
  BY DEF IInv, Driven
<1>3. Life!Ends(job[r])
  BY <1>1, <1>2, StatesApart DEF Life!Ends
<1>4. QED
  BY <1>1, <1>3 DEF LifeStep, Life!LifeNext

LEMMA ConcludeLife ==
  ASSUME IInv, NEW r \in Runs, pc[r] \in Driving, NEW o \in Outcomes \cup {"none"},
         NEW k, Conclude(r, o, k),
         o = "canceled" => mem[r].cancelRequested,
         mem[r].state \in {"running", "uploading", "canceling"}
  PROVE  LifeStep
<1> DEFINE rec == [mem[r] EXCEPT !.state = StateFor(o), !.outputKey = k]
<1>1. mem[r] \in Record
  BY DEF IInv, TypeOK
<1>2. /\ rec.state = StateFor(o) /\ rec.cancelRequested = mem[r].cancelRequested
      /\ Save(r, rec) /\ heard' = heard
  BY <1>1 DEF Record, Conclude
<1>3. StateFor(o) \in TerminalStates /\ (StateFor(o) = "canceled" => o = "canceled")
  BY StateForTerminal DEF StateFor
<1> HIDE DEF rec
<1>4. QED
  BY <1>2, <1>3, EndSaved

LEMMA FailLife ==
  ASSUME IInv, NEW r \in Runs, pc[r] \in Driving,
         NEW o \in {"input_error", "internal"}, Fail(r, o)
  PROVE  LifeStep
<1> DEFINE s == StateFor(FailOutcome(r, o))
           rec == [mem[r] EXCEPT !.state = s]
<1>1. mem[r] \in Record
  BY DEF IInv, TypeOK
<1>2. s \in {"failed", "canceled"} /\ (s = "canceled" => mem[r].cancelRequested)
  BY DEF FailOutcome, StateFor
<1>3. /\ rec.state = s /\ rec.cancelRequested = mem[r].cancelRequested
      /\ Save(r, rec) /\ heard' = heard
  BY <1>1 DEF Record, Fail
<1> HIDE DEF s, rec
<1>4. s \in TerminalStates /\ s \notin {"succeeded", "needs_review"}
  BY <1>2 DEF TerminalStates
<1>5. QED
  BY <1>2, <1>3, <1>4, EndSaved

(* A run that is decided as canceled was flagged.                          *)
LEMMA JudgedCanceled ==
  ASSUME IInv, NEW r \in Runs, pc[r] # "unused", Judged(r) = "canceled"
  PROVE  mem[r].cancelRequested
<1>1. work[job[r]].report \in ReportKinds \cup {"none"}
  BY JobKnown, ServerAssumption DEF IInv, TypeOK, WorkDir
<1>2. QED
  BY <1>1 DEF Judged, DecideOutcome, ReportKinds

(* A step of a coroutine, as the abstract job sees it; and what it leaves  *)
(* of the phase and the verdict of its own run.                            *)
LEMMA RunLife ==
  ASSUME IInv, Lives, "raise" \notin Env, NEW r \in Runs, RunStep(r)
  PROVE  LifeStep
<1> USE DEF Held, Driving
<1>a. mem[r] \in Record /\ InPhase(pc[r], mem[r].state)
  BY DEF IInv, TypeOK, Lives, Phased
<1>b. pc[r] \in {"uploading", "aborting"} =>
        /\ verdict[r] \in Outcomes \cup {"none"} /\ verdict[r] # "canceled"
        /\ mem[r].state \in {"running", "uploading", "canceling"}
  BY <1>a DEF IInv, TypeOK, Lives, Decided, Publishable, InPhase
<1>1. CASE Weighed(r) \/ Refuse(r)
  BY <1>1 DEF IInv, Quiet, Weighed, Refuse
<1>2. CASE BeginLocal(r) \/ Pulled(r)
  <2>1. "running" \in Life!After(mem[r].state)
    BY <1>a, <1>2 DEF BeginLocal, Pulled, InPhase, Life!After
  <2>2. QED
    BY <1>2, <2>1, PhaseSaved DEF BeginLocal, Pulled, Launch
<1>3. CASE BeginUrl(r) \/ Sized(r)
  <2>1. "downloading" \in Life!After(mem[r].state)
    BY <1>a, <1>3 DEF BeginUrl, Sized, InPhase, Life!After
  <2>2. QED
    BY <1>3, <2>1, PhaseSaved DEF BeginUrl, Sized, Downloading
<1>4. CASE StageFails(r)
  BY <1>4, FailLife DEF StageFails
<1>5. CASE ReapConcludes(r)
  <2>1. Judged(r) \in Outcomes /\ (Judged(r) = "canceled" => mem[r].cancelRequested)
    BY <1>5, JudgedType, JudgedCanceled DEF ReapConcludes, Resumed, IInv
  <2>2. mem[r].state \in {"running", "uploading", "canceling"}
    BY <1>a, <1>5 DEF ReapConcludes, Resumed, InPhase
  <2>3. QED
    BY <1>5, <2>1, <2>2, ConcludeLife DEF ReapConcludes, Resumed
<1>6. CASE ReapUploads(r)
  <2>1. "uploading" \in Life!After(mem[r].state)
    BY <1>a, <1>6 DEF ReapUploads, Resumed, InPhase, Life!After
  <2>2. QED
    BY <1>6, <2>1, PhaseSaved DEF ReapUploads, Resumed
<1>7. CASE Uploaded(r) \/ Aborted(r)
  BY <1>b, <1>7, ConcludeLife DEF Uploaded, Aborted
<1>8. CASE BeginR2(r) \/ ReapMisses(r) \/ UploadFails(r) \/ ReclaimNothing(r)
             \/ ReclaimFiles(r) \/ ReclaimFails(r)
  BY <1>8, Unseen DEF BeginR2, ReapMisses, UploadFails, ReclaimNothing, ReclaimFiles,
                      ReclaimFails
<1>9. CASE Tell(r) \/ TellFailure(r)
  <2>1. pc[r] \in Held \ Driving /\ disk' = disk
    BY <1>9 DEF Tell, TellFailure
  <2>2. /\ job[r] \in Jobs /\ disk[job[r]].state = mem[r].state
        /\ disk[job[r]].state # "absent"
    BY <2>1, HeldKnown DEF IInv, Concluded, TerminalStates
  <2>3. heard' = heard \/ heard' = [heard EXCEPT ![job[r]] = disk[job[r]].state]
    BY <1>9, <2>2 DEF Tell, TellFailure
  <2>4. QED
    BY <2>1, <2>2, <2>3, Telling DEF IInv
<1>10. CASE TellRaises(r)
  BY <1>10 DEF TellRaises
<1>11. CASE ReclaimNoted(r)
  <2>1. /\ disk' = [disk EXCEPT ![job[r]] = mem[r]] /\ heard' = heard
        /\ disk[job[r]].state = mem[r].state /\ mem[r].state \in TerminalStates
        /\ job[r] \in Jobs
    BY <1>11, HeldKnown DEF ReclaimNoted, IInv, Concluded
  <2>2. QED
    BY <1>a, <2>1, Rewriting DEF IInv
<1>12. QED
  BY <1>1, <1>2, <1>3, <1>4, <1>5, <1>6, <1>7, <1>8, <1>9, <1>10, <1>11 DEF RunStep

LEMMA OwnPhase ==
  ASSUME IInv, Lives, NEW r \in Runs, RunStep(r)
  PROVE  /\ InPhase(pc'[r], mem'[r].state)
         /\ pc'[r] \in {"uploading", "aborting"}
              => verdict'[r] \in Publishable \cup {"upload_failed"}
<1> DEFINE Goal == /\ InPhase(pc'[r], mem'[r].state)
                   /\ pc'[r] \in {"uploading", "aborting"}
                        => verdict'[r] \in Publishable \cup {"upload_failed"}
<1>a. mem[r] \in Record /\ InPhase(pc[r], mem[r].state)
  BY DEF IInv, TypeOK, Lives, Phased
<1>b. pc[r] = "uploading" => verdict[r] \in Publishable \cup {"upload_failed"}
  BY DEF Lives, Decided
<1>c. ASSUME NEW s, Save(r, [mem[r] EXCEPT !.state = s])
      PROVE  mem'[r].state = s
  BY <1>a, <1>c DEF Save, IInv, TypeOK, Record
<1>d. ASSUME pc'[r] \notin {"accepted", "sizing", "pulling", "watching", "uploading",
                            "aborting"}
      PROVE  Goal
  BY <1>d DEF InPhase
<1>1. CASE Weighed(r) \/ Refuse(r)
  BY <1>1 DEF IInv, Quiet, Weighed, Refuse
<1>2. CASE BeginLocal(r) \/ Pulled(r)
  <2>1. pc'[r] = "watching" /\ mem'[r].state = "running"
    BY <1>2, <1>c DEF BeginLocal, Pulled, Launch, IInv, TypeOK
  <2>2. QED
    BY <2>1 DEF InPhase
<1>3. CASE BeginUrl(r) \/ Sized(r)
  <2>1. pc'[r] = "pulling" /\ mem'[r].state = "downloading"
    BY <1>3, <1>c DEF BeginUrl, Sized, Downloading, IInv, TypeOK
  <2>2. QED
    BY <2>1 DEF InPhase
<1>4. CASE BeginR2(r)
  <2>1. pc[r] = "accepted" /\ pc'[r] = "sizing" /\ mem'[r] = mem[r]
    BY <1>4 DEF BeginR2, IInv, TypeOK
  <2>2. QED
    BY <1>a, <2>1 DEF InPhase
<1>5. CASE ReapUploads(r)
  <2>1. /\ pc'[r] = "uploading" /\ mem'[r].state = "uploading"
        /\ verdict'[r] \in Publishable
    BY <1>5, <1>c DEF ReapUploads, IInv, TypeOK
  <2>2. QED
    BY <2>1 DEF InPhase
<1>6. CASE ReapMisses(r)
  <2>1. /\ pc[r] = "watching" /\ pc'[r] = "aborting" /\ mem'[r] = mem[r]
        /\ \E o \in Publishable : verdict'[r] = UploadFailure(o)
    BY <1>6 DEF ReapMisses, Resumed, IInv, TypeOK
  <2>2. QED
    BY <1>a, <2>1 DEF InPhase, UploadFailure, Publishable
<1>7. CASE UploadFails(r)
  <2>1. /\ pc[r] = "uploading" /\ pc'[r] = "aborting" /\ mem'[r] = mem[r]
        /\ verdict'[r] = UploadFailure(verdict[r])
    BY <1>7 DEF UploadFails, IInv, TypeOK
  <2>2. QED
    BY <1>a, <1>b, <2>1 DEF InPhase, UploadFailure, Publishable
<1>8. CASE StageFails(r) \/ ReapConcludes(r) \/ Uploaded(r) \/ Aborted(r) \/ TellRaises(r)
  BY <1>8, <1>d DEF StageFails, Fail, ReapConcludes, Uploaded, Aborted, TellRaises, Conclude,
                    IInv, TypeOK
<1>9. CASE Tell(r) \/ TellFailure(r) \/ ReclaimNothing(r) \/ ReclaimFiles(r)
             \/ ReclaimNoted(r) \/ ReclaimFails(r)
  BY <1>9, <1>d DEF Tell, TellFailure, ReclaimNothing, ReclaimFiles, ReclaimNoted,
                    ReclaimFails, Finish, IInv, TypeOK
<1>10. QED
  BY <1>1, <1>2, <1>3, <1>4, <1>5, <1>6, <1>7, <1>8, <1>9 DEF RunStep

(* A cancel, a sweep, a crash leave every run in its phase.                *)
LEMMA LivesStep ==
  ASSUME NoOverlap, IInv, Lives, [Next]_vars
  PROVE  Lives'
<1>1. CASE \E s \in Runs : RunStep(s)
  <2>1. PICK s \in Runs : RunStep(s)
    BY <1>1
  <2>2. \A r \in Runs : r # s => /\ pc'[r] = pc[r] /\ mem'[r] = mem[r]
                                 /\ verdict'[r] = verdict[r]
    BY <2>1, OthersStay
  <2>3. QED
    BY <2>1, <2>2, OwnPhase DEF Lives, Phased, Decided
<1>2. CASE \E s \in Runs : PullTick(s) \/ Heartbeat(s) \/ ChildStep(s) \/ KillStep(s)
  BY <1>2 DEF Lives, Phased, Decided, PullTick, Heartbeat, ChildStep, ChildEnds,
              ChildDies, KillStep, KillSeen, KillInsists
<1>3. CASE \E j \in Jobs, r \in Runs : Submit(j, r)
  <2>1. PICK j \in Jobs, r \in Runs : Submit(j, r)
    BY <1>3
  <2>2. /\ pc'[r] = "accepted" /\ mem'[r].state = "preparing"
        /\ \A s \in Runs : s # r => pc'[s] = pc[s] /\ mem'[s] = mem[s]
        /\ UNCHANGED verdict
    BY <2>1 DEF Submit, Accept, IInv, TypeOK, Created, Absent
  <2>3. QED
    BY <2>2 DEF Lives, Phased, Decided, InPhase
<1>4. CASE \E j \in Jobs : CancelFlag(j)
  <2>1. PICK j \in Jobs : CancelFlag(j)
    BY <1>4
  <2> DEFINE rec == [Current(j) EXCEPT !.cancelRequested = TRUE]
  <2>2. Write(j, rec) /\ rec.state = Current(j).state
    BY <2>1, CurrentFacts DEF CancelFlag, Record
  <2> HIDE DEF rec
  <2>3. UNCHANGED <<pc, verdict>>
    BY <2>1 DEF CancelFlag
  <2>4. \A s \in Runs : mem'[s].state = mem[s].state
    BY <2>2 DEF Write, Current, Shared, IInv, TypeOK
  <2>5. QED
    BY <2>3, <2>4 DEF Lives, Phased, Decided
<1>5. CASE CancelMark
  <2>1. mid \in Jobs /\ mid # NoJob
    BY <1>5, ServerAssumption DEF CancelMark
  <2> DEFINE rec == [Current(mid) EXCEPT
                       !.state = IF IsLive(Current(mid)) THEN "canceling" ELSE @]
  <2>2. rec.state = "canceling"
    BY <2>1, CurrentFacts DEF IInv, Marking, Record, IsLive
  <2>3. Write(mid, rec) /\ UNCHANGED <<pc, verdict>>
    BY <1>5 DEF CancelMark
  <2> HIDE DEF rec
  <2>4. \A s \in Runs : mem'[s] = mem[s] \/ mem'[s].state = "canceling"
    BY <2>2, <2>3 DEF Write, Shared, IInv, TypeOK
  <2>5. QED
    BY <2>3, <2>4 DEF Lives, Phased, Decided, InPhase
<1>6. CASE SweepStep
  BY <1>6 DEF Lives, Phased, Decided, SweepStep, SweepPick, SweepDrop
<1>7. CASE Crash
  <2>1. \A r \in Runs : pc'[r] \in {"unused", "done", "lost"}
    BY <1>7 DEF Crash, IInv, TypeOK
  <2>2. QED
    BY <2>1 DEF Lives, Phased, Decided, InPhase
<1>8. CASE BootStep
  BY <1>8 DEF Lives, Phased, Decided, BootStep, Restart, Adopt, Adopted, Announce,
              AnnounceRaises, Announced
<1>9. CASE UNCHANGED vars
  BY <1>9 DEF vars, Lives, Phased, Decided
<1>10. QED
  BY <1>1, <1>2, <1>3, <1>4, <1>5, <1>6, <1>7, <1>8, <1>9
  DEF Next, RequestStep, SubmitLow, Delete, NoOverlap

(* Both writes of a cancel start from the record on disk, as far as the    *)
(* abstract job shows it, unless the job is over.                          *)
LEMMA CurrentOnDisk ==
  ASSUME IInv, "raise" \notin Env, NEW j \in Jobs
  PROVE  /\ Current(j).state = disk[j].state
         /\ Current(j).state \notin TerminalStates => Current(j) = disk[j]
<1>1. CASE Shared(j) /\ pc[recOf[j]] \in Driving
  BY <1>1, CurrentFacts DEF IInv, Driven
<1>2. CASE Shared(j) /\ pc[recOf[j]] \notin Driving
  BY <1>2, CurrentFacts DEF IInv, Concluded
<1>3. CASE ~Shared(j)
  BY <1>3, CurrentFacts
<1>4. QED
  BY <1>1, <1>2, <1>3

LEMMA FlagLife ==
  ASSUME IInv, "raise" \notin Env, NEW j \in Jobs, CancelFlag(j)
  PROVE  LifeStep
<1> DEFINE rec == [Current(j) EXCEPT !.cancelRequested = TRUE]
<1>1. rec.cancelRequested = TRUE /\ rec.state = disk[j].state /\ rec.state # "absent"
  BY CurrentFacts, CurrentOnDisk DEF CancelFlag, Record
<1>2. disk' = [disk EXCEPT ![j] = rec] /\ heard' = heard
  BY DEF CancelFlag, Write
<1> HIDE DEF rec
<1>3. Life!Cancels(j)
  BY <1>1, <1>2, Flagging DEF IInv, Life!Cancels
<1>4. QED
  BY <1>3 DEF LifeStep, Life!LifeNext

LEMMA MarkLife ==
  ASSUME IInv, "raise" \notin Env, CancelMark
  PROVE  LifeStep
<1>1. PICK j \in Jobs : j = mid
  BY DEF CancelMark
<1> DEFINE rec == [Current(j) EXCEPT
                     !.state = IF IsLive(Current(j)) THEN "canceling" ELSE @]
<1>2. /\ Current(j).state \in LiveStates \cup {"canceling"}
      /\ Current(j).cancelRequested /\ Current(j) \in Record
  BY <1>1, CurrentType, ServerAssumption DEF IInv, Marking
<1>3. Current(j) = disk[j]
  BY <1>2, CurrentOnDisk DEF LiveStates, TerminalStates
<1>4. rec.state = "canceling" /\ rec.cancelRequested = disk[j].cancelRequested
  BY <1>2, <1>3 DEF Record, IsLive
<1>5. disk' = [disk EXCEPT ![j] = rec] /\ heard' = heard
  BY <1>1 DEF CancelMark, Write
<1>6. CASE disk[j].state \in LiveStates
  <2> HIDE DEF rec
  <2>1. Life!Becomes(j, "canceling")
    BY <1>4, <1>5, Becoming DEF IInv
  <2>2. disk[j].cancelRequested = TRUE
    BY <1>2, <1>3 DEF Record
  <2>3. Life!Canceling(j)
    BY <1>6, <2>1, <2>2, StatesApart DEF Life!Canceling
  <2>4. QED
    BY <2>3 DEF LifeStep, Life!LifeNext
<1>7. CASE disk[j].state \notin LiveStates
  <2>1. rec = disk[j]
    BY <1>2, <1>3, <1>7 DEF IsLive, Record
  <2>2. disk' = disk
    BY <1>5, <2>1 DEF IInv, TypeOK
  <2>3. QED
    BY <1>5, <2>2, Unseen
<1>8. QED
  BY <1>6, <1>7

LEMMA SubmitLife ==
  ASSUME IInv, Blank, NEW j \in Jobs, NEW r \in Runs, Submit(j, r)
  PROVE  LifeStep
<1>1. /\ disk[j].state = "absent" /\ disk' = [disk EXCEPT ![j] = Created]
      /\ heard' = heard
  BY DEF Submit, Admissible, Accept
<1>2. Created.state = "preparing" /\ Created.cancelRequested = disk[j].cancelRequested
  BY <1>1 DEF Created, Absent, Blank
<1>3. Life!Becomes(j, "preparing")
  BY <1>1, <1>2, Becoming DEF IInv
<1>4. Life!Submitted(j)
  BY <1>1, <1>3 DEF Life!Submitted
<1>5. QED
  BY <1>4 DEF LifeStep, Life!LifeNext

(* What a heartbeat posts is on record.                                    *)
LEMMA BeatLife ==
  ASSUME IInv, NEW r \in Runs, Heartbeat(r)
  PROVE  LifeStep
<1>1. pc[r] \in Held /\ pc[r] \in Driving
  BY DEF Heartbeat, IInv, HeartbeatsEnd, Held, Driving
<1>2. job[r] \in Jobs /\ r # NoRun /\ recOf[job[r]] = r
  BY <1>1, HeldKnown DEF IInv, Owned
<1>3. mem[r].state \in LiveStates \cup {"canceling"} /\ disk[job[r]] = mem[r]
  BY <1>1 DEF IInv, Driven
<1>4. mem[r].state # "absent"
  BY <1>3 DEF LiveStates
<1>5. heard' = [heard EXCEPT ![job[r]] = disk[job[r]].state]
  BY <1>2, <1>3, <1>4 DEF Heartbeat
<1>6. disk' = disk
  BY <1>3 DEF Heartbeat, IInv, TypeOK
<1>7. QED
  BY <1>2, <1>3, <1>4, <1>5, <1>6, Telling DEF IInv

LEMMA SweepLife ==
  ASSUME IInv, "raise" \notin Env, NEW j \in Jobs, SweepPick(j) \/ SweepDrop(j)
  PROVE  LifeStep
<1>1. \/ disk' = disk
      \/ disk' = [disk EXCEPT ![j] = stale[j]] /\ stale[j] # Absent
  BY DEF SweepPick, SweepDrop
<1>2. heard' = heard
  BY DEF SweepPick, SweepDrop
<1>3. CASE disk' = disk
  BY <1>2, <1>3, Unseen
<1>4. CASE disk' = [disk EXCEPT ![j] = stale[j]] /\ stale[j] # Absent
  <2>1. /\ stale[j] \in Record /\ stale[j].state = disk[j].state
        /\ stale[j].state \in TerminalStates
    BY <1>4 DEF IInv, TypeOK, Swept
  <2>2. QED
    BY <1>2, <1>4, <2>1, Rewriting DEF IInv
<1>5. QED
  BY <1>1, <1>3, <1>4

(* A job that was moving when the server died ends as interrupted.         *)
LEMMA BootLife ==
  ASSUME IInv, BootStep
  PROVE  LifeStep
<1>1. CASE Restart \/ Adopted \/ Announced \/ AnnounceRaises
  BY <1>1, Unseen DEF Restart, Adopted, Announced, AnnounceRaises
<1>2. CASE \E j \in Jobs : Adopt(j)
  <2>1. PICK j \in Jobs : Adopt(j)
    BY <1>2
  <2> DEFINE rec == [disk[j] EXCEPT !.state = "interrupted"]
  <2>2. disk[j] \in Record /\ disk[j].state \in LiveStates
    BY <2>1 DEF Adopt, Orphaned, IsLive, IInv, TypeOK
  <2>3. /\ rec.state = "interrupted" /\ rec.cancelRequested = disk[j].cancelRequested
        /\ disk' = [disk EXCEPT ![j] = rec] /\ heard' = heard
    BY <2>1, <2>2 DEF Adopt, Record
  <2> HIDE DEF rec
  <2>4. Life!Becomes(j, "interrupted")
    BY <2>3, Becoming DEF IInv
  <2>5. "interrupted" \in TerminalStates
    BY DEF TerminalStates
  <2>6. Life!Ends(j)
    BY <2>2, <2>4, <2>5, StatesApart DEF Life!Ends
  <2>7. QED
    BY <2>6 DEF LifeStep, Life!LifeNext
<1>3. CASE \E j \in Jobs : Announce(j)
  <2>1. PICK j \in Jobs : Announce(j)
    BY <1>3
  <2>2. disk' = disk /\ disk[j].state = "interrupted"
    BY <2>1 DEF Announce, IInv, Adopting
  <2>3. heard' = heard \/ heard' = [heard EXCEPT ![j] = disk[j].state]
    BY <2>1, <2>2 DEF Announce
  <2>4. QED
    BY <2>2, <2>3, Telling DEF IInv
<1>4. QED
  BY <1>1, <1>2, <1>3 DEF BootStep

LEMMA StepLife ==
  ASSUME IInv, Lives, Blank, NoOverlap, "raise" \notin Env, [Next]_vars
  PROVE  LifeStep
<1>1. CASE \E r \in Runs : RunStep(r)
  BY <1>1, RunLife
<1>2. CASE \E r \in Runs : PullTick(r)
  <2>1. PICK r \in Runs : PullTick(r)
    BY <1>2
  <2>2. pc[r] \in Driving /\ disk' = [disk EXCEPT ![job[r]] = mem[r]] /\ heard' = heard
    BY <2>1 DEF PullTick, Driving
  <2>3. disk' = disk
    BY <2>2 DEF IInv, TypeOK, Driven
  <2>4. QED
    BY <2>2, <2>3, Unseen
<1>3. CASE \E r \in Runs : Heartbeat(r)
  BY <1>3, BeatLife
<1>4. CASE \E r \in Runs : ChildStep(r) \/ KillStep(r)
  BY <1>4, Unseen DEF ChildStep, ChildEnds, ChildDies, KillStep, KillSeen, KillInsists
<1>5. CASE RequestStep
  BY <1>5, SubmitLife, FlagLife DEF RequestStep, SubmitLow, Delete, NoOverlap
<1>6. CASE CancelMark
  BY <1>6, MarkLife
<1>7. CASE SweepStep
  BY <1>7, SweepLife DEF SweepStep
<1>8. CASE Crash
  BY <1>8, Unseen DEF Crash
<1>9. CASE BootStep
  BY <1>9, BootLife
<1>10. CASE UNCHANGED vars
  BY <1>10, Unseen DEF vars
<1>11. QED
  BY <1>1, <1>2, <1>3, <1>4, <1>5, <1>6, <1>7, <1>8, <1>9, <1>10 DEF Next

(* No step of a life makes a record absent, or flags an absent one.        *)
LEMMA BlankStep ==
  ASSUME IInv, IInv', Blank, LifeStep
  PROVE  Blank'
<1> DEFINE S == [j \in Jobs |-> disk[j].state]
           F == [j \in Jobs |-> disk[j].cancelRequested]
<1> SUFFICES ASSUME NEW i \in Jobs, disk'[i].state = "absent"
             PROVE  disk'[i].cancelRequested = FALSE
  BY DEF Blank
<1>1. S'[i] = "absent" /\ S'[i] = disk'[i].state /\ F'[i] = disk'[i].cancelRequested
      /\ S[i] = disk[i].state /\ F[i] = disk[i].cancelRequested
  OBVIOUS
<1>2. S \in [Jobs -> LiveStates \cup TerminalStates \cup {"absent", "canceling"}]
      /\ F \in [Jobs -> BOOLEAN]
  BY DEF IInv, TypeOK, Record
<1>3. S[i] = "absent" => F[i] = FALSE
  BY <1>1 DEF Blank
<1>4. [Life!LifeNext]_<<S, F, heard>>
  BY DEF LifeStep
<1>5. ASSUME NEW j \in Jobs, NEW s, Life!Becomes(j, s), s # "absent"
      PROVE  S'[i] = S[i] /\ F'[i] = F[i]
  <2>1. S' = [S EXCEPT ![j] = s] /\ F' = F
    BY <1>5 DEF Life!Becomes
  <2> HIDE DEF S, F
  <2>2. QED
    BY <1>1, <1>2, <1>5, <2>1
<1>6. ASSUME NEW j \in Jobs, NEW f, S' = S, F' = [F EXCEPT ![j] = f], S[j] # "absent"
      PROVE  S'[i] = S[i] /\ F'[i] = F[i]
  <2> HIDE DEF S, F
  <2>1. QED
    BY <1>1, <1>2, <1>6
<1>7. S'[i] = S[i] /\ F'[i] = F[i]
  <2>1. CASE UNCHANGED <<S, F, heard>>
    BY <2>1
  <2>2. CASE \E j \in Jobs : Life!Submitted(j)
    BY <1>5, <2>2 DEF Life!Submitted
  <2>3. CASE \E j \in Jobs : Life!Moves(j)
    <3>1. \A s : "absent" \notin Life!After(s)
      BY DEF Life!After
    <3>2. QED
      BY <1>5, <2>3, <3>1 DEF Life!Moves
  <2>4. CASE \E j \in Jobs : Life!Canceling(j)
    BY <1>5, <2>4 DEF Life!Canceling
  <2>5. CASE \E j \in Jobs : Life!Ends(j)
    BY <1>5, <2>5 DEF Life!Ends, Life!Over
  <2>6. CASE \E j \in Jobs : Life!Cancels(j) \/ Life!Rewritten(j)
    <3>1. PICK j \in Jobs : Life!Cancels(j) \/ Life!Rewritten(j)
      BY <2>6
    <3>2. S' = S /\ S[j] # "absent" /\ \E f : F' = [F EXCEPT ![j] = f]
      BY <3>1 DEF Life!Cancels, Life!Rewritten, Life!Over
    <3>3. QED
      BY <1>6, <3>2
  <2>7. CASE \E j \in Jobs : Life!Told(j)
    BY <2>7 DEF Life!Told
  <2>8. QED
    BY <1>4, <2>1, <2>2, <2>3, <2>4, <2>5, <2>6, <2>7 DEF Life!LifeNext
<1>8. QED
  BY <1>1, <1>3, <1>7

(* runner.py, store.py, hooks.py: with no overlapping runs and a notifier  *)
(* that never raises, what the control plane sees of a job is the life     *)
(* JobLife gives it, for any number of jobs, runs, cancels and crashes.    *)
THEOREM LivesOnceCorrect ==
  ASSUME NoOverlap, "raise" \notin Env
  PROVE  Spec => LivesOnce
<1>1. Init => Life!LifeInit
  BY DEF Init, Life!LifeInit, Absent
<1>2. Init => Lives /\ Blank
  BY DEF Init, Lives, Phased, Decided, InPhase, Blank, Absent
<1>3. IInv /\ Lives /\ [Next]_vars => Lives'
  BY LivesStep
<1>4. IInv /\ Lives /\ Blank /\ [Next]_vars => LifeStep
  BY StepLife
<1>5. IInv /\ IInv' /\ Blank /\ LifeStep => Blank'
  BY BlankStep
<1>6. QED
  BY <1>1, <1>2, <1>3, <1>4, <1>5, InvCorrect, PTL
     DEF Spec, LivesOnce, Life!LifeSpec, LifeStep
=============================================================================

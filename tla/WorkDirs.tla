------------------------------- MODULE WorkDirs -------------------------------
(***************************************************************************)
(* The disk of one pod: the directories jobs leave, the records that claim *)
(* them, the floor under the free space, and the sweep that gives space    *)
(* back (server/reclaim.py) while jobs are submitted, run, end and are     *)
(* deleted.                                                                *)
(*                                                                         *)
(* The sweep runs in a thread, one step per file operation that another    *)
(* party can come between; jobs and requests are the event loop's.  What a *)
(* job does besides filling its directory is JobServer's business.         *)
(***************************************************************************)
EXTENDS Naturals, FiniteSets

CONSTANTS
  Jobs,
  Disk,      \* capacity
  Floor,     \* min_free_gb
  Target,    \* 1.25 times the floor
  Size,      \* a source
  Headroom,  \* a job's files, in sources
  Slots,     \* max_concurrent
  Ends,      \* how jobs end: pairs of a state and whether R2 has the output
  Stuck,     \* jobs with a file that will not go
  Unwanted,  \* jobs somebody may cancel
  MaxEnds,   \* bound on ends of jobs
  Env,       \* what else may happen, see Switches
  NoJob

(* "delete": jobs that are not live are deleted.  "halfway": the directory *)
(* may outlast it.  "wipe": the state directory is lost.                   *)
Switches == {"delete", "halfway", "wipe"}

EmergencyOrder == <<"succeeded", "canceled", "failed", "needs_review", "interrupted">>

TerminalStates == {EmergencyOrder[i] : i \in DOMAIN EmergencyOrder}

ASSUME WorkDirsAssumption ==
  /\ IsFiniteSet(Jobs)
  /\ {Disk, Floor, Target, Size, Headroom, Slots, MaxEnds} \subseteq Nat
  /\ Floor <= Target
  /\ Ends \subseteq TerminalStates \X BOOLEAN
  /\ Stuck \subseteq Jobs /\ Unwanted \subseteq Jobs
  /\ Env \subseteq Switches
  /\ NoJob \notin Jobs

(* A record: its state, whether it names an output in R2, when it ended    *)
(* and whether that is longer ago than the retention window.               *)
Record == [state: TerminalStates \cup {"absent", "live", "canceling"},
           delivered: BOOLEAN, finished: 0 .. MaxEnds, expired: BOOLEAN]

Absent == [state |-> "absent", delivered |-> FALSE, finished |-> 0, expired |-> FALSE]

Live == [Absent EXCEPT !.state = "live"]

Canceling == [Absent EXCEPT !.state = "canceling"]

VARIABLES
  rec,       \* the records on disk
  heavy,     \* heavy[j]: what j's directory holds besides small records
  dirs,      \* the jobs that have a directory
  old,       \* the directories last touched more than an hour ago
  made,      \* those made by the submission that runs in them, not deleted since
  run,       \* the coroutine of a job: whether require_space measured it
  asked,     \* the running jobs that are to be canceled
  ended,     \* ends of jobs so far
  crowded,   \* history: jobs that ran beside one too many, see Squeezed
  wait,      \* a job's submission that waits for a sweep, and for which
  spc,       \* where the sweep is
  todo,      \* the jobs its pass has still to look at
  cand,      \* the records it read
  left,      \* the candidates its first pass left
  noting,    \* the job whose files it has just removed
  orphans,   \* known while it lists, then what it takes for orphans
  low        \* whether it found the disk below the floor

files == <<heavy, dirs, old, made>>
job   == <<rec, files, run, asked, ended, crowded>>
sweep == <<spc, todo, cand, left, noting, orphans, low>>
vars  == <<job, wait, sweep>>

Terminal(r) == r.state \in TerminalStates

Need == Headroom * Size

(* The units of disk in use: which of which job.                           *)
Taken == {u \in Jobs \X (1 .. Need) : u[2] <= heavy[u[1]]}

Used == Cardinality(Taken)

Free == Disk - Used

TypeOK ==
  /\ rec \in [Jobs -> Record]
  /\ heavy \in [Jobs -> 0 .. Need]
  /\ dirs \subseteq Jobs /\ old \subseteq dirs /\ made \subseteq dirs
  /\ \A j \in Jobs \ dirs : heavy[j] = 0
  /\ run \in [Jobs -> {"no", "new", "measured", "unmeasured"}]
  /\ asked \subseteq Jobs /\ crowded \subseteq Jobs
  /\ ended \in 0 .. MaxEnds
  /\ wait \in [Jobs -> {"no", "queued", "sweeping", "swept"}]
  /\ spc \in {"off", "reading", "dropping", "listing", "removing", "emergency",
             "measuring"}
  /\ todo \subseteq Jobs
  /\ cand \in [Jobs -> Record]
  /\ left \subseteq Jobs
  /\ noting \in Jobs \cup {NoJob}
  /\ orphans \subseteq Jobs
  /\ low \in BOOLEAN
  /\ Used <= Disk

Init ==
  /\ rec = [j \in Jobs |-> Absent]
  /\ heavy = [j \in Jobs |-> 0]
  /\ dirs = {} /\ old = {} /\ made = {}
  /\ run = [j \in Jobs |-> "no"]
  /\ asked = {} /\ crowded = {}
  /\ ended = 0
  /\ wait = [j \in Jobs |-> "no"]
  /\ spc = "off"
  /\ todo = {} /\ left = {} /\ orphans = {}
  /\ cand = [j \in Jobs |-> Absent]
  /\ noting = NoJob
  /\ low = FALSE

-----------------------------------------------------------------------------
(* POST /jobs.  Submissions of different jobs overlap; two of one job are  *)
(* JobServer's.                                                            *)
Known(j) == rec[j].state # "absent"

Running == {j \in Jobs : run[j] # "no"}

Waiting == {j \in Jobs : wait[j] # "no"}

(* Variant: one job more than there are slots.                             *)
BusyBeyond == Cardinality({j \in Jobs : rec[j].state = "live"}) > Slots

Busy == Cardinality({j \in Jobs : rec[j].state = "live"}) >= Slots

(* A job is let in beside one that runs and is not counted, or after its   *)
(* sweep although the slots have been taken meanwhile.                     *)
Squeezed == Busy \/ \E k \in Running : rec[k].state # "live"

(* The directory first, then the record.  A directory that is there is     *)
(* taken as it is, with its files and its age.                             *)
Create(j) ==
  /\ rec' = [rec EXCEPT ![j] = Live]
  /\ run' = [run EXCEPT ![j] = "new"]
  /\ dirs' = dirs \cup {j}
  /\ made' = IF j \in dirs THEN made \ {j} ELSE made \cup {j}
  /\ crowded' = IF Squeezed THEN crowded \cup Running \cup {j} ELSE crowded
  /\ UNCHANGED <<heavy, old, asked, ended>>

Room == ended + Cardinality(Running) + Cardinality(Waiting) < MaxEnds

(* A submission of a job that has a record is answered with it, one beside *)
(* a full set of slots is refused; neither changes anything.               *)
Acceptable(j) == j \notin Running \cup Waiting /\ ~Known(j) /\ ~Busy /\ Room

Post(j) ==
  /\ Acceptable(j)
  /\ Free >= Floor
  /\ Create(j)
  /\ UNCHANGED <<wait, sweep>>

(* Below the floor the handler awaits a sweep of its own before it refuses. *)
PostLow(j) ==
  /\ Acceptable(j)
  /\ Free < Floor
  /\ wait' = [wait EXCEPT ![j] = "queued"]
  /\ UNCHANGED <<job, sweep>>

(* The free space is read again, the other checks are not made again.      *)
PostAgain(j) ==
  /\ wait[j] = "swept"
  /\ wait' = [wait EXCEPT ![j] = "no"]
  /\ IF Free >= Floor THEN Create(j) ELSE UNCHANGED job
  /\ UNCHANGED sweep

(* POST /jobs/{id}/cancel: the job holds no slot from here on, whatever    *)
(* its child still writes.                                                 *)
Cancel(j) ==
  /\ j \in Unwanted \cap Running
  /\ rec' = [rec EXCEPT ![j] = Canceling]
  /\ asked' = asked \cup {j}
  /\ UNCHANGED <<files, run, ended, crowded, wait, sweep>>
-----------------------------------------------------------------------------
(* A job fills its directory and ends.                                     *)
Conclude(j, state, delivered) ==
  /\ rec' = [rec EXCEPT ![j] = [state |-> state, delivered |-> delivered,
                               finished |-> ended + 1, expired |-> FALSE]]
  /\ ended' = ended + 1
  /\ run' = [run EXCEPT ![j] = "no"]
  /\ asked' = asked \ {j}
  /\ crowded' = crowded \ {j}
  /\ made' = made \ {j}
  /\ UNCHANGED <<heavy, dirs, old>>

(* What a cancel explains is told as one.                                  *)
Told(j, state, explained) == IF j \in asked /\ explained THEN "canceled" ELSE state

Enough == Free >= Need

(* `downloading`, `running` and `uploading` are saved whatever the record  *)
(* says, `canceling` too.                                                  *)
Saved(j) == rec' = [rec EXCEPT ![j] = Live]

(* require_space: a known size is compared with the free space, a job      *)
(* without one, or with a local input, goes ahead.                         *)
Stage(j) ==
  /\ run[j] = "new"
  /\ \/ ~Enough /\ Conclude(j, Told(j, "failed", TRUE), FALSE)
     \/ Enough /\ run' = [run EXCEPT ![j] = "measured"] /\ Saved(j)
               /\ UNCHANGED <<files, asked, ended, crowded>>
     \/ run' = [run EXCEPT ![j] = "unmeasured"] /\ Saved(j)
               /\ UNCHANGED <<files, asked, ended, crowded>>
  /\ UNCHANGED <<wait, sweep>>

Staged(j) == run[j] \in {"measured", "unmeasured"}

MovesOn(j) ==
  /\ Staged(j)
  /\ Saved(j)
  /\ UNCHANGED <<files, run, asked, ended, crowded, wait, sweep>>

Write(j) ==
  /\ Staged(j)
  /\ j \in dirs
  /\ heavy[j] < Need
  /\ Free > 0
  /\ heavy' = [heavy EXCEPT ![j] = @ + 1]
  /\ old' = old \ {j}
  /\ UNCHANGED <<rec, dirs, made, run, asked, ended, crowded, wait, sweep>>

End(j) ==
  /\ Staged(j)
  /\ \E e \in Ends : Conclude(j, Told(j, e[1], e[1] = "interrupted"), e[2])
  /\ UNCHANGED <<wait, sweep>>

(* What reclaim leaves of j's files: the small records, and what will not  *)
(* go.                                                                     *)
Emptied(j) == [heavy EXCEPT ![j] = IF j \in Stuck THEN @ ELSE 0]

(* reclaim.after_delivery.  A pod that dies first leaves it to the sweep.  *)
AfterDelivery(j) ==
  /\ Terminal(rec[j])
  /\ rec[j].delivered
  /\ heavy' = Emptied(j)
  /\ UNCHANGED <<rec, dirs, old, made, run, asked, ended, crowded, wait, sweep>>

(* DELETE /jobs/{id}: rmtree ignores errors, the record goes in any case.  *)
(* A job that is still being canceled is not live.                         *)
Delete(j) ==
  /\ "delete" \in Env
  /\ Known(j)
  /\ rec[j].state # "live"
  /\ rec' = [rec EXCEPT ![j] = Absent]
  /\ made' = made \ {j}
  /\ \/ /\ j \notin Stuck
        /\ heavy' = [heavy EXCEPT ![j] = 0]
        /\ dirs' = dirs \ {j}
        /\ old' = old \ {j}
     \/ /\ "halfway" \in Env \/ j \in Stuck
        /\ UNCHANGED <<heavy, dirs, old>>
  /\ UNCHANGED <<run, asked, ended, crowded, wait, sweep>>

(* The state directory is lost while the pod is down.                      *)
Wipe ==
  /\ "wipe" \in Env
  /\ Running = {} /\ spc = "off" /\ Waiting = {}
  /\ rec' = [j \in Jobs |-> Absent]
  /\ UNCHANGED <<files, run, asked, ended, crowded, wait, sweep>>

(* Time passes, but no hour within one sweep.                              *)
DirAges(j) ==
  /\ j \in dirs \ old
  /\ spc = "off"
  /\ old' = old \cup {j}
  /\ UNCHANGED <<rec, heavy, dirs, made, run, asked, ended, crowded, wait, sweep>>

Expires(j) ==
  /\ Terminal(rec[j]) /\ ~rec[j].expired
  /\ rec' = [rec EXCEPT ![j].expired = TRUE]
  /\ UNCHANGED <<files, run, asked, ended, crowded, wait, sweep>>
-----------------------------------------------------------------------------
(* The sweep: the timer's or a submission's, one after the other.          *)
SweepStarts ==
  /\ spc = "off"
  /\ \/ UNCHANGED wait
     \/ \E j \in Jobs : wait[j] = "queued" /\ wait' = [wait EXCEPT ![j] = "sweeping"]
  /\ spc' = "reading"
  /\ todo' = Jobs
  /\ UNCHANGED <<job, cand, left, noting, orphans, low>>

(* _reclaimable: a finished job whose directory holds more than records.   *)
Candidate(j) == Terminal(rec[j]) /\ heavy[j] > 0

Consider(j) ==
  /\ spc = "reading"
  /\ j \in todo
  /\ todo' = todo \ {j}
  /\ cand' = [cand EXCEPT ![j] = IF Candidate(j) THEN rec[j] ELSE Absent]
  /\ UNCHANGED <<job, wait, spc, left, noting, orphans, low>>

Considered ==
  /\ spc = "reading"
  /\ todo = {}
  /\ spc' = "dropping"
  /\ todo' = {j \in Jobs : cand[j] # Absent}
  /\ UNCHANGED <<job, wait, cand, left, noting, orphans, low>>

(* Variant: nobody comes for what a canceled job leaves.                   *)
DueOnceCanceled(r) == r.delivered \/ r.expired \/ r.state = "canceled"

(* Delivered: R2 has the bytes.  Expired: nobody came for them.            *)
Due(r) == r.delivered \/ r.expired

(* reclaim: the files go, and, if any did, the copy of the record that was *)
(* read is saved.                                                          *)
Drop(j) ==
  /\ heavy' = Emptied(j)
  /\ noting' = IF heavy'[j] < heavy[j] THEN j ELSE NoJob
  /\ UNCHANGED <<rec, dirs, old, made, run, asked, ended, crowded>>

DropDue(j) ==
  /\ spc = "dropping"
  /\ noting = NoJob
  /\ j \in todo
  /\ Due(cand[j])
  /\ todo' = todo \ {j}
  /\ Drop(j)
  /\ left' = IF noting' = j THEN left ELSE left \cup {j}
  /\ UNCHANGED <<wait, spc, cand, orphans, low>>

Keep(j) ==
  /\ spc = "dropping"
  /\ noting = NoJob
  /\ j \in todo
  /\ ~Due(cand[j])
  /\ todo' = todo \ {j}
  /\ left' = left \cup {j}
  /\ UNCHANGED <<job, wait, spc, cand, noting, orphans, low>>

(* The copy of the record is saved, whatever has become of the file since. *)
Note ==
  /\ noting # NoJob
  /\ rec' = [rec EXCEPT ![noting] = cand[noting]]
  /\ noting' = NoJob
  /\ UNCHANGED <<files, run, asked, ended, crowded, wait, spc, todo, cand, left,
                 orphans, low>>

(* _orphan_dirs: the records are read before the directories are listed.   *)
ReadKnown ==
  /\ spc = "dropping"
  /\ todo = {}
  /\ noting = NoJob
  /\ spc' = "listing"
  /\ orphans' = {j \in Jobs : rec[j].state # "absent"}
  /\ UNCHANGED <<job, wait, todo, cand, left, noting, low>>

(* Variant: a directory is an orphan however young it is.                  *)
OrphansOfAnyAge(known) == dirs \ known

Orphans(known) == old \ known

ListDirs ==
  /\ spc = "listing"
  /\ spc' = "removing"
  /\ orphans' = Orphans(orphans)
  /\ UNCHANGED <<job, wait, todo, cand, left, noting, low>>

RemoveOrphan(j) ==
  /\ spc = "removing"
  /\ j \in orphans
  /\ orphans' = orphans \ {j}
  /\ heavy' = Emptied(j)
  /\ dirs' = IF j \in Stuck THEN dirs ELSE dirs \ {j}
  /\ old' = old \cap dirs'
  /\ made' = made \cap dirs'
  /\ UNCHANGED <<rec, run, asked, ended, crowded, wait, spc, todo, cand, left,
                 noting, low>>

SweepEnds ==
  /\ wait' = [j \in Jobs |-> IF wait[j] = "sweeping" THEN "swept" ELSE wait[j]]
  /\ spc' = "off"
  /\ cand' = [j \in Jobs |-> Absent]
  /\ left' = {}
  /\ low' = FALSE

(* _emergency: below the floor the window counts for nothing.              *)
Look ==
  /\ spc = "removing"
  /\ orphans = {}
  /\ IF Free >= Floor \/ left = {}
       THEN SweepEnds
       ELSE spc' = "emergency" /\ low' = TRUE /\ UNCHANGED <<wait, cand, left>>
  /\ UNCHANGED <<job, todo, noting, orphans>>

Rank(r) == CHOOSE i \in DOMAIN EmergencyOrder : EmergencyOrder[i] = r.state

(* The cheapest to lose first, the oldest first among them.                *)
Before(j, k) ==
  \/ Rank(cand[j]) < Rank(cand[k])
  \/ Rank(cand[j]) = Rank(cand[k]) /\ cand[j].finished <= cand[k].finished

DropForSpace(j) ==
  /\ spc = "emergency"
  /\ j \in left
  /\ \A k \in left : Before(j, k)
  /\ left' = left \ {j}
  /\ Drop(j)
  /\ spc' = "measuring"
  /\ UNCHANGED <<wait, todo, cand, orphans, low>>

Relief == Free >= Target

(* A margin over the floor ends it.                                        *)
Measure ==
  /\ spc = "measuring"
  /\ noting = NoJob
  /\ IF Relief \/ left = {}
       THEN SweepEnds
       ELSE spc' = "emergency" /\ UNCHANGED <<wait, cand, left, low>>
  /\ UNCHANGED <<job, todo, noting, orphans>>
-----------------------------------------------------------------------------
SweepStep ==
  \/ \E j \in Jobs : \/ Consider(j) \/ DropDue(j) \/ Keep(j)
                     \/ RemoveOrphan(j) \/ DropForSpace(j)
  \/ Considered \/ Note \/ ReadKnown \/ ListDirs \/ Look \/ Measure

RunStep(j) == Stage(j) \/ MovesOn(j) \/ End(j)

Next ==
  \/ \E j \in Jobs : \/ Post(j) \/ PostLow(j) \/ PostAgain(j) \/ Cancel(j)
                     \/ RunStep(j) \/ Write(j) \/ AfterDelivery(j) \/ Delete(j)
                     \/ DirAges(j) \/ Expires(j)
  \/ Wipe \/ SweepStarts \/ SweepStep

Spec == Init /\ [][Next]_vars
-----------------------------------------------------------------------------
(* Properties. *)

(* The record the sweep read is about the end the record on disk is about, *)
(* and nobody runs the job again.                                          *)
SameEnd(j) ==
  /\ Terminal(rec[j])
  /\ rec[j].finished = cand[j].finished
  /\ run[j] = "no"

(* reclaim.py: "The output goes only once R2 has it."  The sweep takes the *)
(* files of a finished job only if R2 has the output, the window is over   *)
(* or it found the disk below the floor.                                   *)
OnlyCopyKept ==
  [][\A j \in Jobs : noting # j /\ noting' = j /\ SameEnd(j)
       => rec[j].delivered \/ rec[j].expired \/ low]_vars

(* reclaim.py, ORPHAN_DIR_MIN_AGE: the directory a running job's           *)
(* submission made looks abandoned to a sweep that read the records before *)
(* it, and is not taken for that.                                          *)
NewDirKept ==
  [][spc = "listing" /\ spc' = "removing"
       => made \cap orphans' = {}]_vars

(* No directory is removed as an orphan under a job that runs in it. *)
LiveDirKept ==
  [][\A j \in orphans \ orphans' :
       spc = "removing" /\ run[j] # "no" /\ j \in dirs => j \in dirs']_vars

(* transfer.require_space: "Refuse before starting rather than fail deep   *)
(* into a job": what a job that was let pass has still to write fits.      *)
Fits(j) == run[j] = "measured" => Need - heavy[j] <= Free

(* As it is said there; it fails where two jobs run at a time.             *)
FitsAlways == \A j \in Jobs : Fits(j)

(* With one slot two jobs run at a time in three ways only: one of them    *)
(* is canceled and still writes (runner.py:194), it was deleted and        *)
(* submitted again and the sweep's copy has replaced its record, or one    *)
(* was let in after its own sweep while the other took the slot            *)
(* (app.py:313, 333, 380).  What every other job was let pass for fits,    *)
(* whatever is swept, canceled and deleted beside it.                      *)
AdmittedFits == \A j \in Jobs \ crowded : Fits(j)
=============================================================================

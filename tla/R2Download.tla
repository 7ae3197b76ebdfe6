------------------------------ MODULE R2Download ------------------------------
(***************************************************************************)
(* r2.download: an object is fetched in chunks by a pool of workers, in    *)
(* any order, into one preallocated .part file; a sidecar file says which  *)
(* chunks are there, so that a run that died can be taken up again.        *)
(*                                                                         *)
(* One run at a time writes a destination.  Its workers, its death, the    *)
(* owner of the object and whoever uses the finished file interleave.      *)
(***************************************************************************)
EXTENDS Download, Naturals, FiniteSets

CONSTANTS
  NChunks,     \* chunks of the object
  Workers,     \* worker threads
  Overwrites,  \* the values `overwrite` may have
  Env,         \* what else may happen, see Switches
  Zeros, Torn, NoSidecar

(* "swap": the object changes while a run reads it.  "late": a run is      *)
(* killed between the rename and the removal of its sidecar.  "revert": an *)
(* earlier content of the object is put back.                              *)
Switches == {"swap", "late", "revert"}

Chunks == 0 .. NChunks - 1

(* What a chunk of the file holds: the bytes of a version, zeros or some   *)
(* of each.                                                                *)
Bytes == Versions \cup {Zeros, Torn}

Content == [Chunks -> Bytes]

Sidecar == [version: Versions, done: SUBSET Chunks]

ASSUME DownloadAssumption ==
  /\ Versions \subseteq Nat
  /\ NChunks \in Nat \ {0}
  /\ Workers \in Nat \ {0}
  /\ Overwrites \subseteq BOOLEAN
  /\ MaxFaults \in Nat
  /\ Env \subseteq Switches

ASSUME AbsentAssumption ==
  /\ NoVersion \notin Versions
  /\ Zeros \notin Versions /\ Torn \notin Versions
  /\ NoFile \notin Content
  /\ NoSidecar \notin Sidecar

VARIABLES
  object,   \* the version R2 serves
  part,     \* <dest>.part
  sidecar,  \* <dest>.wmrm-dl.json: _State as it was written last
  dest,     \* the finished file
  pc,       \* where the run is
  info,     \* the version stat() saw
  done,     \* _State.done
  dirty,    \* _State._dirty
  flushed,  \* whether the sidecar was written by this run: _flushed > 0
  from,     \* from[i]: the version the open request for chunk i reads
  landed,   \* the chunks whose worker has written all of it
  failed,   \* the chunks whose worker gave up
  ending,   \* "no", or why the pool is shut down: "failed", "interrupted"
  faults

disk  == <<part, sidecar, dest>>
state == <<done, dirty, flushed>>
pool  == <<from, landed, failed, ending>>
vars  == <<object, disk, pc, info, state, pool, faults>>

TypeOK ==
  /\ object \in Versions
  /\ part \in Content \cup {NoFile}
  /\ sidecar \in Sidecar \cup {NoSidecar}
  /\ dest \in Content \cup {NoFile}
  /\ pc \in {"idle", "opening", "fetching", "renaming", "unlinking"}
  /\ info \in Versions \cup {NoVersion}
  /\ done \subseteq Chunks
  /\ dirty \in BOOLEAN
  /\ flushed \in BOOLEAN
  /\ from \in [Chunks -> Versions \cup {NoVersion}]
  /\ landed \subseteq Chunks
  /\ failed \subseteq Chunks
  /\ ending \in {"no", "failed", "interrupted"}
  /\ faults \in 0 .. MaxFaults
  /\ pc # "idle" => info \in Versions
  /\ pc = "fetching" => part # NoFile

Init ==
  /\ object \in Versions
  /\ part = NoFile
  /\ sidecar = NoSidecar
  /\ dest = NoFile
  /\ pc = "idle"
  /\ info = NoVersion
  /\ done = {}
  /\ dirty = FALSE
  /\ flushed = FALSE
  /\ from = [i \in Chunks |-> NoVersion]
  /\ landed = {}
  /\ failed = {}
  /\ ending = "no"
  /\ faults = 0
-----------------------------------------------------------------------------
(* What a run keeps in memory is gone when it ends, however it ends.       *)
Exit ==
  /\ pc' = "idle"
  /\ info' = NoVersion
  /\ done' = {}
  /\ dirty' = FALSE
  /\ flushed' = FALSE
  /\ from' = [i \in Chunks |-> NoVersion]
  /\ landed' = {}
  /\ failed' = {}
  /\ ending' = "no"

Fault == faults < MaxFaults /\ faults' = faults + 1

(* Variants: any state file will do; none will.                            *)
AdoptAny == sidecar # NoSidecar

AdoptNone == FALSE

(* _State.load: the state file is about this very object.                  *)
Adoptable == sidecar # NoSidecar /\ sidecar.version = object

(* A finished file is left alone unless the caller overwrites.  A part     *)
(* without a state file that matches is removed, and the state that was    *)
(* loaded forgotten; the state file itself stays where it is.              *)
Start(overwrite) ==
  LET resumed == part # NoFile /\ Adoptable
  IN  /\ pc = "idle"
      /\ dest = NoFile \/ overwrite
      /\ info' = object
      /\ done' = IF resumed THEN sidecar.done ELSE {}
      /\ part' = IF resumed THEN part ELSE NoFile
      /\ pc' = "opening"
      /\ UNCHANGED <<object, sidecar, dest, dirty, flushed, pool, faults>>

(* _require_space refuses.                                                 *)
NoSpace ==
  /\ pc = "opening"
  /\ Fault
  /\ Exit
  /\ UNCHANGED <<object, disk>>

(* The part is opened and set to its full length, which fills a new one    *)
(* with zeros.                                                             *)
Allocate ==
  /\ pc = "opening"
  /\ part' = IF part = NoFile THEN [i \in Chunks |-> Zeros] ELSE part
  /\ pc' = "fetching"
  /\ UNCHANGED <<object, sidecar, dest, info, state, pool, faults>>
-----------------------------------------------------------------------------
(* The workers (_run_chunks).                                              *)
Busy == {i \in Chunks : from[i] # NoVersion}

(* A worker takes a chunk that is still to be fetched, asks for its range  *)
(* and begins to write it into place.                                      *)
Request(i) ==
  /\ pc = "fetching"
  /\ ending = "no"
  /\ i \in Chunks \ (done \cup failed \cup Busy)
  /\ Cardinality(Busy) < Workers
  /\ from' = [from EXCEPT ![i] = object]
  /\ part' = [part EXCEPT ![i] = Torn]
  /\ UNCHANGED <<object, sidecar, dest, pc, info, state, landed, failed, ending,
                 faults>>

(* An attempt fails (network, a short read): the range is asked for again. *)
Retry(i) ==
  /\ i \in Busy \ landed
  /\ Fault
  /\ from' = [from EXCEPT ![i] = object]
  /\ UNCHANGED <<object, disk, pc, info, state, landed, failed, ending>>

(* The last attempt failed.                                                *)
GiveUp(i) ==
  /\ i \in Busy \ landed
  /\ Fault
  /\ from' = [from EXCEPT ![i] = NoVersion]
  /\ failed' = failed \cup {i}
  /\ UNCHANGED <<object, disk, pc, info, state, landed, ending>>

(* All of the chunk is written.                                            *)
Land(i) ==
  /\ i \in Busy \ landed
  /\ part' = [part EXCEPT ![i] = from[i]]
  /\ landed' = landed \cup {i}
  /\ UNCHANGED <<object, sidecar, dest, pc, info, state, from, failed, ending,
                 faults>>

(* _write_locked: a temporary file takes the place of the state file.      *)
Persist(marks) == sidecar' = [version |-> info, done |-> marks]

(* _State.mark: the first mark of a run is written to the state file, of   *)
(* the later ones those that come five seconds after the last write.       *)
Mark(i) ==
  /\ i \in Busy \cap landed
  /\ done' = done \cup {i}
  /\ from' = [from EXCEPT ![i] = NoVersion]
  /\ landed' = landed \ {i}
  /\ \/ Persist(done') /\ dirty' = FALSE /\ flushed' = TRUE
     \/ flushed /\ dirty' = TRUE /\ UNCHANGED <<sidecar, flushed>>
  /\ UNCHANGED <<object, part, dest, pc, info, failed, ending, faults>>

(* The first failure cancels the chunks that no worker has taken.          *)
Cancel ==
  /\ pc = "fetching"
  /\ ending = "no"
  /\ failed # {}
  /\ ending' = "failed"
  /\ UNCHANGED <<object, disk, pc, info, state, from, landed, failed, faults>>

(* Ctrl-C does the same.                                                   *)
Interrupt ==
  /\ pc = "fetching"
  /\ ending = "no"
  /\ Fault
  /\ ending' = "interrupted"
  /\ UNCHANGED <<object, disk, pc, info, state, from, landed, failed>>

Flush == IF dirty THEN Persist(done) ELSE UNCHANGED sidecar

(* The pool has waited for the chunks in flight.  Only an interrupted run  *)
(* writes the state file once more.                                        *)
Stopped ==
  /\ ending # "no"
  /\ Busy = {}
  /\ IF ending = "interrupted" THEN Flush ELSE UNCHANGED sidecar
  /\ Exit
  /\ UNCHANGED <<object, part, dest, faults>>

Fetched ==
  /\ pc = "fetching"
  /\ ending = "no"
  /\ done = Chunks
  /\ Flush
  /\ dirty' = FALSE
  /\ pc' = "renaming"
  /\ UNCHANGED <<object, part, dest, info, done, flushed, pool, faults>>

Rename ==
  /\ pc = "renaming"
  /\ dest' = part
  /\ part' = NoFile
  /\ pc' = "unlinking"
  /\ UNCHANGED <<object, sidecar, info, state, pool, faults>>

Unlink ==
  /\ pc = "unlinking"
  /\ sidecar' = NoSidecar
  /\ Exit
  /\ UNCHANGED <<object, part, dest, faults>>
-----------------------------------------------------------------------------
(* The process or the pod dies.                                            *)
Kill ==
  /\ pc # "idle"
  /\ pc = "unlinking" => "late" \in Env
  /\ Fault
  /\ Exit
  /\ UNCHANGED <<object, disk>>

(* Somebody puts another file under the key.                               *)
Change(v) ==
  /\ pc = "idle" \/ "swap" \in Env
  /\ v > object \/ ("revert" \in Env /\ v # object)
  /\ object' = v
  /\ UNCHANGED <<disk, pc, info, state, pool, faults>>

(* The finished file is used up and removed.                               *)
Consume ==
  /\ pc = "idle"
  /\ dest # NoFile
  /\ dest' = NoFile
  /\ UNCHANGED <<object, part, sidecar, pc, info, state, pool, faults>>
-----------------------------------------------------------------------------
ChunkStep(i) == Request(i) \/ Land(i) \/ Mark(i)

RunStep ==
  \/ \E i \in Chunks : ChunkStep(i)
  \/ Allocate \/ Cancel \/ Stopped \/ Fetched \/ Rename \/ Unlink

FaultStep ==
  \/ \E i \in Chunks : Retry(i) \/ GiveUp(i)
  \/ NoSpace \/ Interrupt \/ Kill

Next ==
  \/ \E overwrite \in Overwrites : Start(overwrite)
  \/ RunStep \/ FaultStep
  \/ \E v \in Versions : Change(v)
  \/ Consume

Spec == Init /\ [][Next]_vars
-----------------------------------------------------------------------------
(* A finished file is one version of the object, all of it, through kills, *)
(* failures, changes of the object and resumes: a resume never builds on   *)
(* the wrong bytes (tests/test_r2.py).                                     *)
PublishedWhole == dest # NoFile =>
  \E v \in Versions : \A i \in Chunks : dest[i] = v

(* The chunks the next run of this object would not fetch again.           *)
Recorded ==
  IF sidecar # NoSidecar /\ sidecar.version = object /\ part # NoFile
    THEN sidecar.done ELSE {}

(* _State: a chunk is only ever recorded after it was written, so what a   *)
(* resume will not fetch again is in the file, also after a kill.          *)
RecordedIsWritten == \A i \in Recorded : part[i] = object

(* download: what was recorded is not fetched again, by this run or by     *)
(* any later one, until the file is published or the object changes.       *)
ProgressKept == [][pc # "renaming" /\ object' = object
                     => Recorded \subseteq Recorded']_vars
=============================================================================

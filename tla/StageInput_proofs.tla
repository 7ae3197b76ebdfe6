--------------------------- MODULE StageInput_proofs ---------------------------
(***************************************************************************)
(* Theorems about the two ways an input comes in and about the whole of    *)
(* StageInput, for any number of chunks, workers, versions, attempts and   *)
(* faults: what is recorded is written, stays recorded, and what is        *)
(* published is one version of the object.                                 *)
(***************************************************************************)
EXTENDS StageInput, SequenceTheorems, TLAPS

-----------------------------------------------------------------------------
(* R2Download: in parallel ranges from the bucket.                         *)

(* Runs are not killed between the rename and the removal of the sidecar,  *)
(* and the object does not change while it is read or return to what it    *)
(* was.                                                                    *)
Orderly == Env \cap Switches = {}

(* Chunk i is in the part file.                                            *)
Here(i) == part # NoFile /\ part[i] = object

(* A run works on the object as it is.                                     *)
Current == pc # "idle" => info = object

(* Only while it fetches does it have requests open ...                    *)
Requests == \A i \in Busy : pc = "fetching" /\ from[i] = object

(* ... and what they have brought is in the file.                          *)
Landings == \A i \in landed : pc = "fetching" /\ part[i] = object

(* A chunk in flight is not marked yet.                                    *)
InFlight == landed \subseteq Busy /\ Busy \cap done = {}

Endings == ending # "no" => pc = "fetching"

(* What the run has marked, or taken over, is in the file.                 *)
Marks == pc \in {"opening", "fetching", "renaming"} => \A i \in done : Here(i)

(* A run that has fetched everything ...                                   *)
Fetching == pc = "renaming" => done = Chunks /\ part # NoFile

(* ... and one that has renamed it.                                        *)
Renamed == pc = "unlinking" => part = NoFile

(* The state file is about this object or an earlier one; if about this    *)
(* one, the part is there until it is renamed.                             *)
StateFile == sidecar # NoSidecar =>
  /\ sidecar.version <= object
  /\ sidecar.version = object => part # NoFile \/ pc = "unlinking"

(* The run knows of everything that is recorded.                           *)
Informed == pc \in {"opening", "fetching", "renaming"} => Recorded \subseteq done

IInv == /\ TypeOK /\ Current /\ Requests /\ Landings /\ InFlight
        /\ Endings /\ Marks /\ Fetching /\ Renamed /\ StateFile /\ Informed
        /\ RecordedIsWritten /\ PublishedWhole

LEMMA InitInv == Init => IInv
<1> SUFFICES ASSUME Init PROVE IInv
  OBVIOUS
<1>1. TypeOK
  <2>1. faults \in 0 .. MaxFaults
    BY DownloadAssumption DEF Init
  <2>2. from \in [Chunks -> Versions \cup {NoVersion}]
    BY DEF Init
  <2>3. QED
    BY <2>1, <2>2 DEF Init, TypeOK
<1>2. Current /\ Requests /\ Landings /\ InFlight /\ Endings /\ Marks
  BY DEF Init, Current, Requests, Busy, Landings, InFlight, Endings, Marks
<1>3. Fetching /\ Renamed /\ StateFile /\ Informed /\ RecordedIsWritten /\ PublishedWhole
  BY DEF Init, Fetching, Renamed, StateFile, Informed, Recorded, RecordedIsWritten,
                PublishedWhole
<1>4. QED
  BY <1>1, <1>2, <1>3 DEF IInv

(* What is true of a run that has just ended.                              *)
LEMMA ExitFacts ==
  ASSUME Exit
  PROVE  /\ pc' = "idle" /\ info' = NoVersion /\ done' = {} /\ dirty' = FALSE
         /\ flushed' = FALSE /\ from' = [i \in Chunks |-> NoVersion]
         /\ landed' = {} /\ failed' = {} /\ ending' = "no"
BY DEF Exit

LEMMA FaultType ==
  ASSUME TypeOK, Fault
  PROVE  faults' \in 0 .. MaxFaults
BY DownloadAssumption DEF TypeOK, Fault

LEMMA StartInv ==
  ASSUME IInv, NEW overwrite \in Overwrites, Start(overwrite)
  PROVE  IInv'
<1> DEFINE resumed == part # NoFile /\ Adoptable
<1>1. /\ pc = "idle" /\ pc' = "opening" /\ info' = object
      /\ done' = IF resumed THEN sidecar.done ELSE {}
      /\ part' = IF resumed THEN part ELSE NoFile
      /\ UNCHANGED <<object, sidecar, dest, dirty, flushed, from, landed,
                     failed, ending, faults>>
  BY DEF Start, pool
<1>2. resumed => sidecar \in Sidecar
  BY DEF IInv, TypeOK, Adoptable
<1>3. resumed <=> part # NoFile /\ sidecar # NoSidecar /\ sidecar.version = object
  BY DEF Adoptable
<1>4. TypeOK'
  BY <1>1, <1>2 DEF IInv, TypeOK, Sidecar
<1>5. ending = "no" /\ Busy = {} /\ landed = {}
  BY <1>1 DEF IInv, Endings, Requests, Landings
<1>6 Current' /\ Requests' /\ Landings' /\ InFlight' /\ Endings'
         /\ Fetching' /\ Renamed'
  BY <1>1, <1>5 DEF Current, Requests, Busy, Landings, InFlight,
         Endings, Fetching, Renamed
<1>7. Recorded' = done'
  BY <1>1, <1>3 DEF Recorded
<1>8. \A i \in done' : Here(i)'
  BY <1>1, <1>3 DEF IInv, RecordedIsWritten, Recorded, Here
<1>9. Marks' /\ Informed' /\ RecordedIsWritten'
  BY <1>7, <1>8 DEF Marks, Informed, RecordedIsWritten, Here
<1>10. StateFile' /\ PublishedWhole'
  BY <1>1, <1>3 DEF IInv, StateFile, PublishedWhole
<1>11. QED
  BY <1>4, <1>6, <1>9, <1>10 DEF IInv

LEMMA AllocateInv ==
  ASSUME IInv, Allocate
  PROVE  IInv'
<1>1. /\ pc = "opening" /\ pc' = "fetching"
      /\ part' = IF part = NoFile THEN [i \in Chunks |-> Zeros] ELSE part
      /\ UNCHANGED <<object, sidecar, dest, info, done, dirty, flushed, from,
                     landed, failed, ending, faults>>
  BY DEF Allocate, state, pool
<1>2. part' \in Content
  BY <1>1 DEF IInv, TypeOK, Content, Bytes
<1>3. TypeOK'
  BY <1>1, <1>2, AbsentAssumption DEF IInv, TypeOK
<1>4. part = NoFile => done = {}
  BY <1>1 DEF IInv, Marks, Here
<1>5. part = NoFile => Recorded = {} /\ Recorded' = {}
  BY <1>1 DEF IInv, StateFile, Recorded
<1>6. part # NoFile => Recorded' = Recorded
  BY <1>1 DEF Recorded
<1>7 Current' /\ Requests' /\ Landings' /\ InFlight' /\ Endings'
         /\ Fetching' /\ Renamed'
  BY <1>1 DEF IInv, Current, Requests, Busy, Landings, InFlight,
         Endings, Fetching, Renamed
<1>8. Marks' /\ Informed'
  BY <1>1, <1>4, <1>5, <1>6 DEF IInv, Marks, Informed, Here
<1>9. RecordedIsWritten'
  BY <1>1, <1>5, <1>6 DEF IInv, RecordedIsWritten, Recorded
<1>10. StateFile' /\ PublishedWhole'
  BY <1>1, <1>2, AbsentAssumption DEF IInv, StateFile, PublishedWhole
<1>11. QED
  BY <1>3, <1>7, <1>8, <1>9, <1>10 DEF IInv
-----------------------------------------------------------------------------
LEMMA RequestInv ==
  ASSUME IInv, NEW i \in Chunks, Request(i)
  PROVE  IInv'
<1>1. /\ pc = "fetching" /\ ending = "no"
      /\ i \notin done /\ i \notin Busy
      /\ from' = [from EXCEPT ![i] = object]
      /\ part' = [part EXCEPT ![i] = Torn]
      /\ UNCHANGED <<object, sidecar, dest, pc, info, done, dirty, flushed,
                     landed, failed, ending, faults>>
  BY DEF Request, state
<1>2. part \in Content /\ part' \in Content
  BY <1>1 DEF IInv, TypeOK, Content, Bytes
<1>3. TypeOK'
  BY <1>1, <1>2, AbsentAssumption DEF IInv, TypeOK
<1>4. \A c \in Chunks \ {i} : part'[c] = part[c]
  BY <1>1, <1>2 DEF Content
<1>5. part # NoFile /\ part' # NoFile
  BY <1>2, AbsentAssumption
<1>6. i \notin landed
  BY <1>1 DEF IInv, InFlight
<1>7. Recorded' = Recorded /\ Recorded \subseteq done /\ done \subseteq Chunks
  BY <1>1, <1>5 DEF IInv, TypeOK, Informed, Recorded
<1>8. Current' /\ Requests' /\ Endings' /\ Fetching' /\ Renamed'
  BY <1>1 DEF IInv, TypeOK, Current, Requests, Busy, Endings, Fetching, Renamed
<1>9. Landings' /\ InFlight'
  BY <1>1, <1>4, <1>6 DEF IInv, TypeOK, Landings, InFlight, Busy
<1>10. Marks' /\ Informed' /\ RecordedIsWritten'
  BY <1>1, <1>4, <1>5, <1>7 DEF IInv, Marks, Informed, RecordedIsWritten, Here
<1>11. StateFile' /\ PublishedWhole'
  BY <1>1, <1>5 DEF IInv, StateFile, PublishedWhole
<1>12. QED
  BY <1>3, <1>8, <1>9, <1>10, <1>11 DEF IInv

(* Another attempt, or none.                                               *)
LEMMA StumbleInv ==
  ASSUME IInv, NEW i \in Chunks, Retry(i) \/ GiveUp(i)
  PROVE  IInv'
<1>1. /\ i \in Busy /\ i \notin landed /\ Fault
      /\ from' \in {[from EXCEPT ![i] = object], [from EXCEPT ![i] = NoVersion]}
      /\ failed' \in {failed, failed \cup {i}}
      /\ UNCHANGED <<object, part, sidecar, dest, pc, info, done, dirty,
                     flushed, landed, ending>>
  BY DEF Retry, GiveUp, disk, state
<1>2. TypeOK'
  <2>1. faults' \in 0 .. MaxFaults
    BY <1>1, FaultType DEF IInv
  <2>2. QED
    BY <1>1, <2>1 DEF IInv, TypeOK
<1>3. Requests' /\ InFlight'
  BY <1>1 DEF IInv, TypeOK, Requests, InFlight, Busy
<1>4. Recorded' = Recorded
  BY <1>1 DEF Recorded
<1>5. Current' /\ Landings' /\ Endings' /\ Fetching' /\ Renamed' /\ Marks'
  BY <1>1 DEF IInv, Current, Landings, Endings, Fetching, Renamed, Marks, Here
<1>6. Informed' /\ RecordedIsWritten' /\ StateFile' /\ PublishedWhole'
  BY <1>1, <1>4 DEF IInv, Informed, RecordedIsWritten, StateFile, PublishedWhole
<1>7. QED
  BY <1>2, <1>3, <1>5, <1>6 DEF IInv

LEMMA LandInv ==
  ASSUME IInv, NEW i \in Chunks, Land(i)
  PROVE  IInv'
<1>1. /\ i \in Busy
      /\ part' = [part EXCEPT ![i] = from[i]]
      /\ landed' = landed \cup {i}
      /\ UNCHANGED <<object, sidecar, dest, pc, info, done, dirty, flushed,
                     from, failed, ending, faults>>
  BY DEF Land, state
<1>2. pc = "fetching" /\ from[i] = object
  BY <1>1 DEF IInv, Requests
<1>3. part \in Content /\ part' \in Content
  BY <1>1, <1>2 DEF IInv, TypeOK, Content, Bytes
<1>4. TypeOK'
  BY <1>1, <1>3, AbsentAssumption DEF IInv, TypeOK
<1>5. \A c \in Chunks : part'[c] = IF c = i THEN object ELSE part[c]
  BY <1>1, <1>2, <1>3 DEF Content
<1>6. part # NoFile /\ part' # NoFile
  BY <1>3, AbsentAssumption
<1>7. Recorded' = Recorded /\ Recorded \subseteq Chunks
  BY <1>1, <1>2, <1>6 DEF IInv, TypeOK, Informed, Recorded
<1>8. Current' /\ Requests' /\ Endings' /\ Fetching' /\ Renamed'
  BY <1>1, <1>2 DEF IInv, Current, Requests, Busy, Endings, Fetching, Renamed
<1>9. Landings' /\ InFlight'
  BY <1>1, <1>2, <1>5 DEF IInv, TypeOK, Landings, InFlight, Busy
<1>10. Marks'
  BY <1>1, <1>5, <1>6 DEF IInv, TypeOK, Marks, Here
<1>11. Informed' /\ RecordedIsWritten'
  BY <1>1, <1>5, <1>7 DEF IInv, Informed, RecordedIsWritten
<1>12. StateFile' /\ PublishedWhole'
  BY <1>1, <1>6 DEF IInv, StateFile, PublishedWhole
<1>13. QED
  BY <1>4, <1>8, <1>9, <1>10, <1>11, <1>12 DEF IInv

(* Whatever a mark writes, the state file says no less than before and no  *)
(* more than the run has marked.                                           *)
LEMMA MarkInv ==
  ASSUME IInv, NEW i \in Chunks, Mark(i)
  PROVE  IInv' /\ Recorded \subseteq Recorded'
<1>1. /\ i \in Busy /\ i \in landed
      /\ done' = done \cup {i}
      /\ from' = [from EXCEPT ![i] = NoVersion]
      /\ landed' = landed \ {i}
      /\ dirty' \in BOOLEAN /\ flushed' \in BOOLEAN
      /\ \/ sidecar' = [version |-> info, done |-> done']
         \/ sidecar' = sidecar
      /\ UNCHANGED <<object, part, dest, pc, info, failed, ending, faults>>
  BY DEF Mark, Persist, IInv, TypeOK
<1>2. pc = "fetching" /\ info = object /\ part[i] = object /\ part # NoFile
  BY <1>1 DEF IInv, Requests, Current, Landings, TypeOK
<1>3. done \subseteq Chunks /\ done' \subseteq Chunks /\ info \in Versions
  BY <1>1, <1>2 DEF IInv, TypeOK
<1>4. sidecar' \in Sidecar \cup {NoSidecar}
  BY <1>1, <1>3 DEF IInv, TypeOK, Sidecar
<1>5. TypeOK'
  BY <1>1, <1>3, <1>4 DEF IInv, TypeOK
<1>6. Recorded \subseteq done
  BY <1>2 DEF IInv, Informed
<1>7. Recorded \subseteq Recorded' /\ Recorded' \subseteq done' /\ StateFile'
  <2>1. CASE sidecar' = [version |-> info, done |-> done']
    <3>1. sidecar'.version = object /\ sidecar'.done = done'
      BY <1>2, <2>1
    <3>2. sidecar' # NoSidecar
      BY <1>3, <1>2, <2>1, AbsentAssumption DEF Sidecar
    <3>3. Recorded' = done'
      BY <1>1, <1>2, <3>1, <3>2 DEF Recorded
    <3>4. object <= object
      BY DownloadAssumption DEF IInv, TypeOK
    <3>5. StateFile'
      BY <1>1, <1>2, <3>1, <3>4 DEF StateFile
    <3>6. QED
      BY <1>1, <1>6, <3>3, <3>5
  <2>2. CASE sidecar' = sidecar
    <3>1. Recorded' = Recorded /\ StateFile'
      BY <1>1, <2>2 DEF Recorded, IInv, StateFile
    <3>2. QED
      BY <1>1, <1>6, <3>1
  <2>3. QED
    BY <1>1, <2>1, <2>2
<1>8. \A c \in done' : Here(c)'
  BY <1>1, <1>2 DEF IInv, Marks, Here
<1>9. Marks' /\ Informed' /\ RecordedIsWritten'
  BY <1>7, <1>8 DEF Marks, Informed, RecordedIsWritten, Here
<1>10. Requests' /\ InFlight'
  BY <1>1 DEF IInv, TypeOK, Requests, InFlight, Busy
<1>11. Current' /\ Landings' /\ Endings' /\ Fetching' /\ Renamed' /\ PublishedWhole'
  BY <1>1, <1>2 DEF IInv, Current, Landings, Endings, Fetching, Renamed,
                    PublishedWhole
<1>12. QED
  BY <1>5, <1>7, <1>9, <1>10, <1>11 DEF IInv

LEMMA EndingInv ==
  ASSUME IInv, Cancel \/ Interrupt
  PROVE  IInv'
<1>1. /\ pc = "fetching" /\ ending' \in {"failed", "interrupted"}
      /\ faults' = faults \/ Fault
      /\ UNCHANGED <<object, part, sidecar, dest, pc, info, done, dirty,
                     flushed, from, landed, failed>>
  BY DEF Cancel, Interrupt, disk, state
<1>2. TypeOK'
  <2>1. faults' \in 0 .. MaxFaults
    BY <1>1, FaultType DEF IInv, TypeOK
  <2>2. QED
    BY <1>1, <2>1 DEF IInv, TypeOK
<1>3. Recorded' = Recorded /\ Busy' = Busy
  BY <1>1 DEF Recorded, Busy
<1>4. Current' /\ Requests' /\ Landings' /\ InFlight' /\ Endings'
  BY <1>1, <1>3 DEF IInv, Current, Requests, Landings, InFlight, Endings
<1>5. Marks' /\ Fetching' /\ Renamed' /\ StateFile'
  BY <1>1 DEF IInv, Marks, Here, Fetching, Renamed, StateFile
<1>6. Informed' /\ RecordedIsWritten' /\ PublishedWhole'
  BY <1>1, <1>3 DEF IInv, Informed, RecordedIsWritten, PublishedWhole
<1>7. QED
  BY <1>2, <1>4, <1>5, <1>6 DEF IInv

(* The end of a run that leaves the part where it is, and the state file   *)
(* as it is or with what the run has marked.                               *)
LEMMA ExitInv ==
  ASSUME IInv, Exit, faults' \in 0 .. MaxFaults,
         pc \in {"opening", "fetching", "renaming"},
         \/ sidecar' = sidecar
         \/ part # NoFile /\ sidecar' = [version |-> info, done |-> done],
         UNCHANGED <<object, part, dest>>
  PROVE  IInv' /\ Recorded \subseteq Recorded'
<1>1. info = object /\ info \in Versions /\ done \subseteq Chunks
  BY DEF IInv, Current, TypeOK
<1>2. sidecar' \in Sidecar \cup {NoSidecar}
  BY <1>1 DEF IInv, TypeOK, Sidecar
<1>3. TypeOK'
  BY <1>2, ExitFacts DEF IInv, TypeOK
<1>4. Current' /\ Requests' /\ Landings' /\ InFlight' /\ Endings'
  BY ExitFacts DEF Current, Requests, Landings, InFlight, Busy, Endings
<1>5. Marks' /\ Fetching' /\ Renamed' /\ Informed'
  BY ExitFacts DEF Marks, Fetching, Renamed, Informed
<1>6. Recorded \subseteq done /\ \A i \in done : part[i] = object
  BY DEF IInv, Informed, Marks, Here
<1>7. StateFile' /\ Recorded \subseteq Recorded' /\ RecordedIsWritten'
  <2>1. CASE sidecar' = sidecar
    BY <2>1 DEF IInv, StateFile, Recorded, RecordedIsWritten
  <2>2. CASE part # NoFile /\ sidecar' = [version |-> info, done |-> done]
    <3>1. sidecar'.version = object /\ sidecar'.done = done /\ object <= object
      BY <1>1, <2>2, DownloadAssumption
    <3>2. sidecar' # NoSidecar
      BY <1>1, <2>2, AbsentAssumption DEF Sidecar
    <3>3. Recorded' = done
      BY <2>2, <3>1, <3>2 DEF Recorded
    <3>4. QED
      BY <1>6, <2>2, <3>1, <3>3 DEF StateFile, RecordedIsWritten
  <2>3. QED
    BY <2>1, <2>2
<1>8. PublishedWhole'
  BY DEF IInv, PublishedWhole
<1>9. QED
  BY <1>3, <1>4, <1>5, <1>7, <1>8 DEF IInv

LEMMA EndsInv ==
  ASSUME IInv, Orderly, NoSpace \/ Stopped \/ Kill
  PROVE  IInv' /\ Recorded \subseteq Recorded'
<1>1. CASE NoSpace \/ Kill
  <2>1. Exit /\ Fault /\ pc # "idle" /\ UNCHANGED <<object, part, sidecar, dest>>
    BY <1>1 DEF NoSpace, Kill, disk
  <2>2. pc # "unlinking"
    BY <1>1 DEF NoSpace, Kill, Orderly, Switches
  <2>3. pc \in {"opening", "fetching", "renaming"}
    BY <2>1, <2>2 DEF IInv, TypeOK
  <2>4. faults' \in 0 .. MaxFaults
    BY <2>1, FaultType DEF IInv
  <2>5. QED
    BY <2>1, <2>3, <2>4, ExitInv
<1>2. CASE Stopped
  <2>1. pc = "fetching" /\ part # NoFile
    BY <1>2 DEF Stopped, IInv, Endings, TypeOK
  <2>2. \/ sidecar' = sidecar
        \/ sidecar' = [version |-> info, done |-> done]
    BY <1>2 DEF Stopped, Flush, Persist
  <2>3. Exit /\ UNCHANGED <<object, part, dest, faults>>
    BY <1>2 DEF Stopped
  <2>4. faults' \in 0 .. MaxFaults
    BY <2>3 DEF IInv, TypeOK
  <2>5. QED
    BY <2>1, <2>2, <2>3, <2>4, ExitInv
<1>3. QED
  BY <1>1, <1>2
-----------------------------------------------------------------------------
LEMMA FetchedInv ==
  ASSUME IInv, Fetched
  PROVE  IInv' /\ Recorded \subseteq Recorded'
<1>1. /\ pc = "fetching" /\ done = Chunks
      /\ pc' = "renaming" /\ dirty' = FALSE
      /\ sidecar' \in {sidecar, [version |-> info, done |-> done]}
      /\ UNCHANGED <<object, part, dest, info, done, flushed, from, landed,
                     failed, ending, faults>>
  BY DEF Fetched, Flush, Persist, pool
<1>2. info = object /\ info \in Versions /\ part # NoFile
  BY <1>1 DEF IInv, Current, TypeOK
<1>3. \A i \in Chunks : part[i] = object
  BY <1>1 DEF IInv, Marks, Here
<1>4. sidecar' \in Sidecar \cup {NoSidecar}
  BY <1>1, <1>2 DEF IInv, TypeOK, Sidecar
<1>5. TypeOK'
  BY <1>1, <1>2, <1>4 DEF IInv, TypeOK
<1>6. ending = "no" /\ Busy = {} /\ landed = {}
  BY <1>1 DEF Fetched, IInv, InFlight, Busy
<1>7. Current' /\ Requests' /\ Landings' /\ InFlight' /\ Endings'
  BY <1>1, <1>2, <1>6 DEF Fetched, Current, Requests, Busy, Landings, InFlight,
                          Endings
<1>8. Marks' /\ Fetching' /\ Renamed'
  BY <1>1, <1>2, <1>3 DEF Marks, Here, Fetching, Renamed
<1>9. StateFile' /\ Recorded \subseteq Recorded' /\ Informed'
  <2>1. CASE sidecar' = sidecar
    BY <1>1, <2>1 DEF IInv, StateFile, Recorded, Informed
  <2>2. CASE sidecar' = [version |-> info, done |-> done]
    <3>1. sidecar'.version = object /\ sidecar'.done = done
      BY <1>2, <2>2
    <3>2. sidecar' # NoSidecar
      BY <1>1, <1>2, <2>2, AbsentAssumption DEF Sidecar
    <3>3. Recorded' = done
      BY <1>1, <1>2, <3>1, <3>2 DEF Recorded
    <3>4. object <= object
      BY DownloadAssumption DEF IInv, TypeOK
    <3>5. Recorded \subseteq done
      BY <1>1 DEF IInv, Informed
    <3>6. QED
      BY <1>1, <1>2, <3>1, <3>3, <3>4, <3>5 DEF StateFile, Informed
  <2>3. QED
    BY <1>1, <2>1, <2>2
<1>10. RecordedIsWritten'
  BY <1>1, <1>3, <1>9 DEF RecordedIsWritten, Informed
<1>11. PublishedWhole'
  BY <1>1 DEF IInv, PublishedWhole
<1>12. QED
  BY <1>5, <1>7, <1>8, <1>9, <1>10, <1>11 DEF IInv

LEMMA RenameInv ==
  ASSUME IInv, Rename
  PROVE  IInv'
<1>1. /\ pc = "renaming" /\ pc' = "unlinking"
      /\ dest' = part /\ part' = NoFile
      /\ UNCHANGED <<object, sidecar, info, done, dirty, flushed, from, landed,
                     failed, ending, faults>>
  BY DEF Rename, state, pool
<1>2. TypeOK'
  BY <1>1 DEF IInv, TypeOK
<1>3. \A i \in Chunks : part[i] = object
  BY <1>1 DEF IInv, Fetching, Marks, Here
<1>4. PublishedWhole'
  BY <1>1, <1>3 DEF IInv, TypeOK, PublishedWhole
<1>5. Busy = {} /\ landed = {} /\ ending = "no"
  BY <1>1 DEF IInv, Requests, Landings, Endings
<1>6. Current' /\ Requests' /\ Landings' /\ InFlight' /\ Endings'
  BY <1>1, <1>5 DEF IInv, Current, Requests, Busy, Landings, InFlight, Endings
<1>7. Marks' /\ Fetching' /\ Renamed' /\ StateFile' /\ Informed'
  BY <1>1 DEF IInv, Marks, Fetching, Renamed, StateFile, Informed
<1>8. RecordedIsWritten'
  BY <1>1 DEF RecordedIsWritten, Recorded
<1>9. QED
  BY <1>2, <1>4, <1>6, <1>7, <1>8 DEF IInv

LEMMA UnlinkInv ==
  ASSUME IInv, Unlink
  PROVE  IInv' /\ Recorded \subseteq Recorded'
<1>1. /\ pc = "unlinking" /\ sidecar' = NoSidecar /\ Exit
      /\ UNCHANGED <<object, part, dest, faults>>
  BY DEF Unlink
<1>2. TypeOK'
  BY <1>1, ExitFacts DEF IInv, TypeOK
<1>3. Current' /\ Requests' /\ Landings' /\ InFlight' /\ Endings'
  BY <1>1, ExitFacts DEF Current, Requests, Landings, InFlight, Busy, Endings
<1>4. Marks' /\ Fetching' /\ Renamed' /\ Informed' /\ StateFile' /\ RecordedIsWritten'
  BY <1>1, ExitFacts DEF Marks, Fetching, Renamed, Informed, StateFile, Recorded,
                         RecordedIsWritten
<1>5. PublishedWhole' /\ Recorded = {}
  BY <1>1 DEF IInv, PublishedWhole, Renamed, Recorded
<1>6. QED
  BY <1>2, <1>3, <1>4, <1>5 DEF IInv

(* A new content of the object makes everything that is recorded obsolete. *)
LEMMA ChangeInv ==
  ASSUME IInv, Orderly, NEW v \in Versions, Change(v)
  PROVE  IInv'
<1>1. /\ pc = "idle" /\ v > object /\ object' = v
      /\ UNCHANGED <<part, sidecar, dest, pc, info, done, dirty, flushed, from,
                     landed, failed, ending, faults>>
  BY DEF Change, Orderly, Switches, disk, state, pool
<1>2. TypeOK'
  BY <1>1 DEF IInv, TypeOK
<1>3. sidecar # NoSidecar => sidecar.version \in Nat /\ sidecar.version <= object
  BY DownloadAssumption DEF IInv, TypeOK, Sidecar, StateFile
<1>4. object \in Nat /\ v \in Nat
  BY DownloadAssumption DEF IInv, TypeOK
<1>5. sidecar # NoSidecar => sidecar.version <= v /\ sidecar.version # v
  BY <1>1, <1>3, <1>4
<1>6. StateFile' /\ RecordedIsWritten'
  BY <1>1, <1>5 DEF StateFile, Recorded, RecordedIsWritten
<1>7. Current' /\ Requests' /\ Landings' /\ InFlight' /\ Endings'
  BY <1>1 DEF IInv, Current, Requests, Busy, Landings, InFlight, Endings
<1>8. Marks' /\ Fetching' /\ Renamed' /\ Informed' /\ PublishedWhole'
  BY <1>1 DEF IInv, Marks, Fetching, Renamed, Informed, PublishedWhole
<1>9. QED
  BY <1>2, <1>6, <1>7, <1>8 DEF IInv

(* Steps that leave the run and what it works on alone.                    *)
LEMMA ConsumeInv ==
  ASSUME IInv, dest' \in {dest, NoFile},
         UNCHANGED <<object, part, sidecar, pc, info, state, pool, faults>>
  PROVE  IInv' /\ Recorded' = Recorded
<1>1. TypeOK'
  BY DEF state, pool, IInv, TypeOK
<1>2. Recorded' = Recorded /\ Busy' = Busy
  BY DEF Recorded, Busy, pool
<1>3. Current' /\ Requests' /\ Landings' /\ InFlight' /\ Endings'
  BY <1>2 DEF state, pool, IInv, Current, Requests, Landings, InFlight, Endings
<1>4. Marks' /\ Fetching' /\ Renamed' /\ StateFile'
  BY DEF state, IInv, Marks, Here, Fetching, Renamed, StateFile
<1>5. Informed' /\ RecordedIsWritten' /\ PublishedWhole'
  BY <1>2 DEF state, IInv, Informed, RecordedIsWritten, PublishedWhole
<1>6. QED
  BY <1>1, <1>2, <1>3, <1>4, <1>5 DEF IInv
-----------------------------------------------------------------------------
LEMMA StepInv == Orderly /\ IInv /\ [Next]_vars => IInv'
<1> SUFFICES ASSUME Orderly, IInv, [Next]_vars PROVE IInv'
  OBVIOUS
<1>1. CASE \E overwrite \in Overwrites : Start(overwrite)
  BY <1>1, StartInv
<1>2. CASE \E i \in Chunks : ChunkStep(i)
  BY <1>2, RequestInv, LandInv, MarkInv DEF ChunkStep
<1>3. CASE \E i \in Chunks : Retry(i) \/ GiveUp(i)
  BY <1>3, StumbleInv
<1>4. CASE Allocate \/ Cancel \/ Interrupt \/ Fetched \/ Rename \/ Unlink
  BY <1>4, AllocateInv, EndingInv, FetchedInv, RenameInv, UnlinkInv
<1>5. CASE NoSpace \/ Stopped \/ Kill
  BY <1>5, EndsInv
<1>6. CASE \E v \in Versions : Change(v)
  BY <1>6, ChangeInv
<1>7. CASE Consume \/ UNCHANGED vars
  <2>1. /\ dest' \in {dest, NoFile}
        /\ UNCHANGED <<object, part, sidecar, pc, info, state, pool, faults>>
    BY <1>7 DEF Consume, vars, disk
  <2>2. QED
    BY <2>1, ConsumeInv
<1>8. QED
  BY <1>1, <1>2, <1>3, <1>4, <1>5, <1>6, <1>7 DEF Next, RunStep, FaultStep

(* The invariant behind the three results below.                           *)
THEOREM InvCorrect == ASSUME Orderly PROVE Spec => []IInv
<1>1. Init => IInv
  BY InitInv
<1>2. IInv /\ [Next]_vars => IInv'
  BY StepInv
<1>3. QED
  BY <1>1, <1>2, PTL DEF Spec

(* What a resume will not fetch again is in the file, wherever the runs    *)
(* before it were killed or gave up.                                       *)
THEOREM RecordedIsWrittenCorrect == ASSUME Orderly PROVE Spec => []RecordedIsWritten
<1>1. IInv => RecordedIsWritten
  BY DEF IInv
<1>2. QED
  BY <1>1, InvCorrect, PTL

(* A finished file is one version of the object, all of it.                *)
THEOREM PublishedWholeCorrect == ASSUME Orderly PROVE Spec => []PublishedWhole
<1>1. IInv => PublishedWhole
  BY DEF IInv
<1>2. QED
  BY <1>1, InvCorrect, PTL

(* A step of a run that does not write the state file may replace the      *)
(* part, but takes nothing away that is recorded.                          *)
LEMMA PartKept ==
  ASSUME IInv, UNCHANGED <<object, sidecar>>,
         part # NoFile /\ Adoptable => part' # NoFile
  PROVE  Recorded \subseteq Recorded'
BY DEF Recorded, Adoptable

LEMMA KeptStep ==
  ASSUME Orderly, IInv, [Next]_vars, pc # "renaming", object' = object
  PROVE  Recorded \subseteq Recorded'
<1>1. CASE \E overwrite \in Overwrites : Start(overwrite)
  BY <1>1, PartKept DEF Start
<1>2. CASE \E i \in Chunks : Request(i) \/ Land(i)
  <2>1. UNCHANGED <<object, sidecar>>
    BY <1>2 DEF Request, Land
  <2>2. IInv' /\ pc' = "fetching"
    BY <1>2, RequestInv, LandInv DEF Request, Land, IInv, Requests
  <2>3. part' # NoFile
    BY <2>2 DEF IInv, TypeOK
  <2>4. QED
    BY <2>1, <2>3, PartKept
<1>3. CASE \E i \in Chunks : Mark(i)
  BY <1>3, MarkInv
<1>4. CASE \E i \in Chunks : Retry(i) \/ GiveUp(i)
  BY <1>4, PartKept DEF Retry, GiveUp, disk
<1>5. CASE Allocate
  <2>1. part' # NoFile
    BY <1>5, AllocateInv DEF Allocate, IInv, TypeOK
  <2>2. QED
    BY <1>5, <2>1, PartKept DEF Allocate
<1>6. CASE Cancel \/ Interrupt
  BY <1>6, PartKept DEF Cancel, Interrupt, disk
<1>7. CASE Fetched \/ Unlink \/ NoSpace \/ Stopped \/ Kill
  BY <1>7, FetchedInv, UnlinkInv, EndsInv
<1>8. CASE \E v \in Versions : Change(v)
  BY <1>8, PartKept DEF Change, disk
<1>9. CASE Consume \/ UNCHANGED vars
  BY <1>9, PartKept DEF Consume, vars, disk
<1>10. CASE Rename
  BY <1>10 DEF Rename
<1>11. QED
  BY <1>1, <1>2, <1>3, <1>4, <1>5, <1>6, <1>7, <1>8, <1>9, <1>10
     DEF Next, RunStep, FaultStep, ChunkStep

(* What is recorded is not fetched again, by this run or by a later one,   *)
(* until the file is published or the object changes.                      *)
THEOREM ProgressKeptCorrect == ASSUME Orderly PROVE Spec => ProgressKept
<1>1. IInv /\ [Next]_vars
        => [pc # "renaming" /\ object' = object => Recorded \subseteq Recorded']_vars
  BY KeptStep
<1>2. QED
  BY <1>1, InvCorrect, PTL DEF Spec, ProgressKept
-----------------------------------------------------------------------------
(* UrlDownload: over one connection.                                       *)

(* The object does not change while bytes of it are on disk, its contents  *)
(* have one length, and the size is sent wherever an early end of the body *)
(* would not be noticed.                                                   *)
UrlOrderly ==
  /\ "swap" \notin UrlEnv
  /\ \A v, w \in Versions : Size[v] = Size[w]
  /\ "unframed" \in UrlEnv => FALSE \notin Known

(* The .part is a beginning of the object.                                 *)
Beginning == urlPart # NoFile =>
  /\ have <= Size[urlObject]
  /\ \A i \in 1 .. have : urlPart[i] = [version |-> urlObject, index |-> i]

(* The response goes on where the .part ends.                              *)
InStep == urlPc = "streaming" => urlFrom = urlObject /\ pos = have

(* The size that was sent is the size ...                                  *)
Expecting == expected # 0 => expected = Size[urlObject]

(* ... and is there where the end of the body says nothing.                *)
Measured == "unframed" \in UrlEnv => expected # 0

(* Only a whole .part is renamed.                                          *)
Ready == urlPc = "replacing" => have = Size[urlObject]

UrlIInv == /\ UrlTypeOK /\ Beginning /\ InStep /\ Expecting /\ Measured /\ Ready
        /\ UrlPublishedWhole

LEMMA UrlInitInv == ASSUME UrlOrderly PROVE UrlInit => UrlIInv
<1> SUFFICES ASSUME UrlInit PROVE UrlIInv
  OBVIOUS
<1>1. Size[urlObject] \in Nat \ {0} /\ urlObject \in Versions
  BY UrlDownloadAssumption DEF UrlInit
<1>2. PICK k \in Known : expected = IF k THEN Size[urlObject] ELSE 0
  BY DEF UrlInit
<1>3. UrlTypeOK
  BY <1>1, <1>2, UrlDownloadAssumption DEF UrlInit, UrlTypeOK
<1>4. Beginning /\ InStep /\ Ready /\ UrlPublishedWhole
  BY DEF UrlInit, Beginning, InStep, Ready, UrlPublishedWhole
<1>5. Expecting
  BY <1>2 DEF Expecting
<1>6. Measured
  BY <1>1, <1>2, UrlDownloadAssumption DEF Measured, UrlOrderly
<1>7. QED
  BY <1>3, <1>4, <1>5, <1>6 DEF UrlIInv

(* A .part that begins the object and is as long is the object.            *)
LEMMA WholeWhenAsLong ==
  ASSUME UrlTypeOK, Beginning, urlPart # NoFile, have = Size[urlObject]
  PROVE  urlPart \in Wholes
<1>1. urlPart \in Seq(Block) /\ have = Len(urlPart) /\ urlObject \in Versions
  BY DEF UrlTypeOK, have
<1>2. urlPart = [i \in 1 .. have |-> urlPart[i]]
  BY <1>1
<1>3. \A i \in 1 .. have : urlPart[i] = [version |-> urlObject, index |-> i]
  BY DEF Beginning
<1>4. urlPart = Whole(urlObject)
  BY <1>2, <1>3, Zenon DEF Whole
<1>5. QED
  BY <1>1, <1>4 DEF Wholes

(* What an end of the attempt leaves.                                      *)
LEMMA RetryFacts ==
  ASSUME UrlTypeOK, UrlRetry
  PROVE  /\ urlPart' = urlPart
         /\ urlPc' \in {"asking", "raised"}
         /\ attempt' \in 1 .. Attempts
BY UrlDownloadAssumption DEF UrlTypeOK, UrlRetry

LEMMA UrlFaultType ==
  ASSUME UrlTypeOK, UrlFault
  PROVE  urlFaults' \in 0 .. MaxFaults
BY UrlDownloadAssumption DEF UrlTypeOK, UrlFault

(* Type correctness is inductive for every Env.                            *)
LEMMA UrlTypeStep == UrlTypeOK /\ [UrlNext]_urlVars => UrlTypeOK'
<1> SUFFICES ASSUME UrlTypeOK, [UrlNext]_urlVars PROVE UrlTypeOK'
  OBVIOUS
<1> USE DEF UrlTypeOK
<1>1. CASE UrlStart
  BY <1>1, UrlDownloadAssumption DEF UrlStart
<1>2. CASE AlreadyWhole
  BY <1>2, UrlDownloadAssumption DEF AlreadyWhole, Replace
<1>3. CASE Refused
  BY <1>3, RetryFacts, UrlFaultType DEF Refused
<1>4. CASE NotSatisfiable
  BY <1>4, RetryFacts DEF NotSatisfiable
<1>5. CASE Partial
  <2>1. urlPart \in Seq(Block)
    BY <1>5 DEF Partial, have
  <2>2. pos' \in Nat /\ pos' <= Size[urlFrom'] /\ urlFrom' \in Versions /\ urlPart' # NoFile
    BY <1>5, <2>1, UrlDownloadAssumption DEF Partial, have
  <2>3. QED
    BY <1>5, <2>2 DEF Partial, MustAsk
<1>6. CASE Complete
  <2>1. << >> \in Seq(Block) /\ << >> # NoFile
    <3> HIDE DEF UrlTypeOK
    <3>1. << >> \in Seq(Block)
      OBVIOUS
    <3>2. QED
      BY <3>1, UrlDownloadAssumption
  <2>2. 0 \in Nat /\ Size[urlObject] \in Nat /\ 0 <= Size[urlObject]
    BY UrlDownloadAssumption
  <2>3. QED
    BY <1>6, <2>1, <2>2 DEF Complete, MustAsk
<1>7. CASE Write
  <2>1. urlPart \in Seq(Block) /\ urlFrom \in Versions /\ pos \in Nat
    BY <1>7 DEF Write
  <2>2. [version |-> urlFrom, index |-> pos + 1] \in Block
    BY <2>1 DEF Block
  <2>3. urlPart' \in Seq(Block) /\ urlPart' # NoFile
    <3>1. urlPart' = Append(urlPart, [version |-> urlFrom, index |-> pos + 1])
      BY <1>7 DEF Write
    <3> HIDE DEF UrlTypeOK
    <3>2. urlPart' \in Seq(Block)
      BY <2>1, <2>2, <3>1
    <3>3. QED
      BY <3>2, UrlDownloadAssumption
  <2>4. pos' \in Nat /\ pos' <= Size[urlFrom]
    BY <1>7, <2>1, UrlDownloadAssumption DEF Write
  <2>5. QED
    BY <1>7, <2>3, <2>4 DEF Write
<1>8. CASE Broken
  BY <1>8, RetryFacts, UrlFaultType DEF Broken
<1>9. CASE StreamEnds
  BY <1>9, RetryFacts DEF StreamEnds, EndOfStream
<1>10. CASE Truncated
  BY <1>10, RetryFacts, UrlFaultType DEF Truncated, EndOfStream
<1>11. CASE Publish
  BY <1>11 DEF Publish, Replace
<1>12. CASE UrlKill
  BY <1>12, UrlFaultType DEF UrlKill
<1>13. CASE Swap
  BY <1>13, UrlFaultType DEF Swap
<1>14. CASE UNCHANGED urlVars
  BY <1>14 DEF urlVars
<1>15. QED
  BY <1>1, <1>2, <1>3, <1>4, <1>5, <1>6, <1>7, <1>8, <1>9, <1>10, <1>11, <1>12,
     <1>13, <1>14 DEF UrlNext

(* The bytes that were there are still the beginning of the .part.         *)
LEMMA AppendKeeps ==
  ASSUME NEW S, NEW s \in Seq(S), NEW e \in S
  PROVE  /\ Len(s) <= Len(Append(s, e))
         /\ SubSeq(Append(s, e), 1, Len(s)) = s
<1>1. Append(s, e) \in Seq(S) /\ Len(Append(s, e)) = Len(s) + 1
  OBVIOUS
<1>2. \A i \in 1 .. Len(s) : Append(s, e)[i] = s[i]
  OBVIOUS
<1>3. SubSeq(Append(s, e), 1, Len(s)) = [i \in 1 .. Len(s) |-> Append(s, e)[i]]
  BY <1>1
<1>4. QED
  BY <1>1, <1>2, <1>3

LEMMA SubSeqAll ==
  ASSUME NEW S, NEW s \in Seq(S)
  PROVE  SubSeq(s, 1, Len(s)) = s
OBVIOUS

(* One step of BytesKept, which needs no more than the types.              *)
Keeping ==
  urlPart # NoFile =>
    \/ urlPart' # NoFile /\ have <= Len(urlPart') /\ SubSeq(urlPart', 1, have) = urlPart
    \/ urlPart' = << >> /\ urlPc' = "streaming" /\ pos' = 0
    \/ urlPart' = NoFile /\ urlDest' = urlPart

LEMMA KeepingStep == UrlTypeOK /\ [UrlNext]_urlVars => Keeping
<1> SUFFICES ASSUME UrlTypeOK, [UrlNext]_urlVars, urlPart # NoFile PROVE Keeping
  BY DEF Keeping
<1>1. urlPart \in Seq(Block) /\ have = Len(urlPart)
  BY DEF UrlTypeOK, have
<1>2. ASSUME urlPart' = urlPart PROVE Keeping
  BY <1>1, <1>2, SubSeqAll DEF Keeping
<1>3. CASE AlreadyWhole \/ Publish
  BY <1>3 DEF AlreadyWhole, Publish, Replace, Keeping
<1>4. CASE Complete
  BY <1>4 DEF Complete, Keeping
<1>5. CASE Write
  <2>1. [version |-> urlFrom, index |-> pos + 1] \in Block
    BY <1>5 DEF Write, UrlTypeOK, Block
  <2>2. urlPart' = Append(urlPart, [version |-> urlFrom, index |-> pos + 1])
    BY <1>5 DEF Write
  <2>3. have <= Len(urlPart') /\ SubSeq(urlPart', 1, have) = urlPart
    BY <1>1, <2>1, <2>2, AppendKeeps
  <2>4. urlPart' # NoFile
    BY <1>1, <2>1, <2>2, UrlDownloadAssumption
  <2>5. QED
    BY <2>3, <2>4 DEF Keeping
<1>6. CASE Refused \/ NotSatisfiable \/ Broken
  BY <1>2, <1>6, RetryFacts DEF Refused, NotSatisfiable, Broken
<1>7. CASE StreamEnds \/ Truncated
  BY <1>2, <1>7, RetryFacts DEF StreamEnds, Truncated, EndOfStream
<1>8. CASE UrlStart \/ Partial \/ UrlKill \/ Swap
  BY <1>2, <1>8 DEF UrlStart, Partial, UrlKill, Swap
<1>9. CASE UNCHANGED urlVars
  BY <1>2, <1>9 DEF urlVars
<1>10. QED
  BY <1>3, <1>4, <1>5, <1>6, <1>7, <1>8, <1>9 DEF UrlNext

-----------------------------------------------------------------------------
(* The destination, if a step changes it, becomes the object.              *)
LEMMA PublishStep ==
  ASSUME UrlOrderly, UrlIInv, [UrlNext]_urlVars
  PROVE  urlDest' # urlDest => urlDest' \in Wholes
<1> SUFFICES ASSUME urlDest' # urlDest PROVE urlDest' \in Wholes
  OBVIOUS
<1>1. AlreadyWhole \/ Publish
  BY DEF UrlNext, urlVars, UrlStart, Refused, NotSatisfiable, Partial, Complete, Write, Broken,
         StreamEnds, Truncated, EndOfStream, UrlKill, Swap
<1>2. urlPart # NoFile /\ have = Size[urlObject]
  <2>1. CASE AlreadyWhole
    BY <2>1 DEF AlreadyWhole, HaveAll, have, UrlIInv, Expecting
  <2>2. CASE Publish
    BY <2>2 DEF Publish, UrlIInv, UrlTypeOK, Ready
  <2>3. QED
    BY <1>1, <2>1, <2>2
<1>3. urlDest' = urlPart
  BY <1>1 DEF AlreadyWhole, Publish, Replace
<1>4. QED
  BY <1>2, <1>3, WholeWhenAsLong DEF UrlIInv

(* The invariant under UrlOrderly.                                            *)
LEMMA UrlStepInv == ASSUME UrlOrderly PROVE UrlIInv /\ [UrlNext]_urlVars => UrlIInv'
<1> SUFFICES ASSUME UrlIInv, [UrlNext]_urlVars PROVE UrlIInv'
  OBVIOUS
<1>1. UrlTypeOK'
  BY UrlTypeStep DEF UrlIInv
<1>2. Beginning'
  <2>1. urlPart' = urlPart /\ urlObject' = urlObject => Beginning'
    BY DEF UrlIInv, Beginning, have
  <2>2. CASE AlreadyWhole \/ Publish
    BY <2>2 DEF AlreadyWhole, Publish, Replace, Beginning
  <2>3. CASE Complete
    <3>1. urlPart' = << >> /\ have' = 0 /\ urlObject' = urlObject
      BY <2>3, UrlDownloadAssumption, <1>1 DEF Complete, have, UrlTypeOK
    <3>2. Size[urlObject] \in Nat /\ 0 <= Size[urlObject]
      BY UrlDownloadAssumption DEF UrlIInv, UrlTypeOK
    <3>3. QED
      BY <3>1, <3>2 DEF Beginning
  <2>4. CASE Write
    <3> DEFINE e == [version |-> urlFrom, index |-> pos + 1]
    <3>1. /\ urlPart \in Seq(Block) /\ urlPart # NoFile /\ have = Len(urlPart) /\ e \in Block
          /\ urlFrom = urlObject /\ pos = have /\ pos < Size[urlObject]
          /\ Size[urlObject] \in Nat
      BY <2>4, UrlDownloadAssumption DEF Write, UrlIInv, UrlTypeOK, have, InStep, Block
    <3>2. urlPart' = Append(urlPart, e) /\ urlObject' = urlObject
      BY <2>4 DEF Write
    <3>3. urlPart' \in Seq(Block) /\ urlPart' # NoFile
      <4>1. urlPart' \in Seq(Block)
        BY <3>1, <3>2
      <4>2. QED
        BY <4>1, UrlDownloadAssumption
    <3>4. have' = Len(urlPart) + 1
      BY <3>1, <3>2, <3>3 DEF have
    <3>5. have' <= Size[urlObject']
      BY <3>1, <3>2, <3>4
    <3>6. ASSUME NEW i \in 1 .. have'
          PROVE  urlPart'[i] = [version |-> urlObject, index |-> i]
      <4>1. CASE i = Len(urlPart) + 1
        BY <3>1, <3>2, <4>1
      <4>2. CASE i \in 1 .. Len(urlPart)
        <5>1. urlPart'[i] = urlPart[i]
          BY <3>1, <3>2, <4>2
        <5>2. QED
          BY <3>1, <4>2, <5>1 DEF UrlIInv, Beginning
      <4>3. QED
        BY <3>1, <3>4, <3>6, <4>1, <4>2
    <3>7. QED
      BY <3>2, <3>5, <3>6 DEF Beginning
  <2>5. CASE Swap
    BY <2>5 DEF Swap, UrlOrderly, Beginning
  <2>6. CASE Refused \/ NotSatisfiable \/ Broken
    BY <2>1, <2>6, RetryFacts DEF UrlIInv, Refused, NotSatisfiable, Broken
  <2>7. CASE StreamEnds \/ Truncated
    BY <2>1, <2>7, RetryFacts DEF UrlIInv, StreamEnds, Truncated, EndOfStream
  <2>8. CASE UrlStart \/ Partial \/ UrlKill
    BY <2>1, <2>8 DEF UrlStart, Partial, UrlKill
  <2>9. CASE UNCHANGED urlVars
    BY <2>1, <2>9 DEF urlVars
  <2>10. QED
    BY <2>2, <2>3, <2>4, <2>5, <2>6, <2>7, <2>8, <2>9 DEF UrlNext
<1>3. InStep'
  <2>1. CASE Partial
    BY <2>1 DEF Partial, InStep, have
  <2>2. CASE Complete
    <3>1. have' = 0
      BY <2>2, UrlDownloadAssumption, <1>1 DEF Complete, have, UrlTypeOK
    <3>2. QED
      BY <2>2, <3>1 DEF Complete, InStep
  <2>3. CASE Write
    <3>1. /\ urlPart \in Seq(Block) /\ urlPart # NoFile /\ pos = Len(urlPart)
          /\ [version |-> urlFrom, index |-> pos + 1] \in Block
      BY <2>3, UrlDownloadAssumption DEF Write, UrlIInv, UrlTypeOK, have, InStep, Block
    <3>2. urlPart' = Append(urlPart, [version |-> urlFrom, index |-> pos + 1])
      BY <2>3 DEF Write
    <3>3. urlPart' \in Seq(Block)
      BY <3>1, <3>2
    <3>4. urlPart' # NoFile
      BY <3>3, UrlDownloadAssumption
    <3>5. have' = pos + 1
      BY <3>1, <3>2, <3>4 DEF have
    <3>6. QED
      BY <2>3, <3>5 DEF Write, UrlIInv, InStep
  <2>4. CASE Swap
    BY <2>4 DEF Swap, UrlOrderly, UrlIInv, UrlTypeOK, InStep
  <2>5. CASE UrlStart \/ AlreadyWhole \/ Publish \/ UrlKill
    BY <2>5 DEF UrlStart, AlreadyWhole, Publish, Replace, UrlKill, InStep
  <2>6. CASE Refused \/ NotSatisfiable \/ Broken
    BY <2>6, RetryFacts DEF UrlIInv, Refused, NotSatisfiable, Broken, InStep
  <2>7. CASE StreamEnds \/ Truncated
    BY <2>7, RetryFacts DEF UrlIInv, StreamEnds, Truncated, EndOfStream, InStep
  <2>8. CASE UNCHANGED urlVars
    BY <2>8 DEF urlVars, UrlIInv, InStep, have
  <2>9. QED
    BY <2>1, <2>2, <2>3, <2>4, <2>5, <2>6, <2>7, <2>8 DEF UrlNext
<1>4. Expecting' /\ Measured'
  <2>1. expected' = expected
    BY DEF UrlNext, urlVars, UrlStart, AlreadyWhole, Refused, NotSatisfiable, Partial, Complete,
           Write, Broken, StreamEnds, Truncated, EndOfStream, Publish, UrlKill, Swap
  <2>2. Size[urlObject'] = Size[urlObject]
    <3>1. urlObject \in Versions /\ urlObject' \in Versions
      BY <1>1 DEF UrlIInv, UrlTypeOK
    <3>2. QED
      BY <3>1 DEF UrlOrderly
  <2>3. QED
    BY <2>1, <2>2 DEF UrlIInv, Expecting, Measured
<1>5. Ready'
  <2>1. CASE StreamEnds \/ Truncated
    <3> SUFFICES ASSUME urlPc' = "replacing" PROVE have' = Size[urlObject']
      BY DEF Ready
    <3>1. /\ urlPc = "streaming" /\ urlPart' = urlPart /\ urlObject' = urlObject
          /\ ~(expected # 0 /\ have # expected)
      BY <2>1, RetryFacts DEF UrlIInv, StreamEnds, Truncated, EndOfStream
    <3>2. have' = have
      BY <3>1 DEF have
    <3>3. CASE expected # 0
      BY <3>1, <3>2, <3>3 DEF UrlIInv, Expecting
    <3>4. CASE expected = 0
      <4>1. "unframed" \notin UrlEnv
        BY <3>4 DEF UrlIInv, Measured
      <4>2. StreamEnds
        BY <2>1, <4>1 DEF Truncated
      <4>3. pos = Size[urlFrom]
        BY <4>2 DEF StreamEnds
      <4>4. QED
        BY <3>1, <3>2, <4>3 DEF UrlIInv, InStep
    <3>5. QED
      BY <3>3, <3>4
  <2>2. CASE Refused \/ NotSatisfiable \/ Broken
    BY <2>2, RetryFacts DEF UrlIInv, Refused, NotSatisfiable, Broken, Ready
  <2>3. CASE Write
    BY <2>3 DEF Write, Ready
  <2>4. CASE Swap
    BY <2>4 DEF Swap, UrlOrderly, UrlIInv, UrlTypeOK, Ready
  <2>5. CASE UrlStart \/ AlreadyWhole \/ Partial \/ Complete \/ Publish \/ UrlKill
    BY <2>5 DEF UrlStart, AlreadyWhole, Partial, Complete, Publish, Replace, UrlKill, Ready
  <2>6. CASE UNCHANGED urlVars
    BY <2>6 DEF urlVars, UrlIInv, Ready, have
  <2>7. QED
    BY <2>1, <2>2, <2>3, <2>4, <2>5, <2>6 DEF UrlNext
<1>6. UrlPublishedWhole'
  <2>1. urlDest' # urlDest => urlDest' \in Wholes
    BY PublishStep
  <2>2. QED
    BY <2>1 DEF UrlIInv, UrlPublishedWhole, Wholes
<1>7. QED
  BY <1>1, <1>2, <1>3, <1>4, <1>5, <1>6 DEF UrlIInv

-----------------------------------------------------------------------------
(* Type correctness, for every Env: the attempts of a call stay within     *)
(* their limit and a response is read only while there is a .part.         *)
THEOREM UrlTypeCorrect == UrlSpec => []UrlTypeOK
<1>1. UrlInit => UrlTypeOK
  <2> SUFFICES ASSUME UrlInit PROVE UrlTypeOK
    OBVIOUS
  <2>1. Size[urlObject] \in Nat \ {0} /\ urlObject \in Versions
    BY UrlDownloadAssumption DEF UrlInit
  <2>2. PICK k \in Known : expected = IF k THEN Size[urlObject] ELSE 0
    BY DEF UrlInit
  <2>3. QED
    BY <2>1, <2>2, UrlDownloadAssumption DEF UrlInit, UrlTypeOK
<1>2. QED
  BY <1>1, UrlTypeStep, PTL DEF UrlSpec

(* No failed attempt, restart or new call takes away bytes on disk, for    *)
(* every Env: BytesKept.                                                   *)
THEOREM NothingLost == UrlSpec => BytesKept
<1>1. UrlTypeOK /\ [UrlNext]_urlVars => [Keeping]_urlVars
  BY KeepingStep
<1>2. Keeping <=> (urlPart # NoFile =>
         \/ urlPart' # NoFile /\ have <= Len(urlPart') /\ SubSeq(urlPart', 1, have) = urlPart
         \/ urlPart' = << >> /\ urlPc' = "streaming" /\ pos' = 0
         \/ urlPart' = NoFile /\ urlDest' = urlPart)
  BY DEF Keeping
<1>3. QED
  BY <1>1, <1>2, UrlTypeCorrect, PTL DEF UrlSpec, BytesKept

(* What stands at the destination is one complete content of the object:   *)
(* PublishedWhole.                                                         *)
THEOREM WholeAtDestination == ASSUME UrlOrderly PROVE UrlSpec => []UrlPublishedWhole
<1>1. UrlInit => UrlIInv
  BY UrlInitInv
<1>2. UrlIInv /\ [UrlNext]_urlVars => UrlIInv'
  BY UrlStepInv
<1>3. UrlIInv => UrlPublishedWhole
  BY DEF UrlIInv
<1>4. QED
  BY <1>1, <1>2, <1>3, PTL DEF UrlSpec

(* The attempts, the .part and the ends of the stream implement one step   *)
(* from no file to a complete one: Implements.                             *)
THEOREM Refines == ASSUME UrlOrderly PROVE UrlSpec => Implements
<1>1. UrlInit => Delivery!Init
  BY DEF UrlInit, Delivery!Init
<1>2. UrlIInv /\ [UrlNext]_urlVars => [Delivery!Publish]_urlDest
  BY PublishStep DEF Delivery!Publish
<1>3. UrlInit => UrlIInv
  BY UrlInitInv
<1>4. UrlIInv /\ [UrlNext]_urlVars => UrlIInv'
  BY UrlStepInv
<1>5. QED
  BY <1>1, <1>2, <1>3, <1>4, PTL DEF UrlSpec, Implements, Delivery!Spec
-----------------------------------------------------------------------------
(* StageInput: the job says which of the two is used.                      *)

(* Seen from either of the two ways, staging is a run of it: its own steps *)
(* and steps that leave it alone.                                          *)
LEMMA StagingIsBoth == StageSpec => Spec /\ UrlSpec
<1>1. StageInit => Init /\ UrlInit
  BY DEF StageInit
<1>2. [StageNext]_stage => [Next]_vars
  BY DEF StageNext, stage, R2Only, UrlOnly
<1>3. [StageNext]_stage => [UrlNext]_urlVars
  BY DEF StageNext, stage, R2Only, UrlOnly
<1>4. QED
  BY <1>1, <1>2, <1>3, PTL DEF StageSpec, Spec, UrlSpec

(* Whatever the job names, the file it is run on is one version of its     *)
(* source, all of it: PublishedWhole and UrlPublishedWhole.                *)
THEOREM StagedWhole ==
  ASSUME Orderly, UrlOrderly
  PROVE  StageSpec => [](PublishedWhole /\ UrlPublishedWhole)
BY StagingIsBoth, PublishedWholeCorrect, WholeAtDestination, PTL

(* However staging is interrupted, what was recorded of a bucket download  *)
(* and what was received of a URL stay: ProgressKept and BytesKept.        *)
THEOREM StagedProgressKept == ASSUME Orderly PROVE StageSpec => ProgressKept /\ BytesKept
BY StagingIsBoth, ProgressKeptCorrect, NothingLost, PTL

(* Staging from a URL implements the publication of a file, beside a       *)
(* bucket download too: Implements.                                        *)
THEOREM StagedImplements == ASSUME UrlOrderly PROVE StageSpec => Implements
BY StagingIsBoth, Refines, PTL
=============================================================================

---------------------------- MODULE PartsDir_proofs ----------------------------
(***************************************************************************)
(* Theorems about PartsDir, for any length of video and of parts, any      *)
(* settings and any number of faults: parts of different making never mix, *)
(* in the directory or in the video, a published video is the whole one,   *)
(* and a resume keeps the parts that are complete.                         *)
(***************************************************************************)
EXTENDS PartsDir, FiniteSetTheorems, TLAPS

(* While a part is open its file is there, and the frames written into it  *)
(* are counted in the position.                                            *)
OpenPart == pc = "feeding" =>
  /\ count <= index
  /\ Current \in Indices => parts[Current] # NoPart

(* Once the directory is cleared, or was found to match, every part in it  *)
(* is of the run's own making ...                                          *)
OwnParts == pc \notin {"idle", "clearing"} =>
  \A k \in Indices : parts[k] # NoPart => parts[k].made = made

(* ... and so is the manifest, once it is written.                         *)
OwnManifest == pc \notin {"idle", "clearing", "noting"} =>
  manifest \in {made, NoMade}

(* What is about to be published is of that making as well.                *)
OwnFile == pc = "publishing" => \A i \in DOMAIN tmp : tmp[i].made = made

IInv == /\ TypeOK /\ OpenPart
        /\ Described /\ OwnParts /\ OwnManifest /\ OwnFile /\ OneMaking

LEMMA Division ==
  ASSUME NEW n \in Nat
  PROVE  /\ n \div PartFrames \in Nat
         /\ (n \div PartFrames) * PartFrames <= n
         /\ n < (n \div PartFrames) * PartFrames + PartFrames
BY PartsAssumption

LEMMA CapType ==
  ASSUME counted \in Nat, NEW k \in Nat
  PROVE  Cap(k) \in 0 .. PartFrames
<1>1. k * PartFrames \in Nat
  BY PartsAssumption
<1>2. Share(k, counted) \in 0 .. PartFrames
  BY <1>1, PartsAssumption DEF Share, Least
<1>3. QED
  BY <1>2, PartsAssumption DEF Cap

LEMMA UsableFinite == IsFiniteSet(Usable)
<1>1. PartCount(Actual) \in Int
  BY PartsAssumption DEF PartCount
<1>2. IsFiniteSet(Indices)
  BY <1>1, FS_Interval DEF Indices
<1>3. QED
  BY <1>2, FS_Subset DEF Usable

(* What is true of a run that has just ended.                              *)
LEMMA ExitFacts ==
  ASSUME Exit
  PROVE  /\ pc' = "idle" /\ made' = NoMade /\ keep' = FALSE
         /\ index' = 0 /\ count' = 0 /\ until' = Actual
BY DEF Exit

LEMMA InitInv == Init => IInv
<1> SUFFICES ASSUME Init PROVE IInv
  OBVIOUS
<1>1. /\ count \in 0 .. PartFrames /\ faults \in 0 .. MaxFaults /\ index \in Nat
      /\ until \in 1 .. Actual
  BY PartsAssumption DEF Init
<1>2. parts \in [Indices -> Part \cup {NoPart}]
  BY DEF Init
<1>3. TypeOK
  BY <1>1, <1>2 DEF Init, TypeOK, PCs
<1>4. OpenPart /\ Described /\ OwnParts /\ OwnManifest /\ OwnFile /\ OneMaking
  BY DEF Init, OpenPart, Described, OwnParts, OwnManifest, OwnFile, OneMaking
<1>5. QED
  BY <1>3, <1>4 DEF IInv
-----------------------------------------------------------------------------
LEMMA StartInv ==
  ASSUME IInv, NEW s \in Settings, NEW resume \in Resumes, Start(s, resume)
  PROVE  IInv'
<1> DEFINE found == IF resume THEN manifest ELSE NoMade
<1>1. /\ pc = "idle"
      /\ made' = [fp |-> s, cuts |-> IF found = NoMade THEN s ELSE found.cuts]
      /\ keep' = Matches(found, s) /\ until' \in Decoded
      /\ pc' = IF Matches(found, s) THEN "noting" ELSE "clearing"
      /\ UNCHANGED <<counted, sink, manifest, parts, dst, tmp, faults>>
  BY DEF Start, PipeEnds
<1>2. found \in Made \cup {NoMade}
  BY DEF IInv, TypeOK
<1>3. made' \in Made /\ keep' \in BOOLEAN
  BY <1>1, <1>2 DEF Made, Matches
<1>4. TypeOK'
  BY <1>1, <1>3, PartsAssumption DEF IInv, TypeOK, PCs, sink
<1>5. Matches(found, s) => made' = manifest
  BY <1>1, <1>2, NoMadeAssumption DEF Matches, Made
<1>6. Described' /\ OwnParts'
  BY <1>1, <1>5, NoMadeAssumption DEF IInv, Described, OwnParts, Matches
<1>7. OpenPart' /\ OwnManifest' /\ OwnFile' /\ OneMaking'
  BY <1>1 DEF IInv, OpenPart, OwnManifest, OwnFile, OneMaking
<1>8. QED
  BY <1>4, <1>6, <1>7 DEF IInv

(* A step that only takes a part away, from a directory that is not being  *)
(* written into.                                                           *)
LEMMA TakeAwayInv ==
  ASSUME IInv, pc # "feeding",
         NEW k \in Indices, parts' = [parts EXCEPT ![k] = NoPart],
         UNCHANGED <<opts, sink, manifest, dst, pc, tmp, faults>>
  PROVE  IInv'
<1>1. TypeOK'
  BY DEF IInv, TypeOK, opts, sink
<1>2. \A i \in Indices : parts'[i] = parts[i] \/ parts'[i] = NoPart
  BY DEF IInv, TypeOK
<1>3. Described' /\ OwnParts'
  BY <1>2 DEF IInv, Described, OwnParts, opts
<1>4. OpenPart' /\ OwnManifest' /\ OwnFile' /\ OneMaking'
  BY DEF IInv, OpenPart, OwnManifest, OwnFile, OneMaking, opts
<1>5. QED
  BY <1>1, <1>3, <1>4 DEF IInv

LEMMA ClearedInv ==
  ASSUME IInv, Cleared
  PROVE  IInv'
<1>1. TypeOK'
  BY DEF Cleared, IInv, TypeOK, PCs, opts, sink
<1>2. Described' /\ OwnParts' /\ OpenPart' /\ OwnManifest' /\ OwnFile' /\ OneMaking'
  BY DEF Cleared, IInv, Described, OwnParts, OpenPart, OwnManifest, OwnFile,
         OneMaking
<1>3. QED
  BY <1>1, <1>2 DEF IInv

LEMMA TruncateInv ==
  ASSUME IInv, Truncate
  PROVE  IInv'
<1>1. TypeOK'
  BY DEF Truncate, IInv, TypeOK, PCs, opts, sink
<1>2. Described' /\ OwnParts' /\ OpenPart' /\ OwnManifest' /\ OwnFile' /\ OneMaking'
  BY DEF Truncate, IInv, Described, OwnParts, OpenPart, OwnManifest, OwnFile,
         OneMaking, opts
<1>3. QED
  BY <1>1, <1>2 DEF IInv

LEMMA NoteInv ==
  ASSUME IInv, Note
  PROVE  IInv'
<1>1. TypeOK'
  BY DEF Note, IInv, TypeOK, PCs, opts, sink
<1>2. Described' /\ OwnParts' /\ OpenPart' /\ OwnManifest' /\ OwnFile' /\ OneMaking'
  BY DEF Note, IInv, Described, OwnParts, OpenPart, OwnManifest, OwnFile,
         OneMaking, opts
<1>3. QED
  BY <1>1, <1>2 DEF IInv

LEMMA TrimmedInv ==
  ASSUME IInv, Trimmed
  PROVE  IInv'
<1>1. index' \in Nat
  <2>1. Cardinality(Usable) \in Nat
    BY UsableFinite, FS_CardinalityType
  <2>2. Cardinality(Usable) * PartFrames \in Nat /\ counted \in Nat
    BY <2>1, PartsAssumption DEF IInv, TypeOK
  <2>3. QED
    BY <2>2 DEF Trimmed, Least
<1>2. TypeOK'
  BY <1>1 DEF Trimmed, IInv, TypeOK, PCs, opts
<1>3. Described' /\ OwnParts' /\ OpenPart' /\ OwnManifest' /\ OwnFile' /\ OneMaking'
  BY DEF Trimmed, IInv, Described, OwnParts, OpenPart, OwnManifest, OwnFile,
         OneMaking, opts
<1>4. QED
  BY <1>2, <1>3 DEF IInv
-----------------------------------------------------------------------------
LEMMA OpenInv ==
  ASSUME IInv, Open
  PROVE  IInv'
<1> DEFINE k == index \div PartFrames
           new == [first |-> index, len |-> 0, made |-> made]
<1>1. /\ pc = "composing" /\ pc' = "feeding"
      /\ parts' = [parts EXCEPT ![k] = new]
      /\ count' = 0
      /\ UNCHANGED <<opts, index, manifest, dst, tmp, faults>>
  BY DEF Open
<1>2. new \in Part
  BY <1>1, PartsAssumption DEF IInv, TypeOK, Part
<1>3. TypeOK'
  <2>1. parts' \in [Indices -> Part \cup {NoPart}]
    BY <1>1, <1>2 DEF IInv, TypeOK
  <2>2. count' \in 0 .. PartFrames
    BY <1>1, PartsAssumption
  <2>3. QED
    BY <1>1, <2>1, <2>2 DEF IInv, TypeOK, PCs, opts
<1>4. \A i \in Indices : parts'[i] = parts[i] \/ parts'[i].made = made
  BY <1>1 DEF IInv, TypeOK
<1>5. Described' /\ OwnParts'
  BY <1>1, <1>4 DEF IInv, Described, OwnParts, OwnManifest, opts
<1>6. OpenPart'
  <2>1. Current' = k
    BY <1>1 DEF Current, IInv, TypeOK
  <2>2. k \in Indices => parts'[k] # NoPart
    BY <1>1, <1>2, NoPartAssumption DEF IInv, TypeOK
  <2>3. QED
    BY <1>1, <2>1, <2>2 DEF OpenPart, IInv, TypeOK
<1>7. OwnManifest' /\ OwnFile' /\ OneMaking'
  BY <1>1 DEF IInv, OwnManifest, OwnFile, OneMaking, opts
<1>8. QED
  BY <1>3, <1>5, <1>6, <1>7 DEF IInv

LEMMA FeedInv ==
  ASSUME IInv, Feed
  PROVE  IInv'
<1>1. /\ pc = "feeding"
      /\ index' = index + 1 /\ count' = count + 1
      /\ UNCHANGED <<opts, manifest, parts, dst, pc, tmp, faults>>
  BY DEF Feed
<1>2. count < PartFrames
  <2>1. index \in Nat /\ count \in Nat /\ index - count \in Nat
    BY <1>1 DEF IInv, TypeOK, OpenPart
  <2>2. CASE count = 0
    BY <2>2, PartsAssumption
  <2>3. CASE index \div PartFrames = Current
    <3> DEFINE q == index \div PartFrames
    <3>1. q * PartFrames <= index - count
      BY <2>1, <2>3, Division DEF Current
    <3>2. index < q * PartFrames + PartFrames
      BY <2>1, Division
    <3>3. q * PartFrames \in Nat
      BY <2>1, Division, PartsAssumption
    <3>4. QED
      BY <2>1, <3>1, <3>2, <3>3, PartsAssumption
  <2>4. QED
    BY <2>2, <2>3 DEF Feed, Full
<1>3. TypeOK'
  BY <1>1, <1>2, PartsAssumption DEF IInv, TypeOK, opts
<1>4. OpenPart'
  <2>1. Current' = Current
    BY <1>1 DEF Current, IInv, TypeOK
  <2>2. QED
    BY <1>1, <2>1 DEF IInv, TypeOK, OpenPart
<1>5. Described' /\ OwnParts' /\ OwnManifest' /\ OwnFile' /\ OneMaking'
  BY <1>1 DEF IInv, Described, OwnParts, OwnManifest, OwnFile, OneMaking, opts
<1>6. QED
  BY <1>3, <1>4, <1>5 DEF IInv

(* The length of the open part becomes known, and nothing else about it.   *)
LEMMA OpenPartMeasured ==
  ASSUME IInv, pc = "feeding", NEW n \in 0 .. Cap(Current),
         parts' = [parts EXCEPT ![Current].len = n]
  PROVE  /\ parts' \in [Indices -> Part \cup {NoPart}]
         /\ \A i \in Indices : parts'[i] = NoPart <=> parts[i] = NoPart
         /\ \A i \in Indices : parts[i] # NoPart => parts'[i].made = parts[i].made
<1>1. Current \in Nat /\ counted \in Nat
  BY Division, PartsAssumption DEF Current, IInv, TypeOK, OpenPart
<1>2. n \in 0 .. PartFrames
  BY <1>1, CapType, PartsAssumption
<1>3. CASE Current \in Indices
  <2>1. parts[Current] \in Part
    BY <1>3 DEF IInv, TypeOK, OpenPart
  <2>2. /\ [parts[Current] EXCEPT !.len = n] \in Part
        /\ [parts[Current] EXCEPT !.len = n].made = parts[Current].made
    BY <1>2, <2>1 DEF Part
  <2>3. parts' = [parts EXCEPT ![Current] = [parts[Current] EXCEPT !.len = n]]
    OBVIOUS
  <2>4. QED
    BY <1>3, <2>1, <2>2, <2>3, NoPartAssumption DEF IInv, TypeOK
<1>4. CASE Current \notin Indices
  BY <1>4 DEF IInv, TypeOK
<1>5. QED
  BY <1>3, <1>4

LEMMA CloseInv ==
  ASSUME IInv, Close
  PROVE  IInv'
<1>1. /\ pc = "feeding" /\ pc' = "composing" /\ count' = 0
      /\ count \in 0 .. Cap(Current)
      /\ parts' = [parts EXCEPT ![Current].len = count]
      /\ UNCHANGED <<opts, index, manifest, dst, tmp, faults>>
  <2>1. Current \in Nat /\ counted \in Nat
    BY Division, PartsAssumption DEF Close, Current, IInv, TypeOK, OpenPart
  <2>2. Cap(Current) \in Nat /\ count \in Nat
    BY <2>1, CapType, PartsAssumption DEF IInv, TypeOK
  <2>3. QED
    BY <2>2 DEF Close
<1>2. TypeOK'
  <2>1. parts' \in [Indices -> Part \cup {NoPart}]
    BY <1>1, OpenPartMeasured
  <2>2. count' \in 0 .. PartFrames
    BY <1>1, PartsAssumption
  <2>3. QED
    BY <1>1, <2>1, <2>2 DEF IInv, TypeOK, PCs, opts
<1>3. Described' /\ OwnParts'
  BY <1>1, OpenPartMeasured DEF IInv, Described, OwnParts, opts
<1>4. OpenPart' /\ OwnManifest' /\ OwnFile' /\ OneMaking'
  BY <1>1 DEF IInv, OpenPart, OwnManifest, OwnFile, OneMaking, opts
<1>5. QED
  BY <1>2, <1>3, <1>4 DEF IInv

(* A run that ends, however it ends, leaves the manifest as it is and the  *)
(* parts as they were made.                                                *)
LEMMA ExitInv ==
  ASSUME IInv, Exit,
         parts' \in [Indices -> Part \cup {NoPart}],
         \A i \in Indices : parts'[i] # NoPart =>
           parts[i] # NoPart /\ parts'[i].made = parts[i].made,
         faults' \in 0 .. MaxFaults,
         UNCHANGED <<counted, manifest, dst>>
  PROVE  IInv'
<1>1. TypeOK'
  BY ExitFacts, PartsAssumption DEF IInv, TypeOK, PCs
<1>2. Described'
  BY DEF IInv, Described
<1>3. OpenPart' /\ OwnParts' /\ OwnManifest' /\ OwnFile' /\ OneMaking'
  BY ExitFacts DEF IInv, OpenPart, OwnParts, OwnManifest, OwnFile, OneMaking
<1>4. QED
  BY <1>1, <1>2, <1>3 DEF IInv

LEMMA EndsInv ==
  ASSUME IInv, CloseRefused \/ Fail \/ JoinRefused \/ Removed
  PROVE  IInv'
<1>1. Exit /\ UNCHANGED <<counted, manifest, dst>> /\ faults' \in 0 .. MaxFaults
  BY PartsAssumption
     DEF CloseRefused, Fail, JoinRefused, Removed, IInv, TypeOK
<1>2. parts' = parts \/ parts' = [parts EXCEPT ![Current] = NoPart]
  BY DEF CloseRefused, Fail, JoinRefused, Removed
<1>3. /\ parts' \in [Indices -> Part \cup {NoPart}]
      /\ \A i \in Indices : parts'[i] = NoPart \/ parts'[i] = parts[i]
  <2>1. CASE parts' = parts
    BY <2>1 DEF IInv, TypeOK
  <2>2. CASE parts' = [parts EXCEPT ![Current] = NoPart]
    BY <2>2 DEF IInv, TypeOK
  <2>3. QED
    BY <1>2, <2>1, <2>2
<1>4. \A i \in Indices : parts'[i] # NoPart =>
           parts[i] # NoPart /\ parts'[i].made = parts[i].made
  BY <1>3
<1>5. QED
  BY <1>1, <1>3, <1>4, ExitInv

LEMMA KillInv ==
  ASSUME IInv, Kill
  PROVE  IInv'
<1>1. Exit /\ UNCHANGED <<counted, manifest, dst>> /\ faults' \in 0 .. MaxFaults
  BY PartsAssumption DEF Kill, IInv, TypeOK
<1>2. CASE pc # "feeding"
  <2>1. parts' = parts
    BY <1>2 DEF Kill
  <2>2. QED
    BY <1>1, <2>1, ExitInv DEF IInv, TypeOK
<1>3. CASE pc = "feeding"
  <2>1. PICK n \in 0 .. Least(count, Cap(Current)) :
          parts' = [parts EXCEPT ![Current].len = n]
    BY <1>3 DEF Kill
  <2>2. Current \in Nat /\ counted \in Nat
    BY <1>3, Division, PartsAssumption DEF Current, IInv, TypeOK, OpenPart
  <2>3. Cap(Current) \in 0 .. PartFrames
    BY <2>2, CapType
  <2>4. n \in 0 .. Cap(Current)
    BY <2>3, PartsAssumption DEF Least, IInv, TypeOK
  <2>5. QED
    BY <1>1, <1>3, <2>1, <2>4, OpenPartMeasured, ExitInv
<1>4. QED
  BY <1>2, <1>3
-----------------------------------------------------------------------------
LEMMA ComposedInv ==
  ASSUME IInv, Composed
  PROVE  IInv'
<1>1. TypeOK'
  BY DEF Composed, IInv, TypeOK, PCs, opts, sink
<1>2. Described' /\ OwnParts' /\ OpenPart' /\ OwnManifest' /\ OwnFile' /\ OneMaking'
  BY DEF Composed, IInv, Described, OwnParts, OpenPart, OwnManifest, OwnFile,
         OneMaking, opts
<1>3. QED
  BY <1>1, <1>2 DEF IInv

(* The file is joined from the parts that are there, all of one making.    *)
LEMMA JoinInv ==
  ASSUME IInv, Join
  PROVE  IInv'
<1>1. /\ pc = "joining" /\ pc' = "publishing" /\ tmp' = Joined /\ Contiguous
      /\ UNCHANGED <<opts, sink, manifest, parts, dst, faults>>
  BY DEF Join
<1>2. TypeOK'
  BY <1>1 DEF IInv, TypeOK, PCs, opts, sink
<1>3. Cardinality(Present) \in Nat
  <2>1. PartCount(Actual) \in Int
    BY PartsAssumption DEF PartCount
  <2>2. IsFiniteSet(Indices) /\ Present \subseteq Indices
    BY <2>1, FS_Interval DEF Indices, Present
  <2>3. IsFiniteSet(Present)
    BY <2>2, FS_Subset
  <2>4. QED
    BY <2>3, FS_CardinalityType
<1>4. \A i \in DOMAIN Joined : i - 1 \in Present /\ Joined[i] = parts[i - 1]
  BY <1>1, <1>3 DEF Joined, Contiguous
<1>5. OwnFile'
  BY <1>1, <1>4 DEF OwnFile, IInv, OwnParts, Present, opts
<1>6. Described' /\ OwnParts' /\ OpenPart' /\ OwnManifest' /\ OneMaking'
  BY <1>1 DEF IInv, Described, OwnParts, OpenPart, OwnManifest, OneMaking, opts
<1>7. QED
  BY <1>2, <1>5, <1>6 DEF IInv

LEMMA PublishInv ==
  ASSUME IInv, Publish
  PROVE  IInv'
<1>1. TypeOK'
  BY DEF Publish, IInv, TypeOK, PCs, opts, sink
<1>2. OneMaking'
  BY DEF Publish, IInv, OwnFile, OneMaking
<1>3. Described' /\ OwnParts' /\ OpenPart' /\ OwnManifest' /\ OwnFile'
  BY DEF Publish, IInv, Described, OwnParts, OpenPart, OwnManifest, OwnFile, opts
<1>4. QED
  BY <1>1, <1>2, <1>3 DEF IInv

LEMMA RemoveInv ==
  ASSUME IInv, Remove
  PROVE  IInv'
<1>1. pc = "removing" /\ UNCHANGED <<opts, sink, dst, pc, tmp, faults>>
  BY DEF Remove
<1>2. CASE manifest' = NoMade /\ UNCHANGED parts
  <2>1. TypeOK'
    BY <1>1, <1>2 DEF IInv, TypeOK, opts, sink
  <2>2. Described' /\ OwnParts' /\ OpenPart' /\ OwnManifest' /\ OwnFile' /\ OneMaking'
    BY <1>1, <1>2 DEF IInv, Described, OwnParts, OpenPart, OwnManifest, OwnFile,
                      OneMaking, opts
  <2>3. QED
    BY <2>1, <2>2 DEF IInv
<1>3. CASE \E k \in Present : parts' = [parts EXCEPT ![k] = NoPart]
                              /\ UNCHANGED manifest
  <2>1. PICK k \in Present : parts' = [parts EXCEPT ![k] = NoPart]
                             /\ UNCHANGED manifest
    BY <1>3
  <2>2. k \in Indices
    BY DEF Present
  <2>3. QED
    BY <1>1, <2>1, <2>2, TakeAwayInv
<1>4. QED
  BY <1>2, <1>3 DEF Remove

LEMMA StepInv == IInv /\ [Next]_vars => IInv'
<1> SUFFICES ASSUME IInv, [Next]_vars PROVE IInv'
  OBVIOUS
<1>1. CASE \E s \in Settings, resume \in Resumes : Start(s, resume)
  BY <1>1, StartInv
<1>2. CASE \E k \in Indices : Clear(k) \/ Trim(k)
  <2>1. PICK k \in Indices : Clear(k) \/ Trim(k)
    BY <1>2
  <2>2. /\ pc # "feeding" /\ parts' = [parts EXCEPT ![k] = NoPart]
        /\ UNCHANGED <<opts, sink, manifest, dst, pc, tmp, faults>>
    BY <2>1 DEF Clear, Trim
  <2>3. QED
    BY <2>2, TakeAwayInv
<1>3. CASE Cleared \/ Truncate \/ Note \/ Trimmed
  BY <1>3, ClearedInv, TruncateInv, NoteInv, TrimmedInv
<1>4. CASE Open \/ Feed \/ Close \/ Composed
  BY <1>4, OpenInv, FeedInv, CloseInv, ComposedInv
<1>5. CASE Join \/ Publish \/ Remove
  BY <1>5, JoinInv, PublishInv, RemoveInv
<1>6. CASE CloseRefused \/ Fail \/ JoinRefused \/ Removed
  BY <1>6, EndsInv
<1>7. CASE Kill
  BY <1>7, KillInv
<1>8. CASE UNCHANGED vars
  <2>1. TypeOK'
    BY <1>8 DEF vars, opts, sink, IInv, TypeOK
  <2>2. Described' /\ OwnParts' /\ OwnManifest' /\ OwnFile' /\ OneMaking'
    BY <1>8 DEF vars, opts, IInv, Described, OwnParts, OwnManifest, OwnFile,
                OneMaking
  <2>3. OpenPart'
    BY <1>8 DEF vars, sink, IInv, OpenPart, Current
  <2>4. QED
    BY <2>1, <2>2, <2>3 DEF IInv
<1>9. QED
  BY <1>1, <1>2, <1>3, <1>4, <1>5, <1>6, <1>7, <1>8 DEF Next, RunStep

(* Who made what is in the directory, at every moment a run may die.       *)
THEOREM InvCorrect == Spec => []IInv
<1>1. Init => IInv
  BY InitInv
<1>2. IInv /\ [Next]_vars => IInv'
  BY StepInv
<1>3. QED
  BY <1>1, <1>2, PTL DEF Spec

(* A manifest that can be read describes every part beside it, wherever    *)
(* the runs before were killed and whatever settings they had.             *)
THEOREM DescribedCorrect == Spec => []Described
<1>1. IInv => Described
  BY DEF IInv
<1>2. QED
  BY <1>1, InvCorrect, PTL

(* No published video is put together from parts that were made with       *)
(* different settings or from different shot boundaries.                   *)
THEOREM OneMakingCorrect == Spec => []OneMaking
<1>1. IInv => OneMaking
  BY DEF IInv
<1>2. QED
  BY <1>1, InvCorrect, PTL
-----------------------------------------------------------------------------
(***************************************************************************)
(* Which frames are in which part, and that a video of as many frames as   *)
(* the source has is the whole of it.                                      *)
(***************************************************************************)
LEMMA Places ==
  ASSUME NEW a \in Nat, NEW b \in Nat
  PROVE  /\ a * PartFrames \in Nat /\ (a + 1) * PartFrames = a * PartFrames + PartFrames
         /\ a < b => a * PartFrames + PartFrames <= b * PartFrames
         /\ a <= b => a * PartFrames <= b * PartFrames
BY PartsAssumption

LEMMA PlaceOf ==
  ASSUME NEW a \in Nat, NEW b \in Nat, NEW n \in Nat,
         a * PartFrames <= n, n < a * PartFrames + PartFrames,
         b * PartFrames <= n, n < b * PartFrames + PartFrames
  PROVE  a = b
<1> DEFINE x == a * PartFrames
           y == b * PartFrames
<1>1. /\ x \in Nat /\ y \in Nat /\ PartFrames \in Nat
      /\ a < b => x + PartFrames <= y
      /\ b < a => y + PartFrames <= x
  BY Places, PartsAssumption
<1>2. x <= n /\ n < x + PartFrames /\ y <= n /\ n < y + PartFrames
  OBVIOUS
<1> HIDE DEF x, y
<1>3. QED
  BY <1>1, <1>2

LEMMA Later ==
  ASSUME NEW m \in Nat, NEW n \in Nat, m <= n
  PROVE  m \div PartFrames <= n \div PartFrames
<1> DEFINE a == m \div PartFrames
           b == n \div PartFrames
           x == a * PartFrames
           y == b * PartFrames
<1>1. a \in Nat /\ b \in Nat /\ x <= m /\ n < y + PartFrames
  BY Division
<1> HIDE DEF a, b
<1>2. x \in Nat /\ y \in Nat /\ (b < a => y + PartFrames <= x) /\ PartFrames \in Nat
  BY <1>1, Places, PartsAssumption
<1> HIDE DEF x, y
<1>3. ~(b < a)
  BY <1>1, <1>2
<1>4. QED
  BY <1>1, <1>3 DEF a, b

LEMMA PartCounted ==
  /\ PartCount(Actual) \in Nat
  /\ \A k \in Nat : k * PartFrames < Actual <=> k < PartCount(Actual)
<1> DEFINE n == Actual + PartFrames - 1
           q == n \div PartFrames
<1>1. n \in Nat /\ Actual \in Nat /\ PartFrames \in Nat \ {0} /\ PartCount(Actual) = q
  BY PartsAssumption DEF PartCount
<1>2. q \in Nat /\ q * PartFrames <= n /\ n < q * PartFrames + PartFrames
  BY <1>1, Division
<1> HIDE DEF q
<1>3. ASSUME NEW k \in Nat
      PROVE  k * PartFrames < Actual <=> k < q
  <2> DEFINE x == k * PartFrames
             y == q * PartFrames
  <2>1. /\ x \in Nat /\ y \in Nat
        /\ k < q => x + PartFrames <= y
        /\ q <= k => y <= x
    BY <1>2, Places
  <2>2. y <= n /\ n < y + PartFrames
    BY <1>2
  <2> HIDE DEF x, y
  <2>3. x < Actual <=> k < q
    BY <1>1, <1>2, <2>1, <2>2
  <2>4. QED
    BY <2>3 DEF x
<1>4. QED
  BY <1>1, <1>2, <1>3

(* A part holds frames of its place only, and of the source.               *)
InPlace(k, p) ==
  /\ k * PartFrames <= p.first /\ p.first < k * PartFrames + PartFrames
  /\ p.first < Actual
  /\ p.first + p.len <= k * PartFrames + PartFrames
  /\ p.first + p.len <= Actual

Whole(video) ==
  /\ DOMAIN video = 1 .. PartCount(Actual)
  /\ \A i \in DOMAIN video : /\ video[i].first = (i - 1) * PartFrames
                             /\ video[i].len = Share(i - 1, Actual)

LEMMA ShareIs ==
  ASSUME NEW k \in Nat, k * PartFrames < Actual
  PROVE  /\ Share(k, Actual) \in 1 .. PartFrames
         /\ k * PartFrames + Share(k, Actual) <= Actual
         /\ \/ Share(k, Actual) = PartFrames
            \/ k * PartFrames + Share(k, Actual) = Actual
<1> DEFINE x == k * PartFrames
<1>1. x \in Nat /\ x < Actual /\ Actual \in Nat /\ PartFrames \in Nat \ {0}
  BY Places, PartsAssumption
<1>2. Share(k, Actual) = Least(PartFrames, Actual - x)
  BY DEF Share
<1> HIDE DEF x
<1>3. /\ Share(k, Actual) \in 1 .. PartFrames
      /\ x + Share(k, Actual) <= Actual
      /\ Share(k, Actual) = PartFrames \/ x + Share(k, Actual) = Actual
  BY <1>1, <1>2 DEF Least
<1>4. QED
  BY <1>3 DEF x

(* Each frame is in one place, so as many frames as the source has are all *)
(* of them.                                                                *)
LEMMA WholeFrames ==
  ASSUME NEW n \in Nat, NEW video \in [1 .. n -> Part],
         \A i \in 1 .. n : InPlace(i - 1, video[i]),
         Counted(video) = Actual
  PROVE  Whole(video)
<1> DEFINE F == Frames(video)
           at(i, m) == (i - 1) * PartFrames + m
           g == [x \in F |-> at(x[1], x[2])]
<1>1. DOMAIN video = 1 .. n /\ Actual \in Nat \ {0} /\ PartFrames \in Nat \ {0}
  BY PartsAssumption
<1>2. ASSUME NEW i \in 1 .. n
      PROVE  /\ i - 1 \in Nat /\ (i - 1) * PartFrames \in Nat
             /\ video[i].first \in Nat /\ video[i].len \in Nat
             /\ (i - 1) * PartFrames <= video[i].first
             /\ video[i].first < Actual
             /\ video[i].first + video[i].len <= (i - 1) * PartFrames + PartFrames
             /\ video[i].first + video[i].len <= Actual
  <2>1. i - 1 \in Nat /\ video[i] \in Part /\ InPlace(i - 1, video[i])
    OBVIOUS
  <2>2. (i - 1) * PartFrames \in Nat
    BY <2>1, Places
  <2>3. video[i].first \in Nat /\ video[i].len \in Nat
    BY <2>1, <1>1 DEF Part
  <2>4. QED
    BY <2>1, <2>2, <2>3 DEF InPlace
<1>3. F = {f \in (1 .. n) \X (1 .. PartFrames) : f[2] <= video[f[1]].len}
  BY <1>1 DEF Frames
<1>4. ASSUME NEW i \in 1 .. n, NEW m \in 1 .. PartFrames, m <= video[i].len
      PROVE  at(i, m) \in 1 .. Actual
  <2> DEFINE x == (i - 1) * PartFrames
  <2>1. /\ x \in Nat /\ x <= video[i].first /\ video[i].first + video[i].len <= Actual
        /\ video[i].first \in Nat /\ video[i].len \in Nat
    BY <1>2
  <2> HIDE DEF x
  <2>2. x + m \in 1 .. Actual
    BY <1>1, <1>4, <2>1
  <2>3. QED
    BY <2>2 DEF x
<1>5. ASSUME NEW i \in 1 .. n, NEW m \in 1 .. PartFrames,
             NEW k \in Nat, NEW l \in 1 .. PartFrames, at(i, m) = k * PartFrames + l
      PROVE  i - 1 = k /\ m = l
  <2> DEFINE x == (i - 1) * PartFrames
             y == k * PartFrames
  <2>1. x \in Nat /\ y \in Nat /\ i - 1 \in Nat /\ x + m = y + l
    BY <1>2, <1>5, Places
  <2> HIDE DEF x, y
  <2>2. /\ y + l - 1 \in Nat
        /\ x <= y + l - 1 /\ y + l - 1 < x + PartFrames
        /\ y <= y + l - 1 /\ y + l - 1 < y + PartFrames
    BY <1>1, <2>1
  <2>3. i - 1 = k
    BY <2>1, <2>2, PlaceOf DEF x, y
  <2>4. QED
    BY <2>1, <2>3 DEF x, y
<1>6. g \in Injection(F, 1 .. Actual)
  <2>1. g \in [F -> 1 .. Actual]
    BY <1>3, <1>4
  <2>2. ASSUME NEW a \in F, NEW b \in F, g[a] = g[b]
        PROVE  a = b
    <3>1. PICK i \in 1 .. n, m \in 1 .. PartFrames : a = <<i, m>> /\ m <= video[i].len
      BY <1>3
    <3>2. PICK j \in 1 .. n, l \in 1 .. PartFrames : b = <<j, l>> /\ l <= video[j].len
      BY <1>3
    <3>3. j - 1 \in Nat /\ at(i, m) = (j - 1) * PartFrames + l
      BY <2>2, <3>1, <3>2
    <3>4. i - 1 = j - 1 /\ m = l
      BY <1>5, <3>3
    <3>5. QED
      BY <3>1, <3>2, <3>4
  <2>3. QED
    BY <2>1, <2>2 DEF Injection, IsInjective
<1>7. \A v \in 1 .. Actual : \E x \in F : g[x] = v
  <2>1. IsFiniteSet(1 .. Actual) /\ Cardinality(1 .. Actual) = Actual
    BY <1>1, FS_Interval
  <2>2. Cardinality(F) = Actual
    BY DEF Counted
  <2>3. g \in Surjection(F, 1 .. Actual)
    BY <1>6, <2>1, <2>2, FS_Injection
  <2>4. QED
    BY <2>3 DEF Surjection
<1>8. ASSUME NEW k \in Nat, k * PartFrames < Actual
      PROVE  /\ k + 1 \in 1 .. n
             /\ video[k + 1].len = Share(k, Actual) /\ video[k + 1].first = k * PartFrames
  <2> DEFINE y == k * PartFrames
             l == Share(k, Actual)
  <2>1. /\ y \in Nat /\ l \in 1 .. PartFrames /\ y + l <= Actual
        /\ l = PartFrames \/ y + l = Actual
    BY <1>8, ShareIs, Places
  <2>2. y + l \in 1 .. Actual
    BY <1>1, <2>1
  <2>3. PICK x \in F : g[x] = y + l
    BY <1>7, <2>2
  <2>4. PICK i \in 1 .. n, m \in 1 .. PartFrames : x = <<i, m>> /\ m <= video[i].len
    BY <1>3
  <2>5. at(i, m) = k * PartFrames + l
    BY <2>3, <2>4
  <2> HIDE DEF l
  <2>6. i - 1 = k /\ m = l
    BY <1>5, <2>1, <2>5
  <2>7. i = k + 1 /\ l <= video[i].len /\ y = (i - 1) * PartFrames
    BY <2>4, <2>6
  <2> HIDE DEF y
  <2>8. /\ y <= video[i].first
        /\ video[i].first \in Nat /\ video[i].len \in Nat
        /\ video[i].first + video[i].len <= y + PartFrames
        /\ video[i].first + video[i].len <= Actual
    BY <1>2, <2>7
  <2>9. video[i].len = l /\ video[i].first = y
    <3> DEFINE a == video[i].first
               d == video[i].len
    <3>1. /\ l <= d /\ y <= a /\ a \in Nat /\ d \in Nat
          /\ a + d <= y + PartFrames /\ a + d <= Actual
      BY <2>7, <2>8
    <3> HIDE DEF a, d
    <3>2. d = l /\ a = y
      BY <1>1, <2>1, <3>1
    <3>3. QED
      BY <3>2 DEF a, d
  <2>10. QED
    BY <2>7, <2>9 DEF y, l
<1>9. ASSUME NEW i \in 1 .. n
      PROVE  (i - 1) * PartFrames < Actual
  <2> DEFINE x == (i - 1) * PartFrames
  <2>1. x \in Nat /\ x <= video[i].first /\ video[i].first < Actual /\ video[i].first \in Nat
    BY <1>2
  <2> HIDE DEF x
  <2>2. x < Actual
    BY <1>1, <2>1
  <2>3. QED
    BY <2>2 DEF x
<1>10. n = PartCount(Actual)
  <2>1. PartCount(Actual) <= n
    <3>1. PartCount(Actual) \in Nat
      BY PartCounted
    <3>2. CASE PartCount(Actual) = 0
      BY <3>2
    <3>3. CASE PartCount(Actual) # 0
      <4>1. PartCount(Actual) - 1 \in Nat
        BY <3>1, <3>3
      <4>2. (PartCount(Actual) - 1) * PartFrames < Actual
        BY <3>1, <4>1, PartCounted
      <4>3. (PartCount(Actual) - 1) + 1 \in 1 .. n
        BY <1>8, <4>1, <4>2
      <4>4. QED
        BY <3>1, <4>3
    <3>4. QED
      BY <3>2, <3>3
  <2>2. n <= PartCount(Actual)
    <3>1. CASE n = 0
      BY <3>1, PartCounted
    <3>2. CASE n # 0
      <4>1. n \in 1 .. n /\ n - 1 \in Nat
        BY <3>2
      <4>2. (n - 1) * PartFrames < Actual
        BY <1>9, <4>1
      <4>3. n - 1 < PartCount(Actual)
        BY <4>1, <4>2, PartCounted
      <4>4. QED
        BY <4>3, PartCounted
    <3>3. QED
      BY <3>1, <3>2
  <2>3. QED
    BY <2>1, <2>2, PartCounted
<1>11. ASSUME NEW i \in 1 .. n
       PROVE  video[i].first = (i - 1) * PartFrames /\ video[i].len = Share(i - 1, Actual)
  <2>1. i - 1 \in Nat /\ (i - 1) * PartFrames < Actual /\ (i - 1) + 1 = i
    BY <1>9
  <2>2. QED
    BY <1>8, <2>1
<1>12. QED
  BY <1>1, <1>10, <1>11 DEF Whole
-----------------------------------------------------------------------------
(***************************************************************************)
(* The invariant of the frames.                                            *)
(***************************************************************************)
Placed == \A k \in Indices : parts[k] # NoPart => InPlace(k, parts[k])

(* The open part has no readable length yet; what was fed into it begins   *)
(* where it does and ends where the run is.                                *)
Opened == pc = "feeding" =>
  /\ Current \in Indices /\ parts[Current] # NoPart
  /\ parts[Current].first = index - count
  /\ parts[Current].len = 0
  /\ index <= Current * PartFrames + PartFrames

(* The hypothesis of the theorem on the whole video: no decoder dies.      *)
AllDecoded == Decoded = {Actual}

Reached == index <= Actual /\ (AllDecoded => until = Actual)

(* A run that resumed has no part beyond the one it is at ...              *)
Fresh == keep /\ CountFits =>
  /\ pc = "composing" /\ index < until =>
       \A k \in Indices : k >= index \div PartFrames => parts[k] = NoPart
  /\ pc = "feeding" => \A k \in Indices : k > Current => parts[k] = NoPart

(* ... and cleared nothing.                                                *)
Cleaned == pc = "clearing" => ~keep

(* What is about to be published is the whole video, and so is what was.   *)
Held == AllDecoded /\ pc = "publishing" => Whole(tmp)

Kept == AllDecoded => WholeVideo

WInv == IInv /\ Placed /\ Opened /\ Reached /\ Fresh /\ Cleaned /\ Held /\ Kept

LEMMA WTypes ==
  ASSUME WInv
  PROVE  /\ parts \in [Indices -> Part \cup {NoPart}]
         /\ counted \in Nat /\ index \in Nat /\ count \in Nat /\ index <= Actual
         /\ until \in 1 .. Actual
         /\ Actual \in Nat \ {0} /\ PartFrames \in Nat \ {0}
         /\ made \in Made \cup {NoMade} /\ keep \in BOOLEAN
         /\ Indices \subseteq Nat
         /\ pc = "feeding" => /\ count <= index /\ index - count \in Nat
                               /\ Current \in Nat /\ Current <= index \div PartFrames
                               /\ Current * PartFrames \in Nat
                               /\ Current * PartFrames <= index - count
<1>1. /\ parts \in [Indices -> Part \cup {NoPart}]
      /\ counted \in Nat /\ index \in Nat /\ count \in Nat /\ index <= Actual
      /\ until \in 1 .. Actual
      /\ Actual \in Nat \ {0} /\ PartFrames \in Nat \ {0}
      /\ made \in Made \cup {NoMade} /\ keep \in BOOLEAN
  BY PartsAssumption DEF WInv, IInv, TypeOK, Reached
<1>2. Indices \subseteq Nat
  BY PartCounted DEF Indices
<1>3. ASSUME pc = "feeding"
      PROVE  /\ count <= index /\ index - count \in Nat
             /\ Current \in Nat /\ Current <= index \div PartFrames
             /\ Current * PartFrames \in Nat
             /\ Current * PartFrames <= index - count
  <2>1. count <= index
    BY <1>3 DEF WInv, IInv, OpenPart
  <2>2. index - count \in Nat /\ index - count <= index
    BY <1>1, <2>1
  <2>3. /\ Current \in Nat /\ Current * PartFrames <= index - count
        /\ Current <= index \div PartFrames
    BY <1>1, <2>2, Division, Later DEF Current
  <2>4. QED
    BY <2>1, <2>2, <2>3, Places
<1>4. QED
  BY <1>1, <1>2, <1>3

LEMMA PartFacts ==
  ASSUME WInv, NEW k \in Indices, parts[k] # NoPart
  PROVE  /\ k \in Nat /\ k * PartFrames \in Nat
         /\ parts[k] \in Part /\ parts[k].first \in Nat /\ parts[k].len \in Nat
         /\ InPlace(k, parts[k])
<1>1. k \in Nat /\ parts[k] \in Part /\ PartFrames \in Nat
  BY WTypes
<1>2. parts[k].first \in Nat /\ parts[k].len \in Nat
  BY <1>1 DEF Part
<1>3. QED
  BY <1>1, <1>2, Places DEF WInv, Placed

(* A step that is not part of the compositing: it may end it, and parts    *)
(* may go.                                                                 *)
LEMMA QuietInv ==
  ASSUME WInv, [Next]_vars,
         pc' \notin {"composing", "feeding", "joining", "publishing"},
         pc' = "clearing" => ~keep',
         index' \in {index, 0}, AllDecoded => until' \in {until, Actual}, UNCHANGED dst,
         \A k \in Indices : parts'[k] # NoPart => InPlace(k, parts'[k])
  PROVE  WInv'
<1>1. IInv'
  BY StepInv DEF WInv
<1>2. Placed' /\ Opened' /\ Fresh' /\ Cleaned' /\ Held'
  BY DEF Placed, Opened, Fresh, Cleaned, Held
<1>3. Reached'
  BY WTypes DEF WInv, Reached
<1>4. Kept'
  BY DEF WInv, Kept, WholeVideo
<1>5. QED
  BY <1>1, <1>2, <1>3, <1>4 DEF WInv

LEMMA TakenAway ==
  ASSUME WInv, NEW j, parts' = [parts EXCEPT ![j] = NoPart] \/ UNCHANGED parts
  PROVE  \A k \in Indices : parts'[k] # NoPart => InPlace(k, parts'[k])
<1>1. \A k \in Indices : parts'[k] = parts[k] \/ parts'[k] = NoPart
  BY WTypes
<1>2. QED
  BY <1>1 DEF WInv, Placed

(* The open part is cut off or finished.                                   *)
LEMMA Measured ==
  ASSUME WInv, pc = "feeding", NEW n \in 0 .. count,
         parts' = [parts EXCEPT ![Current].len = n]
  PROVE  \A k \in Indices : parts'[k] # NoPart => InPlace(k, parts'[k])
<1> SUFFICES ASSUME NEW k \in Indices, parts'[k] # NoPart PROVE InPlace(k, parts'[k])
  OBVIOUS
<1>1. CASE k # Current
  <2>1. parts'[k] = parts[k]
    BY <1>1, WTypes
  <2>2. QED
    BY <2>1 DEF WInv, Placed
<1>2. CASE k = Current
  <2>1. parts[k] # NoPart /\ parts[k].first = index - count /\ index <= k * PartFrames + PartFrames
    BY <1>2 DEF WInv, Opened
  <2>2. /\ parts[k] \in Part /\ InPlace(k, parts[k]) /\ k * PartFrames \in Nat
        /\ parts[k].first \in Nat
    BY <2>1, PartFacts
  <2>3. parts'[k] = [parts[k] EXCEPT !.len = n]
    BY <1>2, WTypes
  <2>4. parts'[k].first = parts[k].first /\ parts'[k].len = n
    BY <2>2, <2>3 DEF Part
  <2> DEFINE x == k * PartFrames
  <2>5. /\ x \in Nat /\ x <= parts[k].first /\ parts[k].first < x + PartFrames
        /\ parts[k].first < Actual /\ index <= x + PartFrames
    BY <2>1, <2>2 DEF InPlace
  <2> HIDE DEF x
  <2>6. /\ x <= parts'[k].first /\ parts'[k].first < x + PartFrames
        /\ parts'[k].first < Actual
        /\ parts'[k].first + parts'[k].len <= x + PartFrames
        /\ parts'[k].first + parts'[k].len <= Actual
    BY <2>1, <2>4, <2>5, WTypes
  <2>7. QED
    BY <2>6 DEF InPlace, x
<1>3. QED
  BY <1>1, <1>2

LEMMA QuietSteps ==
  ASSUME WInv, [Next]_vars,
         \/ \E s \in Settings, resume \in Resumes : Start(s, resume)
         \/ \E k \in Indices : Clear(k) \/ Trim(k)
         \/ Cleared \/ Truncate \/ Remove
         \/ CloseRefused \/ Fail \/ JoinRefused \/ Removed \/ Kill
  PROVE  WInv'
<1>1. CASE \E s \in Settings, resume \in Resumes : Start(s, resume)
  <2>1. PICK s \in Settings, resume \in Resumes : Start(s, resume)
    BY <1>1
  <2>2. /\ pc' \in {"noting", "clearing"} /\ (pc' = "clearing" => ~keep')
        /\ index' = index /\ (AllDecoded => until' = Actual) /\ UNCHANGED <<dst, parts>>
    BY <2>1 DEF Start, PipeEnds, sink, AllDecoded
  <2>3. QED
    BY <2>2, QuietInv DEF WInv, Placed
<1>2. CASE \E k \in Indices : Clear(k) \/ Trim(k)
  <2>1. PICK k \in Indices : Clear(k) \/ Trim(k)
    BY <1>2
  <2>2. /\ pc \in {"clearing", "trimming"} /\ parts' = [parts EXCEPT ![k] = NoPart]
        /\ UNCHANGED <<pc, keep, until, index, dst>>
    BY <2>1 DEF Clear, Trim, opts, sink
  <2>3. pc' = "clearing" => ~keep'
    BY <2>2 DEF WInv, Cleaned
  <2>4. QED
    BY <2>2, <2>3, TakenAway, QuietInv
<1>3. CASE Cleared \/ Truncate
  <2>1. pc' \in {"noting", "writing"} /\ UNCHANGED <<parts, until, index, dst>>
    BY <1>3 DEF Cleared, Truncate, opts, sink
  <2>2. QED
    BY <2>1, QuietInv DEF WInv, Placed
<1>4. CASE Remove
  <2>1. pc = "removing" /\ UNCHANGED <<pc, until, index, dst>>
    BY <1>4 DEF Remove, opts, sink
  <2>2. \E j \in Indices : parts' = [parts EXCEPT ![j] = NoPart] \/ UNCHANGED parts
    <3>1. Indices # {}
      BY PartCounted DEF Indices
    <3>2. QED
      BY <1>4, <3>1 DEF Remove, Present
  <2>3. QED
    BY <2>1, <2>2, TakenAway, QuietInv
<1>5. CASE CloseRefused \/ Fail \/ JoinRefused \/ Removed
  <2>1. /\ Exit /\ UNCHANGED dst
        /\ parts' = [parts EXCEPT ![Current] = NoPart] \/ UNCHANGED parts
    BY <1>5 DEF CloseRefused, Fail, JoinRefused, Removed
  <2>2. pc' = "idle" /\ index' = 0 /\ until' = Actual
    BY <2>1, ExitFacts
  <2>3. QED
    BY <2>1, <2>2, TakenAway, QuietInv
<1>6. CASE Kill
  <2>1. Exit /\ UNCHANGED dst
    BY <1>6 DEF Kill
  <2>2. pc' = "idle" /\ index' = 0 /\ until' = Actual
    BY <2>1, ExitFacts
  <2>3. CASE pc # "feeding"
    <3>1. UNCHANGED parts
      BY <1>6, <2>3 DEF Kill
    <3>2. QED
      BY <2>1, <2>2, <3>1, QuietInv DEF WInv, Placed
  <2>4. CASE pc = "feeding"
    <3>1. PICK n \in 0 .. Least(count, Cap(Current)) : parts' = [parts EXCEPT ![Current].len = n]
      BY <1>6, <2>4 DEF Kill
    <3>2. n \in 0 .. count
      <4>1. Cap(Current) \in 0 .. PartFrames
        BY <2>4, WTypes, CapType
      <4>2. QED
        BY <4>1, WTypes DEF Least
    <3>3. QED
      BY <2>1, <2>2, <2>4, <3>1, <3>2, Measured, QuietInv
  <2>5. QED
    BY <2>3, <2>4
<1>7. QED
  BY <1>1, <1>2, <1>3, <1>4, <1>5, <1>6

LEMMA NoteWhole ==
  ASSUME WInv, Note
  PROVE  WInv'
<1>1. /\ pc' = IF keep THEN "trimming" ELSE "composing"
      /\ UNCHANGED <<keep, until, parts, index, dst>>
  BY DEF Note, opts, sink
<1>2. IInv'
  BY NoteInv DEF WInv
<1>3. Placed' /\ Reached' /\ Kept'
  BY <1>1 DEF WInv, Placed, Reached, Kept, WholeVideo
<1>4. Opened' /\ Fresh' /\ Cleaned' /\ Held'
  BY <1>1, WTypes DEF Opened, Fresh, Cleaned, Held
<1>5. QED
  BY <1>2, <1>3, <1>4 DEF WInv
-----------------------------------------------------------------------------
LEMMA LeastElement ==
  ASSUME NEW T, T \subseteq Nat, T # {}
  PROVE  \E x \in T : \A y \in T : x <= y
<1>1. \E x \in T : \A y \in T : ~(<<y, x>> \in OpToRel(<, Nat))
  BY WFMin, NatLessThanWellFounded
<1>2. PICK x \in T : \A y \in T : ~(<<y, x>> \in OpToRel(<, Nat))
  BY <1>1
<1>3. \A y \in T : ~(y < x)
  BY <1>2 DEF OpToRel
<1>4. QED
  BY <1>3

(* The usable parts are those before the first one that is not.            *)
LEMMA UsablePrefix ==
  \E u \in Nat : Usable = 0 .. u - 1 /\ Cardinality(Usable) = u
<1> DEFINE T == Nat \ Usable
<1>1. PartCount(Actual) \in Nat /\ Indices = 0 .. PartCount(Actual) /\ Usable \subseteq Indices
  BY PartCounted DEF Indices, Usable
<1>2. T \subseteq Nat /\ PartCount(Actual) + 1 \in T
  BY <1>1
<1> HIDE DEF T
<1>3. PICK u \in T : \A k \in T : u <= k
  BY <1>2, LeastElement
<1>4. u \in Nat /\ u \notin Usable /\ \A k \in Nat : k \notin Usable => u <= k
  BY <1>3 DEF T
<1>5. 0 .. u - 1 \subseteq Usable
  BY <1>4
<1>6. ASSUME NEW k \in Usable, u <= k
      PROVE  FALSE
  <2>1. u \in 0 .. k /\ u \in Indices
    BY <1>1, <1>4, <1>6
  <2>2. 0 .. u \subseteq 0 .. k
    BY <1>1, <1>4, <1>6
  <2>3. \A i \in 0 .. k : Complete(i)
    BY DEF Usable
  <2>4. u \in Usable
    BY <2>1, <2>2, <2>3 DEF Usable
  <2>5. QED
    BY <1>4, <2>4
<1>7. Usable = 0 .. u - 1
  <2>1. \A k \in Usable : k \in Nat /\ ~(u <= k)
    BY <1>1, <1>6
  <2>2. Usable \subseteq 0 .. u - 1
    BY <1>4, <2>1
  <2>3. QED
    BY <1>5, <2>2
<1>8. Cardinality(0 .. u - 1) = u
  BY <1>4, FS_Interval
<1>9. QED
  BY <1>4, <1>7, <1>8

(* A count that ends inside a part.                                        *)
LEMMA EndsInside ==
  ASSUME NEW k \in Nat, NEW n \in Nat, k * PartFrames < n, n < k * PartFrames + PartFrames
  PROVE  n % PartFrames # 0
<1> DEFINE q == n \div PartFrames
<1>1. PartFrames \in Nat \ {0} /\ k * PartFrames \in Nat
  BY Places, PartsAssumption
<1>2. q \in Nat /\ q * PartFrames <= n /\ n < q * PartFrames + PartFrames
  BY Division
<1>3. q = k
  BY <1>1, <1>2, PlaceOf
<1>4. n % PartFrames = n - q * PartFrames
  BY <1>1
<1>5. QED
  BY <1>1, <1>3, <1>4

(* Where the usable parts end.                                             *)
LEMMA UsableEnd ==
  ASSUME WInv, NEW u \in Nat, Usable = 0 .. u - 1, u # 0
  PROVE  /\ u - 1 \in Nat /\ (u - 1) * PartFrames \in Nat
         /\ u * PartFrames = (u - 1) * PartFrames + PartFrames
         /\ (u - 1) * PartFrames < counted
         /\ Least(u * PartFrames, counted) <= Actual
<1> DEFINE k == u - 1
           x == k * PartFrames
           l == Share(k, counted)
<1>1. k \in Nat /\ u = k + 1 /\ k \in Usable
  OBVIOUS
<1>2. x \in Nat /\ u * PartFrames = x + PartFrames
  BY <1>1, Places
<1>3. k \in Indices /\ Complete(k)
  BY <1>1 DEF Usable
<1>4. l > 0 /\ parts[k] # NoPart /\ parts[k].len = l
  BY <1>3 DEF Complete
<1>5. /\ InPlace(k, parts[k]) /\ parts[k].first \in Nat /\ parts[k].len \in Nat
  BY <1>3, <1>4, PartFacts
<1>6. x <= parts[k].first /\ parts[k].first + parts[k].len <= Actual
  BY <1>5 DEF InPlace
<1>7. l = IF x < counted THEN Least(PartFrames, counted - x) ELSE 0
  BY DEF Share
<1> HIDE DEF k, l, x
<1>8. x < counted /\ l = Least(PartFrames, counted - x)
  BY <1>4, <1>7
<1>9. x + l <= Actual
  <2> DEFINE a == parts[k].first
  <2>1. a \in Nat /\ l \in Nat /\ x <= a /\ a + l <= Actual
    BY <1>4, <1>5, <1>6
  <2> HIDE DEF a
  <2>2. QED
    BY <1>2, <2>1, WTypes
<1>10. Least(u * PartFrames, counted) = x + l
  BY <1>2, <1>8, WTypes DEF Least
<1>11. QED
  BY <1>1, <1>2, <1>8, <1>9, <1>10 DEF k, x

LEMMA TrimmedWhole ==
  ASSUME WInv, Trimmed
  PROVE  WInv'
<1>1. PICK u \in Nat : Usable = 0 .. u - 1 /\ Cardinality(Usable) = u
  BY UsablePrefix
<1>2. /\ pc' = "composing" /\ Stale = {} /\ index' = Least(u * PartFrames, counted)
      /\ UNCHANGED <<counted, keep, until, parts, dst>>
  BY <1>1 DEF Trimmed, opts
<1>3. IInv'
  BY TrimmedInv DEF WInv
<1>4. Placed' /\ Kept' /\ Opened' /\ Cleaned' /\ Held'
  BY <1>2 DEF WInv, Placed, Kept, WholeVideo, Opened, Cleaned, Held
<1>5. counted \in Nat /\ Actual \in Nat \ {0} /\ PartFrames \in Nat \ {0}
  BY WTypes
<1>6. index' <= Actual
  <2>1. CASE u = 0
    <3>1. u * PartFrames = 0
      BY <1>5, <2>1
    <3>2. QED
      BY <1>2, <1>5, <3>1 DEF Least
  <2>2. CASE u # 0
    BY <1>1, <1>2, <2>2, UsableEnd
  <2>3. QED
    BY <2>1, <2>2
<1>7. Reached'
  BY <1>2, <1>6 DEF WInv, Reached
<1>8. ASSUME CountFits, index' < until, NEW k \in Indices, k >= index' \div PartFrames
      PROVE  parts[k] = NoPart
  <2> SUFFICES ASSUME parts[k] # NoPart PROVE FALSE
    OBVIOUS
  <2>1. k \in Usable
    BY <1>2 DEF Stale
  <2>2. k \in Nat /\ k <= u - 1 /\ u # 0
    BY <1>1, <2>1
  <2> DEFINE x == (u - 1) * PartFrames
  <2>3. /\ u - 1 \in Nat /\ x \in Nat /\ u * PartFrames = x + PartFrames
        /\ x < counted
    BY <1>1, <2>2, UsableEnd
  <2>4. CASE counted < u * PartFrames
    <3>1. index' = counted
      BY <1>2, <1>5, <2>3, <2>4 DEF Least
    <3>2. counted % PartFrames = 0
      <4>1. index' < Actual
        BY <1>8, WTypes, <1>5, <2>3, <3>1
      <4>2. QED
        BY <1>5, <1>8, <2>3, <3>1, <4>1 DEF CountFits
    <3>3. (u - 1) * PartFrames < counted /\ counted < (u - 1) * PartFrames + PartFrames
      BY <2>3, <2>4
    <3>4. QED
      BY <1>5, <2>3, <3>2, <3>3, EndsInside
  <2>5. CASE u * PartFrames <= counted
    <3>1. index' = u * PartFrames
      BY <1>2, <1>5, <2>3, <2>5 DEF Least
    <3>2. /\ index' \in Nat /\ index' \div PartFrames \in Nat
          /\ (index' \div PartFrames) * PartFrames <= index'
          /\ index' < (index' \div PartFrames) * PartFrames + PartFrames
      BY <2>3, <3>1, <1>5, Division
    <3>3. u * PartFrames <= index' /\ index' < u * PartFrames + PartFrames
      BY <1>5, <3>1, <3>2
    <3>4. index' \div PartFrames = u
      BY <3>2, <3>3, PlaceOf
    <3>5. QED
      BY <1>8, <2>2, <3>4
  <2>6. QED
    BY <1>5, <2>3, <2>4, <2>5
<1>9. Fresh'
  <2>1. CountFits' = CountFits
    BY <1>2 DEF CountFits
  <2>2. QED
    BY <1>2, <1>8, <2>1 DEF Fresh
<1>10. QED
  BY <1>3, <1>4, <1>7, <1>9 DEF WInv
-----------------------------------------------------------------------------
LEMMA OpenWhole ==
  ASSUME WInv, Open
  PROVE  WInv'
<1> DEFINE k == index \div PartFrames
           new == [first |-> index, len |-> 0, made |-> made]
<1>1. /\ pc = "composing" /\ pc' = "feeding" /\ index < until
      /\ parts' = [parts EXCEPT ![k] = new] /\ count' = 0
      /\ UNCHANGED <<index, counted, keep, until, dst>>
  BY DEF Open, opts
<1>2. IInv'
  BY OpenInv DEF WInv
<1>3. k \in Nat /\ k * PartFrames <= index /\ index < k * PartFrames + PartFrames
      /\ k * PartFrames \in Nat
  BY WTypes, Division, Places
<1>4. k \in Indices
  <2>1. k * PartFrames < Actual
    BY <1>1, <1>3, WTypes
  <2>2. k < PartCount(Actual) /\ PartCount(Actual) \in Nat
    BY <1>3, <2>1, PartCounted
  <2>3. QED
    BY <1>3, <2>2 DEF Indices
<1>5. parts'[k] = new /\ \A i \in Indices : i # k => parts'[i] = parts[i]
  BY <1>1, <1>4, WTypes
<1>6. new.first = index /\ new.len = 0 /\ new \in Part
  BY WTypes, <1>2, <1>1, <1>5, PartsAssumption DEF IInv, TypeOK, Part, WInv
<1>7. InPlace(k, new)
  <2> DEFINE x == k * PartFrames
  <2>1. x \in Nat /\ x <= index /\ index < x + PartFrames
    BY <1>3
  <2> HIDE DEF k, new, x
  <2>2. /\ x <= new.first /\ new.first < x + PartFrames /\ new.first < Actual
        /\ new.first + new.len <= x + PartFrames /\ new.first + new.len <= Actual
    BY <1>1, <1>6, <2>1, WTypes
  <2>3. QED
    BY <2>2 DEF InPlace, x
<1> HIDE DEF new
<1>8. Placed'
  BY <1>5, <1>7 DEF WInv, Placed
<1>9. Current' = k
  BY <1>1, WTypes DEF Current
<1>10. Opened'
  <2>1. new # NoPart
    BY <1>6, NoPartAssumption
  <2>2. index' = index /\ count' = 0 /\ index' - count' = index
    BY <1>1, WTypes
  <2> HIDE DEF k
  <2>3. index' <= k * PartFrames + PartFrames
    BY <1>3, <2>2, WTypes
  <2>4. QED
    BY <1>4, <1>5, <1>6, <1>9, <2>1, <2>2, <2>3 DEF Opened
<1>11. Fresh'
  <2>1. CountFits' = CountFits
    BY <1>1 DEF CountFits
  <2>2. ASSUME keep, CountFits, NEW i \in Indices, i > k
        PROVE  parts'[i] = NoPart
    <3>1. i \in Nat /\ i # k /\ i >= k
      BY <1>3, <2>2, WTypes
    <3>2. parts[i] = NoPart
      BY <1>1, <2>2, <3>1 DEF WInv, Fresh
    <3>3. QED
      BY <1>5, <3>1, <3>2
  <2> HIDE DEF k
  <2>3. QED
    BY <1>1, <1>9, <2>1, <2>2 DEF Fresh
<1>12. Reached' /\ Cleaned' /\ Held' /\ Kept'
  BY <1>1 DEF WInv, Reached, Cleaned, Held, Kept, WholeVideo
<1>13. QED
  BY <1>2, <1>8, <1>10, <1>11, <1>12 DEF WInv

LEMMA FeedWhole ==
  ASSUME WInv, Feed
  PROVE  WInv'
<1>1. /\ pc = "feeding" /\ (count = 0 \/ ~Full)
      /\ index' = index + 1 /\ count' = count + 1
      /\ UNCHANGED <<pc, counted, keep, until, parts, dst>>
  BY DEF Feed, opts
<1>2. IInv'
  BY FeedInv DEF WInv
<1> DEFINE x == Current * PartFrames
<1>3. /\ Current \in Indices /\ parts[Current] # NoPart /\ parts[Current].first = index - count
      /\ parts[Current].len = 0 /\ x \in Nat
  BY <1>1, WTypes DEF WInv, Opened
<1>4. InPlace(Current, parts[Current])
  BY <1>3 DEF WInv, Placed
<1>5. index < Actual /\ index < x + PartFrames
  <2>1. CASE count = 0
    BY <1>3, <1>4, <2>1, WTypes DEF InPlace
  <2>2. CASE ~Full
    <3>1. ~(index >= until) /\ index \div PartFrames = Current
      BY <2>2 DEF Full
    <3>2. index < (index \div PartFrames) * PartFrames + PartFrames
      BY WTypes, Division
    <3>3. index < x + PartFrames
      BY <3>1, <3>2
    <3>4. index < Actual
      BY <3>1, WTypes
    <3>5. QED
      BY <3>3, <3>4
  <2>3. QED
    BY <1>1, <2>1, <2>2
<1>6. Current' = Current
  BY <1>1, WTypes DEF Current
<1>7. Opened'
  <2>1. index' - count' = index - count
    BY <1>1, WTypes
  <2>2. index' <= x + PartFrames
    BY <1>1, <1>3, <1>5, WTypes
  <2>3. QED
    BY <1>1, <1>3, <1>6, <2>1, <2>2 DEF Opened
<1>8. Reached'
  BY <1>1, <1>5, WTypes DEF WInv, Reached
<1>9. Fresh'
  <2>1. CountFits' = CountFits
    BY <1>1 DEF CountFits
  <2>2. QED
    BY <1>1, <1>6, <2>1 DEF WInv, Fresh
<1>10. Placed' /\ Cleaned' /\ Held' /\ Kept'
  BY <1>1 DEF WInv, Placed, Cleaned, Held, Kept, WholeVideo
<1>11. QED
  BY <1>2, <1>7, <1>8, <1>9, <1>10 DEF WInv

LEMMA CloseWhole ==
  ASSUME WInv, Close
  PROVE  WInv'
<1>1. /\ pc = "feeding" /\ pc' = "composing" /\ Full
      /\ parts' = [parts EXCEPT ![Current].len = count]
      /\ UNCHANGED <<index, counted, keep, until, dst>>
  BY DEF Close, opts
<1>2. IInv'
  BY CloseInv DEF WInv
<1>3. Placed'
  <2>1. count \in 0 .. count
    BY WTypes
  <2>2. QED
    BY <1>1, <2>1, Measured DEF Placed
<1>4. Fresh'
  <2>1. CountFits' = CountFits
    BY <1>1 DEF CountFits
  <2>2. ASSUME keep, CountFits, index < until,
               NEW k \in Indices, k >= index \div PartFrames
        PROVE  parts'[k] = NoPart
    <3>1. /\ index \div PartFrames # Current /\ Current <= index \div PartFrames
          /\ Current \in Nat /\ index \div PartFrames \in Nat /\ k \in Nat
      BY <1>1, <2>2, WTypes, Division DEF Full
    <3>2. k > Current
      BY <2>2, <3>1
    <3>3. parts[k] = NoPart
      BY <1>1, <2>2, <3>2 DEF WInv, Fresh
    <3>4. parts'[k] = parts[k]
      BY <1>1, <3>1, <3>2, WTypes
    <3>5. QED
      BY <3>3, <3>4
  <2>3. QED
    BY <1>1, <2>1, <2>2 DEF Fresh
<1>5. Opened' /\ Reached' /\ Cleaned' /\ Held' /\ Kept'
  BY <1>1 DEF WInv, Opened, Reached, Cleaned, Held, Kept, WholeVideo
<1>6. QED
  BY <1>2, <1>3, <1>4, <1>5 DEF WInv

LEMMA ComposedWhole ==
  ASSUME WInv, Composed
  PROVE  WInv'
<1>1. /\ pc' = "joining" /\ UNCHANGED <<index, until, parts, dst>>
  BY DEF Composed, opts, sink
<1>2. IInv'
  BY ComposedInv DEF WInv
<1>3. Reached'
  BY <1>1 DEF WInv, Reached
<1>4. Placed' /\ Opened' /\ Fresh' /\ Cleaned' /\ Held' /\ Kept'
  BY <1>1 DEF WInv, Placed, Opened, Fresh, Cleaned, Held, Kept, WholeVideo
<1>5. QED
  BY <1>2, <1>3, <1>4 DEF WInv

(* No gap, and as many frames as were composited: the file is whole.       *)
LEMMA JoinWhole ==
  ASSUME WInv, Join
  PROVE  WInv'
<1>1. /\ pc = "joining" /\ pc' = "publishing" /\ tmp' = Joined /\ Contiguous
      /\ index = until /\ Counted(Joined) = index /\ UNCHANGED <<index, until, parts, dst>>
  BY DEF Join, opts, sink
<1>2. IInv'
  BY JoinInv DEF WInv
<1> DEFINE n == Cardinality(Present)
<1>3. n \in Nat
  <2>1. IsFiniteSet(Indices) /\ Present \subseteq Indices
    BY PartCounted, FS_Interval DEF Indices, Present
  <2>2. IsFiniteSet(Present)
    BY <2>1, FS_Subset
  <2>3. QED
    BY <2>2, FS_CardinalityType
<1>4. Present = 0 .. n - 1 /\ Joined = [i \in 1 .. n |-> parts[i - 1]]
  BY <1>1 DEF Contiguous, Joined
<1> HIDE DEF n
<1>5. ASSUME NEW i \in 1 .. n
      PROVE  Joined[i] \in Part /\ InPlace(i - 1, Joined[i])
  <2>1. i - 1 \in Present
    BY <1>3, <1>4
  <2>2. i - 1 \in Indices /\ parts[i - 1] # NoPart
    BY <2>1 DEF Present
  <2>3. Joined[i] = parts[i - 1]
    BY <1>4
  <2>4. QED
    BY <2>2, <2>3, PartFacts
<1>6. Joined \in [1 .. n -> Part]
  BY <1>4, <1>5
<1>7. AllDecoded => Counted(Joined) = Actual
  BY <1>1 DEF WInv, Reached
<1>8. AllDecoded => Whole(Joined)
  BY <1>3, <1>5, <1>6, <1>7, WholeFrames
<1>9. Held'
  BY <1>1, <1>8 DEF Held, Whole
<1>10. Placed' /\ Opened' /\ Reached' /\ Fresh' /\ Cleaned' /\ Kept'
  BY <1>1 DEF WInv, Placed, Opened, Reached, Fresh, Cleaned, Kept, WholeVideo
<1>11. QED
  BY <1>2, <1>9, <1>10 DEF WInv

LEMMA PublishWhole ==
  ASSUME WInv, Publish
  PROVE  WInv'
<1>1. /\ pc = "publishing" /\ pc' = "removing" /\ dst' = tmp /\ UNCHANGED <<index, until, parts>>
  BY DEF Publish, opts, sink
<1>2. IInv'
  BY PublishInv DEF WInv
<1>3. Kept'
  BY <1>1 DEF WInv, Held, Whole, Kept, WholeVideo
<1>4. Placed' /\ Opened' /\ Reached' /\ Fresh' /\ Cleaned' /\ Held'
  BY <1>1 DEF WInv, Placed, Opened, Reached, Fresh, Cleaned, Held
<1>5. QED
  BY <1>2, <1>3, <1>4 DEF WInv

LEMMA WStep == WInv /\ [Next]_vars => WInv'
<1> SUFFICES ASSUME WInv, [Next]_vars PROVE WInv'
  OBVIOUS
<1>1. CASE \/ \E s \in Settings, resume \in Resumes : Start(s, resume)
           \/ \E k \in Indices : Clear(k) \/ Trim(k)
           \/ Cleared \/ Truncate \/ Remove
           \/ CloseRefused \/ Fail \/ JoinRefused \/ Removed \/ Kill
  BY <1>1, QuietSteps
<1>2. CASE Note \/ Trimmed \/ Open \/ Feed \/ Close \/ Composed \/ Join \/ Publish
  BY <1>2, NoteWhole, TrimmedWhole, OpenWhole, FeedWhole, CloseWhole, ComposedWhole, JoinWhole,
     PublishWhole
<1>3. CASE UNCHANGED vars
  <2>1. UNCHANGED <<counted, made, keep, until, index, count, manifest, parts, dst, pc, tmp, faults>>
    BY <1>3 DEF vars, opts, sink
  <2>2. IInv'
    BY StepInv DEF WInv
  <2>3. Placed' /\ Opened' /\ Reached' /\ Fresh'
    BY <2>1 DEF WInv, Placed, Opened, Reached, Fresh, Current, CountFits
  <2>4. Cleaned' /\ Held' /\ Kept'
    BY <2>1 DEF WInv, Cleaned, Held, Kept, WholeVideo
  <2>5. QED
    BY <2>2, <2>3, <2>4 DEF WInv
<1>4. QED
  BY <1>1, <1>2, <1>3 DEF Next, RunStep

LEMMA InitWhole == Init => WInv
<1> SUFFICES ASSUME Init PROVE WInv
  OBVIOUS
<1>1. IInv
  BY InitInv
<1>2. /\ pc = "idle" /\ index = 0 /\ until = Actual /\ dst = <<>>
      /\ \A k \in Indices : parts[k] = NoPart
  BY DEF Init
<1>3. Placed /\ Opened /\ Reached /\ Fresh /\ Cleaned /\ Held /\ Kept
  BY <1>2, PartsAssumption DEF Placed, Opened, Reached, Fresh, Cleaned, Held, Kept, WholeVideo
<1>4. QED
  BY <1>1, <1>3 DEF WInv

(* As long as no decoder dies, what is published is the whole video, its   *)
(* parts in order and none of them short, wherever runs were killed before *)
(* and whatever frame count probe gave them (_join_parts).                 *)
THEOREM WholeVideoCorrect == AllDecoded => (Spec => []WholeVideo)
<1> SUFFICES ASSUME AllDecoded PROVE Spec => []WholeVideo
  OBVIOUS
<1>1. WInv => WholeVideo
  BY DEF WInv, Kept
<1>2. QED
  BY <1>1, InitWhole, WStep, PTL DEF Spec

(* A part that is complete when a matching run resumes from it is finished *)
(* for good, until the video is published, when the count of the frames    *)
(* does not end inside a part (_PartSink, _usable_parts).                  *)
THEOREM ResumeKeepsCorrect == Spec => ResumeKeeps
<1>1. WInv /\ [Next]_vars =>
        \A k \in Usable : CountFits /\ keep /\ pc \notin {"idle", "removing"} => parts'[k] = parts[k]
  <2> SUFFICES ASSUME WInv, [Next]_vars, NEW k \in Usable, CountFits, keep,
                      pc \notin {"idle", "removing"}
               PROVE  parts'[k] = parts[k]
    OBVIOUS
  <2>1. k \in Indices /\ k \in Nat /\ parts[k] # NoPart /\ parts[k].len > 0
    <3>1. k \in Indices /\ k \in Nat
      BY WTypes DEF Usable
    <3>2. Complete(k)
      BY <3>1 DEF Usable
    <3>3. QED
      BY <3>1, <3>2 DEF Complete
  <2>2. pc = "feeding" => k # Current
    BY <2>1 DEF WInv, Opened
  <2>3. CASE \E i \in Indices : Clear(i) \/ Trim(i)
    <3>1. PICK i \in Indices : Clear(i) \/ Trim(i)
      BY <2>3
    <3>2. ~Clear(i)
      BY DEF WInv, Cleaned, Clear
    <3>3. i \in Stale /\ parts' = [parts EXCEPT ![i] = NoPart]
      BY <3>1, <3>2 DEF Trim
    <3>4. i # k
      BY <3>3 DEF Stale
    <3>5. QED
      BY <2>1, <3>3, <3>4, WTypes
  <2>4. CASE Open
    <3>1. /\ pc = "composing" /\ index < until
          /\ \E new : parts' = [parts EXCEPT ![index \div PartFrames] = new]
      BY <2>4 DEF Open
    <3>2. ~(k >= index \div PartFrames)
      BY <2>1, <3>1 DEF WInv, Fresh
    <3>3. k # index \div PartFrames
      BY <3>2, <2>1, WTypes, Division
    <3>4. QED
      BY <2>1, <3>1, <3>3, WTypes
  <2>5. CASE Close \/ CloseRefused \/ Fail \/ Kill
    <3>1. \/ pc = "feeding" /\ \E n : parts' = [parts EXCEPT ![Current].len = n]
          \/ pc = "feeding" /\ parts' = [parts EXCEPT ![Current] = NoPart]
          \/ UNCHANGED parts
      BY <2>5 DEF Close, CloseRefused, Fail, Kill
    <3>2. QED
      BY <2>1, <2>2, <3>1, WTypes
  <2>6. CASE UNCHANGED parts
    BY <2>6
  <2>7. (\E s \in Settings, resume \in Resumes : Start(s, resume)) => UNCHANGED parts
    BY DEF Start
  <2>8. Cleared \/ Truncate \/ Note \/ Trimmed \/ Feed \/ Composed \/ Join \/ JoinRefused
          \/ Publish \/ Removed => UNCHANGED parts
    BY DEF Cleared, Truncate, Note, Trimmed, Feed, Composed, Join, JoinRefused, Publish, Removed
  <2>9. UNCHANGED vars => UNCHANGED parts
    BY DEF vars
  <2>10. ~Remove
    BY DEF Remove
  <2>11. QED
    BY <2>3, <2>4, <2>5, <2>6, <2>7, <2>8, <2>9, <2>10 DEF Next, RunStep
<1>2. QED
  BY <1>1, InitWhole, WStep, PTL DEF Spec, ResumeKeeps
=============================================================================

---------------------------- MODULE WorkDirs_proofs ----------------------------
(***************************************************************************)
(* Theorems about WorkDirs, for any number of jobs and any disk: whatever  *)
(* is submitted, ends, expires and is deleted while a sweep works from     *)
(* records it read before, it takes no directory that was just made, and   *)
(* no result that can still be lost while there is room; and with one slot *)
(* a job that was let pass fits.                                           *)
(***************************************************************************)
EXTENDS WorkDirs, FiniteSetTheorems, TLAPS

(* Every job that runs, and each that may once its sweep is over, may end. *)
Counts == ended + Cardinality(Running) + Cardinality(Waiting) <= MaxEnds

(* Where the sweep is, and what it holds there.                            *)
Phases ==
  /\ \A j \in Jobs : cand[j] = Absent \/ Terminal(cand[j])
  /\ \A j \in left : cand[j] # Absent
  /\ spc \in {"off", "reading"} => left = {}
  /\ spc = "dropping" => \A j \in todo : cand[j] # Absent
  /\ noting # NoJob => spc \in {"dropping", "measuring"} /\ Terminal(cand[noting])
  /\ spc \in {"emergency", "measuring"} => low

(* No record is about an end that is still to come.                        *)
Dated == \A j \in Jobs : rec[j].finished <= ended /\ cand[j].finished <= ended

(* The sweep's copy of a record is about the end the file is about, or the *)
(* two have different ends.                                                *)
Agree == \A j \in Jobs :
  Terminal(cand[j]) /\ Terminal(rec[j]) /\ rec[j].finished = cand[j].finished
    => rec[j].delivered = cand[j].delivered /\ (cand[j].expired => rec[j].expired)

(* A directory that was made for it is a running job's that has a record,  *)
(* and a submission that came after the records were read made its young.  *)
Young ==
  /\ \A j \in made : run[j] # "no" /\ Known(j)
  /\ spc = "listing" => \A j \in made : j \notin orphans => j \notin old

IInv == TypeOK /\ Counts /\ Phases /\ Dated /\ Agree /\ Young

(* With one slot: who runs beside another is on the list.                  *)
Together == \A j, k \in Running : j # k => j \in crowded

SlotInv == Together /\ AdmittedFits
-----------------------------------------------------------------------------
(* The disk: what one directory gains or loses, the disk does.             *)

LEMMA ConstantFacts ==
  /\ IsFiniteSet(Jobs)
  /\ Disk \in Nat /\ Floor \in Nat /\ Target \in Nat /\ Need \in Nat
  /\ Slots \in Nat /\ MaxEnds \in Nat
  /\ NoJob \notin Jobs
  /\ Ends \subseteq TerminalStates \X BOOLEAN
BY WorkDirsAssumption DEF Need

LEMMA StateFacts ==
  /\ "live" \notin TerminalStates /\ "absent" \notin TerminalStates
  /\ "canceling" \notin TerminalStates
  /\ "failed" \in TerminalStates /\ "canceled" \in TerminalStates
BY DEF TerminalStates, EmergencyOrder

LEMMA TakenFinite ==
  /\ IsFiniteSet(Taken) /\ Used \in Nat
  /\ IsFiniteSet(Taken') /\ Used' \in Nat
<1>1. IsFiniteSet(Jobs \X (1 .. Need))
  <2>1. IsFiniteSet(1 .. Need)
    BY ConstantFacts, FS_Interval
  <2>2. QED
    BY <2>1, ConstantFacts, FS_Product
<1>2. Taken \subseteq Jobs \X (1 .. Need) /\ Taken' \subseteq Jobs \X (1 .. Need)
  BY DEF Taken
<1>3. QED
  BY <1>1, <1>2, FS_Subset, FS_CardinalityType DEF Used

LEMMA OneJobs ==
  ASSUME NEW j \in Jobs, NEW n \in 0 .. Need
  PROVE  Cardinality({j} \X (1 .. n)) = n
<1>1. IsFiniteSet({j}) /\ Cardinality({j}) = 1
  BY FS_Singleton
<1>2. IsFiniteSet(1 .. n) /\ Cardinality(1 .. n) = n
  <2>1. n \in Nat
    BY ConstantFacts
  <2>2. IsFiniteSet(1 .. n) /\ Cardinality(1 .. n) = IF 1 > n THEN 0 ELSE n - 1 + 1
    BY <2>1, FS_Interval
  <2>3. QED
    BY <2>1, <2>2
<1>3. Cardinality({j} \X (1 .. n)) = 1 * n
  BY <1>1, <1>2, FS_Product
<1>4. QED
  BY <1>3, ConstantFacts

LEMMA OneChanges ==
  ASSUME NEW j \in Jobs,
         heavy \in [Jobs -> 0 .. Need], heavy' \in [Jobs -> 0 .. Need],
         \A k \in Jobs : k # j => heavy'[k] = heavy[k]
  PROVE  Used' + heavy[j] = Used + heavy'[j]
<1> DEFINE Own    == {j} \X (1 .. heavy[j])
           OwnNew == {j} \X (1 .. heavy'[j])
<1>1. heavy[j] \in 0 .. Need /\ heavy'[j] \in 0 .. Need
  OBVIOUS
<1>2. Own \subseteq Taken /\ OwnNew \subseteq Taken'
  BY <1>1, ConstantFacts DEF Taken
<1>3. Taken \ Own = Taken' \ OwnNew
  <2>1. Taken \ Own = {u \in Taken : u[1] # j}
    BY <1>1, ConstantFacts DEF Taken
  <2>2. Taken' \ OwnNew = {u \in Taken' : u[1] # j}
    BY <1>1, ConstantFacts DEF Taken
  <2>3. {u \in Taken : u[1] # j} = {u \in Taken' : u[1] # j}
    BY DEF Taken
  <2>4. QED
    BY <2>1, <2>2, <2>3
<1>4. Cardinality(Own) = heavy[j] /\ Cardinality(OwnNew) = heavy'[j]
  BY <1>1, OneJobs
<1>5. Taken \cap Own = Own /\ Taken' \cap OwnNew = OwnNew
  BY <1>2
<1> HIDE DEF Own, OwnNew
<1>6. Cardinality(Taken \ Own) = Cardinality(Taken) - Cardinality(Taken \cap Own)
  BY TakenFinite, FS_Difference
<1>7. Cardinality(Taken' \ OwnNew)
        = Cardinality(Taken') - Cardinality(Taken' \cap OwnNew)
  BY TakenFinite, FS_Difference
<1>8. Used - heavy[j] = Used' - heavy'[j]
  BY <1>3, <1>4, <1>5, <1>6, <1>7 DEF Used
<1>9. heavy[j] \in Nat /\ heavy'[j] \in Nat /\ Used \in Nat /\ Used' \in Nat
  BY <1>1, TakenFinite, ConstantFacts
<1>10. QED
  BY <1>8, <1>9

LEMMA FreeFacts ==
  ASSUME TypeOK
  PROVE  Free \in Nat /\ Free <= Disk /\ Used + Free = Disk
BY TakenFinite, ConstantFacts DEF TypeOK, Free

LEMMA FreeNext ==
  ASSUME TypeOK'
  PROVE  Free' \in Nat /\ Used' + Free' = Disk
<1>1. PICK u \in Nat : u = Used'
  BY TakenFinite
<1>2. u <= Disk
  BY <1>1 DEF TypeOK
<1>3. Disk - u \in Nat /\ u + (Disk - u) = Disk
  BY <1>2, ConstantFacts
<1>4. Free' = Disk - u
  BY <1>1 DEF Free
<1>5. QED
  BY <1>1, <1>3, <1>4

LEMMA FreeChanges ==
  ASSUME TypeOK, TypeOK', NEW j \in Jobs,
         \A k \in Jobs : k # j => heavy'[k] = heavy[k]
  PROVE  Free' + heavy'[j] = Free + heavy[j]
<1>1. PICK u \in Nat, f \in Nat, g \in Nat : u = Used' /\ f = Free' /\ g = heavy'[j]
  BY TakenFinite, FreeNext, ConstantFacts DEF TypeOK
<1>2. u + f = Disk
  BY <1>1, FreeNext
<1>3. u + heavy[j] = Used + g
  BY <1>1, OneChanges DEF TypeOK
<1>4. heavy[j] \in Nat /\ Used \in Nat /\ Free \in Nat /\ Used + Free = Disk
  BY TakenFinite, FreeFacts, ConstantFacts DEF TypeOK
<1>5. f + g = Free + heavy[j]
  BY <1>2, <1>3, <1>4
<1>6. QED
  BY <1>1, <1>5

(* What reclaim takes is free again.                                       *)
LEMMA EmptiedFacts ==
  ASSUME TypeOK, NEW j \in Jobs, heavy' = Emptied(j)
  PROVE  /\ heavy' \in [Jobs -> 0 .. Need]
         /\ heavy'[j] \in {0, heavy[j]} /\ heavy'[j] <= heavy[j]
         /\ j \notin Stuck => heavy'[j] = 0
         /\ \A k \in Jobs : k # j => heavy'[k] = heavy[k]
         /\ Used' + heavy[j] = Used + heavy'[j]
         /\ Used' <= Used /\ Used' <= Disk
<1>1. /\ heavy' \in [Jobs -> 0 .. Need]
      /\ heavy'[j] \in {0, heavy[j]}
      /\ j \notin Stuck => heavy'[j] = 0
      /\ \A k \in Jobs : k # j => heavy'[k] = heavy[k]
  BY ConstantFacts DEF TypeOK, Emptied
<1>2. heavy[j] \in Nat /\ heavy'[j] <= heavy[j]
  BY <1>1, ConstantFacts DEF TypeOK
<1>3. Used' + heavy[j] = Used + heavy'[j]
  BY <1>1, OneChanges DEF TypeOK
<1>4. Used' <= Used
  BY <1>1, <1>2, <1>3, TakenFinite
<1>5. QED
  BY <1>1, <1>2, <1>3, <1>4, TakenFinite, ConstantFacts DEF TypeOK

LEMMA SameUse ==
  ASSUME UNCHANGED heavy
  PROVE  Used' = Used /\ Free' = Free
BY DEF Used, Free, Taken

(* A record is live, final or not there.                                   *)
LEMMA RecordFacts ==
  /\ Absent \in Record /\ Live \in Record
  /\ ~Terminal(Absent) /\ ~Terminal(Live)
  /\ Absent.finished = 0 /\ Live.finished = 0
  /\ Live.state = "live" /\ Absent.state = "absent"
  /\ Canceling \in Record /\ ~Terminal(Canceling)
  /\ Canceling.finished = 0 /\ Canceling.state = "canceling"
<1>1. Absent \in Record /\ Absent.state = "absent" /\ Absent.finished = 0
  BY ConstantFacts DEF Absent, Record
<1>2. Live \in Record /\ Live.state = "live" /\ Live.finished = 0
  BY <1>1 DEF Live, Record
<1>3. Canceling \in Record /\ Canceling.state = "canceling" /\ Canceling.finished = 0
  BY <1>1 DEF Canceling, Record
<1>4. QED
  BY <1>1, <1>2, <1>3, StateFacts DEF Terminal

-----------------------------------------------------------------------------
(* The jobs that run.                                                      *)
LEMMA RunningFacts == IsFiniteSet(Running) /\ Cardinality(Running) \in Nat
BY ConstantFacts, FS_Subset, FS_CardinalityType DEF Running

LEMMA Begun ==
  ASSUME TypeOK, NEW j \in Jobs, run' = [run EXCEPT ![j] = "new"]
  PROVE  Cardinality(Running') \in Nat /\ Cardinality(Running') <= Cardinality(Running) + 1
<1>1. Running' = Running \cup {j}
  BY DEF TypeOK, Running
<1>2. QED
  BY <1>1, RunningFacts, FS_AddElement

LEMMA Over ==
  ASSUME TypeOK, NEW j \in Jobs, run[j] # "no", run' = [run EXCEPT ![j] = "no"]
  PROVE  Cardinality(Running') \in Nat /\ Cardinality(Running') + 1 = Cardinality(Running)
<1>1. Running' = Running \ {j} /\ j \in Running
  BY DEF TypeOK, Running
<1>2. Cardinality(Running') = Cardinality(Running) - 1 /\ IsFiniteSet(Running')
  BY <1>1, RunningFacts, FS_RemoveElement
<1>3. QED
  BY <1>2, RunningFacts, FS_CardinalityType

LEMMA WaitingFacts ==
  /\ IsFiniteSet(Waiting) /\ Cardinality(Waiting) \in Nat
  /\ IsFiniteSet(Waiting') /\ Cardinality(Waiting') \in Nat
BY ConstantFacts, FS_Subset, FS_CardinalityType DEF Waiting

LEMMA SameCounts ==
  ASSUME Counts, UNCHANGED <<run, ended, wait>>
  PROVE  Counts'
BY DEF Counts, Running, Waiting

LEMMA SameRuns ==
  ASSUME TypeOK, run' \in [Jobs -> {"no", "new", "measured", "unmeasured"}],
         \A j \in Jobs : run'[j] = "no" <=> run[j] = "no"
  PROVE  Running' = Running
BY DEF TypeOK, Running

LEMMA CreateInv ==
  ASSUME IInv, NEW j \in Jobs, Create(j), UNCHANGED sweep,
         wait' \in [Jobs -> {"no", "queued", "sweeping", "swept"}],
         ended + Cardinality(Running) + Cardinality(Waiting') < MaxEnds
  PROVE  IInv'
<1>1. TypeOK'
  <2>1. crowded' \subseteq Jobs
    BY DEF IInv, TypeOK, Create, Running
  <2>2. QED
    BY <2>1, SameUse, RecordFacts DEF IInv, TypeOK, Create, sweep
<1>2. Counts'
  <2>1. /\ Cardinality(Running') \in Nat
        /\ Cardinality(Running') <= Cardinality(Running) + 1
    BY Begun DEF IInv, Create
  <2>2. ended \in Nat /\ ended' = ended
    BY ConstantFacts DEF IInv, TypeOK, Create
  <2>3. QED
    BY <2>1, <2>2, RunningFacts, WaitingFacts, ConstantFacts DEF Counts
<1>3. \A k \in Jobs : rec'[k] = IF k = j THEN Live ELSE rec[k]
  BY DEF Create, IInv, TypeOK
<1>4. Dated' /\ Agree'
  BY <1>3, RecordFacts DEF IInv, TypeOK, Dated, Agree, Create, sweep, Terminal
<1>5. Young'
  <2>1. \A k \in Jobs : run'[k] = IF k = j THEN "new" ELSE run[k]
    BY DEF Create, IInv, TypeOK
  <2>2. QED
    BY <1>3, <2>1, RecordFacts DEF IInv, TypeOK, Young, Known, Create, sweep
<1>6. Phases'
  BY DEF IInv, Phases, sweep, Terminal
<1>7. QED
  BY <1>1, <1>2, <1>4, <1>5, <1>6 DEF IInv

LEMMA ConcludeInv ==
  ASSUME IInv, NEW j \in Jobs, NEW state \in TerminalStates, NEW d \in BOOLEAN,
         run[j] # "no", Conclude(j, state, d), UNCHANGED <<wait, sweep>>
  PROVE  IInv'
<1> DEFINE new == [state |-> state, delivered |-> d, finished |-> ended + 1,
                   expired |-> FALSE]
<1>1. /\ rec' = [rec EXCEPT ![j] = new]
      /\ ended' = ended + 1
      /\ run' = [run EXCEPT ![j] = "no"]
      /\ made' = made \ {j}
      /\ asked' \subseteq asked /\ crowded' \subseteq crowded
      /\ UNCHANGED <<heavy, dirs, old, wait, sweep>>
  BY DEF Conclude
<1>2. Counts' /\ ended' \in 0 .. MaxEnds
  <2>1. Cardinality(Running') \in Nat /\ Cardinality(Running') + 1 = Cardinality(Running)
    BY <1>1, Over DEF IInv
  <2>2. ended \in Nat
    BY ConstantFacts DEF IInv, TypeOK
  <2>3. Waiting' = Waiting
    BY <1>1 DEF Waiting
  <2>4. QED
    BY <1>1, <2>1, <2>2, <2>3, WaitingFacts, ConstantFacts DEF IInv, Counts
<1>3. new \in Record /\ Terminal(new) /\ new.finished = ended + 1 /\ new # Live
  BY <1>1, <1>2, RecordFacts DEF Record, Terminal
<1>4. \A k \in Jobs : rec'[k] = IF k = j THEN new ELSE rec[k]
  BY <1>1 DEF IInv, TypeOK
<1> HIDE DEF new
<1>5. TypeOK'
  BY <1>1, <1>2, <1>3, SameUse DEF IInv, TypeOK, sweep
<1>6. Dated'
  BY <1>1, <1>3, <1>4, ConstantFacts DEF IInv, TypeOK, Record, Dated, sweep
<1>7. Agree'
  <2>1. \A k \in Jobs : cand[k].finished # ended + 1
    BY ConstantFacts DEF IInv, TypeOK, Record, Dated
  <2>2. QED
    BY <1>1, <1>3, <1>4, <2>1 DEF IInv, Agree, sweep, Terminal
<1>8. Young'
  BY <1>1, <1>4 DEF IInv, TypeOK, Young, Known, sweep
<1>9. Phases'
  BY <1>1 DEF IInv, Phases, sweep, Terminal
<1>10. QED
  BY <1>2, <1>5, <1>6, <1>7, <1>8, <1>9 DEF IInv

LEMMA PostInv ==
  ASSUME IInv, NEW j \in Jobs, Post(j) \/ PostLow(j)
  PROVE  IInv'
<1>1. Room /\ wait[j] = "no" /\ j \notin Waiting
  BY DEF Post, PostLow, Acceptable, Waiting
<1>2. CASE Post(j)
  <2>1. Create(j) /\ UNCHANGED <<wait, sweep>> /\ Waiting' = Waiting
    BY <1>2 DEF Post, Waiting
  <2>2. QED
    BY <1>1, <2>1, CreateInv DEF Room, IInv, TypeOK
<1>3. CASE PostLow(j)
  <2>1. wait' = [wait EXCEPT ![j] = "queued"] /\ UNCHANGED <<job, sweep>>
    BY <1>3 DEF PostLow
  <2>2. TypeOK'
    BY <2>1, SameUse DEF IInv, TypeOK, job, files, sweep
  <2>3. Counts'
    <3>1. Running' = Running /\ ended' = ended
      BY <2>1 DEF Running, job
    <3>2. Waiting' = Waiting \cup {j}
      BY <2>1 DEF IInv, TypeOK, Waiting
    <3>3. Cardinality(Waiting') = Cardinality(Waiting) + 1
      BY <1>1, <3>2, WaitingFacts, FS_AddElement
    <3>4. ended \in Nat /\ ended + Cardinality(Running) + Cardinality(Waiting) < MaxEnds
      BY <1>1, ConstantFacts DEF Room, IInv, TypeOK
    <3>5. QED
      BY <3>1, <3>3, <3>4, RunningFacts, WaitingFacts, ConstantFacts DEF Counts
  <2>4. Phases' /\ Dated' /\ Agree' /\ Young'
    BY <2>1 DEF IInv, Phases, Dated, Agree, Young, Known, job, files, sweep, Terminal
  <2>5. QED
    BY <2>2, <2>3, <2>4 DEF IInv
<1>4. QED
  BY <1>2, <1>3

(* Nothing is posted in the end if the sweep did not help.                 *)
LEMMA PostAgainInv ==
  ASSUME IInv, NEW j \in Jobs, PostAgain(j)
  PROVE  IInv'
<1>1. wait[j] = "swept" /\ wait' = [wait EXCEPT ![j] = "no"] /\ UNCHANGED sweep
  BY DEF PostAgain
<1>2. Cardinality(Waiting') + 1 = Cardinality(Waiting)
  <2>1. j \in Waiting /\ Waiting' = Waiting \ {j}
    BY <1>1 DEF IInv, TypeOK, Waiting
  <2>2. QED
    BY <2>1, WaitingFacts, FS_RemoveElement
<1>3. ended + Cardinality(Running) + Cardinality(Waiting') < MaxEnds
  <2>1. ended \in Nat
    BY ConstantFacts DEF IInv, TypeOK
  <2>2. QED
    BY <1>2, <2>1, RunningFacts, WaitingFacts, ConstantFacts DEF IInv, Counts
<1>4. wait' \in [Jobs -> {"no", "queued", "sweeping", "swept"}]
  BY <1>1 DEF IInv, TypeOK
<1>5. CASE Create(j)
  BY <1>1, <1>3, <1>4, <1>5, CreateInv
<1>6. CASE UNCHANGED job
  <2>1. TypeOK'
    BY <1>1, <1>4, <1>6, SameUse DEF IInv, TypeOK, job, files, sweep
  <2>2. Counts'
    <3>1. Running' = Running /\ ended' = ended
      BY <1>6 DEF Running, job
    <3>2. ended \in Nat
      BY ConstantFacts DEF IInv, TypeOK
    <3>3. QED
      BY <1>3, <3>1, <3>2, RunningFacts, WaitingFacts, ConstantFacts DEF Counts
  <2>3. Phases' /\ Dated' /\ Agree' /\ Young'
    BY <1>1, <1>6 DEF IInv, Phases, Dated, Agree, Young, Known, job, files, sweep, Terminal
  <2>4. QED
    BY <2>1, <2>2, <2>3 DEF IInv
<1>7. QED
  BY <1>5, <1>6 DEF PostAgain

(* Saving a running job's record, as it is or as one that is canceled.     *)
LEMMA SavedInv ==
  ASSUME IInv, NEW j \in Jobs, NEW new \in {Live, Canceling},
         rec' = [rec EXCEPT ![j] = new], UNCHANGED <<files, ended, wait, sweep>>,
         run' \in [Jobs -> {"no", "new", "measured", "unmeasured"}],
         \A k \in Jobs : run'[k] = "no" <=> run[k] = "no",
         asked' \subseteq Jobs, crowded' \subseteq Jobs
  PROVE  IInv'
<1>1. /\ new \in Record /\ ~Terminal(new) /\ new.finished = 0
      /\ new.state # "absent"
  BY RecordFacts
<1>2. \A k \in Jobs : rec'[k] = IF k = j THEN new ELSE rec[k]
  BY DEF IInv, TypeOK
<1>3. Running' = Running
  BY SameRuns DEF IInv
<1>4. TypeOK'
  BY <1>1, SameUse DEF IInv, TypeOK, files, sweep
<1>5. Counts'
  BY <1>3 DEF IInv, Counts, Waiting
<1>6. Dated'
  BY <1>1, <1>2, ConstantFacts DEF IInv, TypeOK, Dated, sweep
<1>7. Agree'
  BY <1>1, <1>2 DEF IInv, Agree, sweep, Terminal
<1>8. Young'
  BY <1>1, <1>2 DEF IInv, TypeOK, Young, Known, files, sweep
<1>9. QED
  BY <1>4, <1>5, <1>6, <1>7, <1>8 DEF IInv, Phases, sweep, Terminal

LEMMA CancelInv ==
  ASSUME IInv, NEW j \in Jobs, Cancel(j) \/ MovesOn(j)
  PROVE  IInv'
<1>1. /\ rec' = [rec EXCEPT ![j] = Canceling] \/ rec' = [rec EXCEPT ![j] = Live]
      /\ asked' \subseteq Jobs
      /\ UNCHANGED <<files, run, ended, crowded, wait, sweep>>
  BY DEF Cancel, MovesOn, Saved, IInv, TypeOK
<1>2. QED
  BY <1>1, SavedInv DEF IInv, TypeOK

LEMMA ToldFacts ==
  ASSUME NEW j, NEW state \in TerminalStates, NEW explained
  PROVE  Told(j, state, explained) \in TerminalStates
BY StateFacts DEF Told

LEMMA StageInv ==
  ASSUME IInv, NEW j \in Jobs, Stage(j)
  PROVE  IInv'
<1>1. run[j] = "new" /\ UNCHANGED <<wait, sweep>>
  BY DEF Stage
<1>2. CASE Conclude(j, Told(j, "failed", TRUE), FALSE)
  BY <1>1, <1>2, StateFacts, ToldFacts, ConcludeInv
<1>3. CASE /\ \/ run' = [run EXCEPT ![j] = "measured"]
              \/ run' = [run EXCEPT ![j] = "unmeasured"]
           /\ rec' = [rec EXCEPT ![j] = Live]
           /\ UNCHANGED <<files, asked, ended, crowded>>
  BY <1>1, <1>3, SavedInv DEF IInv, TypeOK
<1>4. QED
  BY <1>2, <1>3 DEF Stage, Saved

LEMMA EndInv ==
  ASSUME IInv, NEW j \in Jobs, End(j)
  PROVE  IInv'
<1>1. PICK e \in Ends : Conclude(j, Told(j, e[1], e[1] = "interrupted"), e[2])
  BY DEF End
<1>2. e[1] \in TerminalStates /\ e[2] \in BOOLEAN
      /\ Told(j, e[1], e[1] = "interrupted") \in TerminalStates
  BY ConstantFacts, ToldFacts
<1>3. run[j] # "no" /\ UNCHANGED <<wait, sweep>>
  BY DEF End, Staged
<1>4. QED
  BY <1>1, <1>2, <1>3, ConcludeInv

(* A job writes where there is room, into a directory that is there.       *)
LEMMA WriteFacts ==
  ASSUME TypeOK, NEW j \in Jobs, Write(j)
  PROVE  /\ heavy' \in [Jobs -> 0 .. Need]
         /\ heavy'[j] = heavy[j] + 1
         /\ \A k \in Jobs : k # j => heavy'[k] = heavy[k]
         /\ Used' = Used + 1 /\ Used' <= Disk
<1>1. j \in dirs /\ heavy[j] < Need /\ Free > 0 /\ heavy' = [heavy EXCEPT ![j] = @ + 1]
  BY DEF Write
<1>2. heavy[j] \in Nat /\ heavy[j] + 1 \in 0 .. Need
  BY <1>1, ConstantFacts DEF TypeOK
<1>3. /\ heavy' \in [Jobs -> 0 .. Need]
      /\ heavy'[j] = heavy[j] + 1
      /\ \A k \in Jobs : k # j => heavy'[k] = heavy[k]
  BY <1>1, <1>2 DEF TypeOK
<1>4. Used' + heavy[j] = Used + heavy'[j]
  BY <1>3, OneChanges DEF TypeOK
<1>5. Used' = Used + 1
  BY <1>2, <1>3, <1>4, TakenFinite
<1>6. Used' <= Disk
  BY <1>1, <1>5, FreeFacts, TakenFinite, ConstantFacts
<1>7. QED
  BY <1>3, <1>5, <1>6

LEMMA WriteInv ==
  ASSUME IInv, NEW j \in Jobs, Write(j)
  PROVE  IInv'
<1>1. /\ j \in dirs /\ old' = old \ {j}
      /\ UNCHANGED <<rec, dirs, made, run, asked, ended, crowded, wait, sweep>>
  BY DEF Write
<1>2. TypeOK'
  BY <1>1, WriteFacts DEF IInv, TypeOK, sweep
<1>3. Counts'
  BY <1>1, SameCounts DEF IInv
<1>4. QED
  BY <1>1, <1>2, <1>3 DEF IInv, Phases, Dated, Agree, Young, Known, sweep, Terminal

LEMMA AfterDeliveryInv ==
  ASSUME IInv, NEW j \in Jobs, AfterDelivery(j)
  PROVE  IInv'
<1>1. /\ heavy' = Emptied(j)
      /\ UNCHANGED <<rec, dirs, old, made, run, asked, ended, crowded, wait, sweep>>
  BY DEF AfterDelivery, files
<1>2. TypeOK'
  <2>1. \A k \in Jobs \ dirs : heavy'[k] = 0
    BY <1>1, EmptiedFacts DEF IInv, TypeOK
  <2>2. QED
    BY <1>1, <2>1, EmptiedFacts DEF IInv, TypeOK, sweep
<1>3. Counts'
  BY <1>1, SameCounts DEF IInv
<1>4. QED
  BY <1>1, <1>2, <1>3 DEF IInv, Phases, Dated, Agree, Young, Known, sweep, Terminal

LEMMA DeleteInv ==
  ASSUME IInv, NEW j \in Jobs, Delete(j)
  PROVE  IInv'
<1>1. /\ rec' = [rec EXCEPT ![j] = Absent]
      /\ made' = made \ {j}
      /\ UNCHANGED <<run, asked, ended, crowded, wait, sweep>>
  BY DEF Delete
<1>2. /\ dirs' \subseteq Jobs /\ old' \subseteq dirs' /\ made' \subseteq dirs'
      /\ old' \subseteq old /\ made' \subseteq made
      /\ heavy' \in [Jobs -> 0 .. Need]
      /\ \A k \in Jobs \ dirs' : heavy'[k] = 0
      /\ Used' <= Disk
  <2>1. CASE UNCHANGED <<heavy, dirs, old>>
    BY <1>1, <2>1, SameUse DEF IInv, TypeOK
  <2>2. CASE /\ j \notin Stuck
             /\ heavy' = [heavy EXCEPT ![j] = 0]
             /\ dirs' = dirs \ {j} /\ old' = old \ {j}
    <3>1. heavy' = Emptied(j)
      BY <2>2 DEF Emptied
    <3>2. QED
      BY <1>1, <2>2, <3>1, EmptiedFacts DEF IInv, TypeOK
  <2>3. QED
    BY <2>1, <2>2 DEF Delete
<1>3. \A k \in Jobs : rec'[k] = IF k = j THEN Absent ELSE rec[k]
  BY <1>1 DEF IInv, TypeOK
<1>4. TypeOK'
  BY <1>1, <1>2, RecordFacts DEF IInv, TypeOK, sweep
<1>5. Counts'
  BY <1>1, SameCounts DEF IInv
<1>6. Dated'
  BY <1>1, <1>3, RecordFacts, ConstantFacts DEF IInv, TypeOK, Dated, sweep
<1>7. Agree' /\ Phases'
  BY <1>1, <1>3, RecordFacts DEF IInv, Agree, Phases, sweep, Terminal
<1>8. Young'
  BY <1>1, <1>2, <1>3, RecordFacts DEF IInv, TypeOK, Young, Known, sweep
<1>9. QED
  BY <1>4, <1>5, <1>6, <1>7, <1>8 DEF IInv

LEMMA WipeInv ==
  ASSUME IInv, Wipe
  PROVE  IInv'
<1>1. /\ rec' = [j \in Jobs |-> Absent] /\ spc = "off"
      /\ Running = {}
      /\ UNCHANGED <<heavy, dirs, old, made, run, asked, ended, crowded, wait, sweep>>
  BY DEF Wipe, files
<1>2. TypeOK'
  BY <1>1, SameUse, RecordFacts DEF IInv, TypeOK, sweep
<1>3. Counts'
  BY <1>1, SameCounts DEF IInv
<1>4. Dated' /\ Agree'
  BY <1>1, RecordFacts, ConstantFacts DEF IInv, TypeOK, Dated, Agree, sweep, Terminal
<1>5. made = {}
  BY <1>1 DEF IInv, TypeOK, Young, Running
<1>6. QED
  BY <1>1, <1>2, <1>3, <1>4, <1>5 DEF IInv, Phases, Young, sweep, Terminal

LEMMA AgeInv ==
  ASSUME IInv, NEW j \in Jobs, DirAges(j) \/ Expires(j)
  PROVE  IInv'
<1>1. UNCHANGED <<heavy, dirs, made, run, asked, ended, crowded, wait, sweep>>
  BY DEF DirAges, Expires, files
<1>2. Counts'
  BY <1>1, SameCounts DEF IInv
<1>3. CASE DirAges(j)
  <2>1. j \in dirs /\ spc = "off" /\ old' = old \cup {j} /\ rec' = rec
    BY <1>3 DEF DirAges
  <2>2. TypeOK'
    BY <1>1, <2>1, SameUse DEF IInv, TypeOK, sweep
  <2>3. QED
    BY <1>1, <1>2, <2>1, <2>2 DEF IInv, Phases, Dated, Agree, Young, Known, sweep, Terminal
<1>4. CASE Expires(j)
  <2>1. /\ Terminal(rec[j]) /\ rec' = [rec EXCEPT ![j].expired = TRUE]
        /\ old' = old
    BY <1>4 DEF Expires, files
  <2>2. rec'[j] \in Record /\ rec' \in [Jobs -> Record]
    <3>1. rec \in [Jobs -> Record] /\ rec[j] \in Record
      BY DEF IInv, TypeOK
    <3>2. [rec[j] EXCEPT !.expired = TRUE] \in Record
      BY <3>1 DEF Record
    <3>3. QED
      BY <2>1, <3>1, <3>2
  <2>3. /\ rec'[j].state = rec[j].state /\ rec'[j].delivered = rec[j].delivered
        /\ rec'[j].finished = rec[j].finished /\ rec'[j].expired = TRUE
        /\ \A k \in Jobs : k # j => rec'[k] = rec[k]
    BY <2>1 DEF IInv, TypeOK, Record
  <2>4. TypeOK'
    BY <1>1, <2>1, <2>2, SameUse DEF IInv, TypeOK, sweep
  <2>5. Dated'
    BY <1>1, <2>3 DEF IInv, Dated, sweep
  <2>6. Agree' /\ Phases'
    BY <1>1, <2>1, <2>3 DEF IInv, Agree, Phases, sweep, Terminal
  <2>7. Young'
    BY <1>1, <2>1, <2>3, RecordFacts DEF IInv, TypeOK, Young, Known, sweep, Terminal
  <2>8. QED
    BY <1>2, <2>4, <2>5, <2>6, <2>7 DEF IInv
<1>5. QED
  BY <1>3, <1>4
-----------------------------------------------------------------------------
(* The steps of the sweep that change no file.                             *)
LEMMA PassInv ==
  ASSUME IInv, TypeOK', UNCHANGED <<rec, made, run, ended>>, Waiting' = Waiting,
         cand' = cand, Phases', Young'
  PROVE  IInv'
<1>1. Counts'
  BY DEF IInv, Counts, Running
<1>2. QED
  BY <1>1 DEF IInv, Dated, Agree, Terminal

LEMMA SweepStartsInv ==
  ASSUME IInv, SweepStarts
  PROVE  IInv'
<1>1. /\ spc = "off" /\ spc' = "reading" /\ todo' = Jobs
      /\ UNCHANGED <<job, cand, left, noting, orphans, low>>
  BY DEF SweepStarts
<1>2. wait' \in [Jobs -> {"no", "queued", "sweeping", "swept"}] /\ Waiting' = Waiting
  <2>1. CASE UNCHANGED wait
    BY <2>1 DEF IInv, TypeOK, Waiting
  <2>2. CASE \E j \in Jobs : wait[j] = "queued" /\ wait' = [wait EXCEPT ![j] = "sweeping"]
    BY <2>2 DEF IInv, TypeOK, Waiting
  <2>3. QED
    BY <2>1, <2>2 DEF SweepStarts
<1>3. TypeOK' /\ Phases' /\ Young'
  BY <1>1, <1>2, SameUse DEF IInv, TypeOK, Phases, Young, Known, job, files, Terminal
<1>4. QED
  BY <1>1, <1>2, <1>3, PassInv DEF job, files, Waiting

(* Reading a record: the copy agrees with the file.                        *)
LEMMA ConsiderInv ==
  ASSUME IInv, NEW j \in Jobs, Consider(j)
  PROVE  IInv'
<1>1. /\ spc = "reading" /\ todo' = todo \ {j}
      /\ cand' = [cand EXCEPT ![j] = IF Candidate(j) THEN rec[j] ELSE Absent]
      /\ UNCHANGED <<job, wait, spc, left, noting, orphans, low>>
  BY DEF Consider
<1>2. /\ cand' \in [Jobs -> Record]
      /\ \A k \in Jobs : k # j => cand'[k] = cand[k]
      /\ cand'[j] = Absent \/ (Terminal(rec[j]) /\ cand'[j] = rec[j])
  <2> DEFINE read == IF Candidate(j) THEN rec[j] ELSE Absent
  <2>1. read \in Record /\ (read = Absent \/ (Terminal(rec[j]) /\ read = rec[j]))
    <3>1. rec[j] \in Record /\ Absent \in Record
      BY RecordFacts DEF IInv, TypeOK
    <3>2. CASE Candidate(j)
      <4>1. Terminal(rec[j])
        BY <3>2 DEF Candidate
      <4>2. QED
        BY <3>1, <3>2, <4>1
    <3>3. CASE ~Candidate(j)
      BY <3>1, <3>3
    <3>4. QED
      BY <3>2, <3>3
  <2> HIDE DEF read
  <2>2. cand' = [cand EXCEPT ![j] = read] /\ cand \in [Jobs -> Record]
    BY <1>1 DEF read, IInv, TypeOK
  <2>3. QED
    BY <2>1, <2>2
<1>3. TypeOK'
  BY <1>1, <1>2, SameUse DEF IInv, TypeOK, job, files
<1>4. Counts'
  BY <1>1, SameCounts DEF IInv, job, files
<1>5. Phases'
  BY <1>1, <1>2 DEF IInv, Phases, Terminal
<1>6. Dated'
  BY <1>1, <1>2, RecordFacts, ConstantFacts DEF IInv, TypeOK, Dated, job, files
<1>7. Agree' /\ Young'
  BY <1>1, <1>2, RecordFacts DEF IInv, Agree, Young, Known, job, files, Terminal
<1>8. QED
  BY <1>3, <1>4, <1>5, <1>6, <1>7 DEF IInv

LEMMA ConsideredInv ==
  ASSUME IInv, Considered
  PROVE  IInv'
<1>1. /\ spc = "reading" /\ spc' = "dropping"
      /\ todo' = {j \in Jobs : cand[j] # Absent}
      /\ UNCHANGED <<job, wait, cand, left, noting, orphans, low>>
  BY DEF Considered
<1>2. TypeOK' /\ Phases' /\ Young'
  BY <1>1, SameUse DEF IInv, TypeOK, Phases, Young, Known, job, files, Terminal
<1>3. QED
  BY <1>1, <1>2, PassInv DEF job, files, Waiting

LEMMA KeepInv ==
  ASSUME IInv, NEW j \in Jobs, Keep(j)
  PROVE  IInv'
<1>1. /\ spc = "dropping" /\ noting = NoJob /\ j \in todo
      /\ todo' = todo \ {j} /\ left' = left \cup {j}
      /\ UNCHANGED <<job, wait, spc, cand, noting, orphans, low>>
  BY DEF Keep
<1>2. TypeOK' /\ Phases' /\ Young'
  BY <1>1, SameUse DEF IInv, TypeOK, Phases, Young, Known, job, files, Terminal
<1>3. QED
  BY <1>1, <1>2, PassInv DEF job, files, Waiting

(* Removing the files of a candidate, in either pass.                      *)
LEMMA DropFacts ==
  ASSUME IInv, NEW j \in Jobs, Drop(j)
  PROVE  /\ heavy' \in [Jobs -> 0 .. Need] /\ Used' <= Disk
         /\ \A k \in Jobs \ dirs : heavy'[k] = 0
         /\ noting' \in {j, NoJob}
         /\ UNCHANGED <<rec, dirs, old, made, run, asked, ended, crowded>>
BY EmptiedFacts DEF Drop, IInv, TypeOK

LEMMA DropDueInv ==
  ASSUME IInv, NEW j \in Jobs, DropDue(j)
  PROVE  IInv'
<1>1. /\ spc = "dropping" /\ j \in todo /\ todo' = todo \ {j} /\ Drop(j)
      /\ left' = IF noting' = j THEN left ELSE left \cup {j}
      /\ UNCHANGED <<wait, spc, cand, orphans, low>>
  BY DEF DropDue
<1>2. cand[j] # Absent /\ Terminal(cand[j])
  BY <1>1 DEF IInv, Phases
<1>3. TypeOK'
  BY <1>1, DropFacts DEF IInv, TypeOK
<1>4. Phases'
  BY <1>1, <1>2, DropFacts DEF IInv, Phases, Terminal
<1>5. Young'
  BY <1>1, DropFacts DEF IInv, Young, Known
<1>6. QED
  BY <1>1, <1>3, <1>4, <1>5, DropFacts, PassInv DEF files, Waiting

LEMMA DropForSpaceInv ==
  ASSUME IInv, NEW j \in Jobs, DropForSpace(j)
  PROVE  IInv'
<1>1. /\ spc = "emergency" /\ j \in left /\ left' = left \ {j} /\ Drop(j)
      /\ spc' = "measuring"
      /\ UNCHANGED <<wait, todo, cand, orphans, low>>
  BY DEF DropForSpace
<1>2. cand[j] # Absent /\ Terminal(cand[j])
  BY <1>1 DEF IInv, Phases
<1>3. TypeOK'
  BY <1>1, DropFacts DEF IInv, TypeOK
<1>4. Phases'
  BY <1>1, <1>2, DropFacts DEF IInv, Phases, Terminal
<1>5. Young'
  BY <1>1, DropFacts DEF IInv, Young, Known
<1>6. QED
  BY <1>1, <1>3, <1>4, <1>5, DropFacts, PassInv DEF files, Waiting

(* The save makes the file the copy.                                       *)
LEMMA NoteInv ==
  ASSUME IInv, Note
  PROVE  IInv'
<1>1. /\ noting \in Jobs
      /\ rec' = [rec EXCEPT ![noting] = cand[noting]]
      /\ noting' = NoJob
      /\ UNCHANGED <<heavy, dirs, old, made, run, asked, ended, crowded, wait, spc, todo, cand,
                     left, orphans, low>>
  BY DEF Note, files, IInv, TypeOK
<1>2. spc \in {"dropping", "measuring"}
  BY <1>1, ConstantFacts DEF IInv, Phases
<1>3. \A k \in Jobs : rec'[k] = IF k = noting THEN cand[k] ELSE rec[k]
  BY <1>1 DEF IInv, TypeOK
<1>4. TypeOK'
  BY <1>1, SameUse DEF IInv, TypeOK
<1>5. Counts'
  BY <1>1, SameCounts DEF IInv
<1>6. Dated' /\ Agree'
  BY <1>1, <1>3 DEF IInv, Dated, Agree, Terminal
<1>7. Phases' /\ Young'
  <2>1. Terminal(cand[noting]) /\ cand[noting].state # "absent"
    BY <1>1, StateFacts, ConstantFacts DEF IInv, Phases, Terminal
  <2>2. \A k \in made : run'[k] # "no" /\ rec'[k].state # "absent"
    BY <1>1, <1>3, <2>1 DEF IInv, TypeOK, Young, Known
  <2>3. Young'
    BY <1>1, <1>2, <2>2 DEF Young, Known
  <2>4. QED
    BY <1>1, <1>2, <2>3 DEF IInv, Phases, Terminal
<1>8. QED
  BY <1>4, <1>5, <1>6, <1>7 DEF IInv

(* A record that is read as live keeps its directory.                      *)
LEMMA ReadKnownInv ==
  ASSUME IInv, ReadKnown
  PROVE  IInv'
<1>1. /\ spc = "dropping" /\ spc' = "listing" /\ noting = NoJob
      /\ orphans' = {j \in Jobs : rec[j].state # "absent"}
      /\ UNCHANGED <<job, wait, todo, cand, left, noting, low>>
  BY DEF ReadKnown
<1>2. TypeOK' /\ Phases'
  BY <1>1, SameUse DEF IInv, TypeOK, Phases, job, files, Terminal
<1>3. Young'
  BY <1>1, RecordFacts DEF IInv, TypeOK, Young, Known, job, files
<1>4. QED
  BY <1>1, <1>2, <1>3, PassInv DEF job, files, Waiting

LEMMA ListDirsInv ==
  ASSUME IInv, ListDirs
  PROVE  IInv'
<1>1. /\ spc = "listing" /\ spc' = "removing" /\ orphans' = Orphans(orphans)
      /\ UNCHANGED <<job, wait, todo, cand, left, noting, low>>
  BY DEF ListDirs
<1>2. TypeOK' /\ Phases' /\ Young'
  BY <1>1, SameUse DEF IInv, TypeOK, Orphans, Phases, Young, Known, job, files, Terminal
<1>3. QED
  BY <1>1, <1>2, PassInv DEF job, files, Waiting

LEMMA RemoveOrphanInv ==
  ASSUME IInv, NEW j \in Jobs, RemoveOrphan(j)
  PROVE  IInv'
<1>1. /\ spc = "removing" /\ orphans' = orphans \ {j} /\ heavy' = Emptied(j)
      /\ dirs' = IF j \in Stuck THEN dirs ELSE dirs \ {j}
      /\ old' = old \cap dirs' /\ made' = made \cap dirs'
      /\ UNCHANGED <<rec, run, asked, ended, crowded, wait, spc, todo, cand, left, noting, low>>
  BY DEF RemoveOrphan
<1>2. TypeOK'
  <2>1. \A k \in Jobs \ dirs' : heavy'[k] = 0
    BY <1>1, EmptiedFacts DEF IInv, TypeOK
  <2>2. QED
    BY <1>1, <2>1, EmptiedFacts DEF IInv, TypeOK
<1>3. Counts'
  BY <1>1, SameCounts DEF IInv
<1>4. QED
  BY <1>1, <1>2, <1>3 DEF IInv, Phases, Dated, Agree, Young, Known, Terminal

(* The end of a sweep, or the next candidate of its emergency pass.        *)
LEMMA LookInv ==
  ASSUME IInv, Look \/ Measure
  PROVE  IInv'
<1>1. /\ spc \in {"removing", "measuring"}
      /\ UNCHANGED <<job, todo, noting, orphans>>
      /\ noting = NoJob
  BY DEF Look, Measure, IInv, Phases
<1>2. CASE SweepEnds
  <2>1. /\ wait' = [j \in Jobs |-> IF wait[j] = "sweeping" THEN "swept" ELSE wait[j]]
        /\ spc' = "off" /\ cand' = [j \in Jobs |-> Absent] /\ left' = {}
        /\ low' = FALSE
    BY <1>2 DEF SweepEnds
  <2>2. wait' \in [Jobs -> {"no", "queued", "sweeping", "swept"}] /\ Waiting' = Waiting
    BY <2>1 DEF IInv, TypeOK, Waiting
  <2>3. TypeOK'
    BY <1>1, <2>1, <2>2, SameUse, RecordFacts DEF IInv, TypeOK, job, files
  <2>4. Counts'
    BY <1>1, <2>2 DEF IInv, Counts, Running, job
  <2>5. Phases' /\ Young'
    BY <1>1, <2>1 DEF IInv, Phases, Young, Known, job, files
  <2>6. Dated'
    BY <1>1, <2>1, RecordFacts, ConstantFacts DEF IInv, TypeOK, Dated, job
  <2>7. Agree'
    BY <1>1, <2>1, RecordFacts DEF Agree
  <2>8. QED
    BY <2>3, <2>4, <2>5, <2>6, <2>7 DEF IInv
<1>3. CASE /\ spc' = "emergency" /\ low' /\ low' \in BOOLEAN
           /\ UNCHANGED <<wait, cand, left>>
  <2>1. TypeOK' /\ Phases' /\ Young'
    BY <1>1, <1>3, SameUse DEF IInv, TypeOK, Phases, Young, Known, job, files, Terminal
  <2>2. QED
    BY <1>1, <1>3, <2>1, PassInv DEF job, files, Waiting
<1>4. QED
  BY <1>2, <1>3 DEF Look, Measure, IInv, TypeOK, Phases
-----------------------------------------------------------------------------
LEMMA InitInv == Init => IInv
<1> SUFFICES ASSUME Init PROVE IInv
  OBVIOUS
<1>1. Running = {} /\ Waiting = {} /\ Taken = {}
  BY ConstantFacts DEF Init, Running, Waiting, Taken
<1>2. Cardinality(Running) = 0 /\ Cardinality(Waiting) = 0 /\ Used = 0
  BY <1>1, FS_EmptySet DEF Used
<1>3. TypeOK
  <2>1. 0 \in 0 .. Need /\ 0 \in 0 .. MaxEnds /\ Used <= Disk
    BY <1>2, ConstantFacts
  <2>2. QED
    BY <2>1, RecordFacts DEF Init, TypeOK
<1>4. Counts
  BY <1>2, ConstantFacts DEF Init, Counts
<1>5. QED
  BY <1>3, <1>4, RecordFacts DEF Init, IInv, Phases, Dated, Agree, Young, Known

LEMMA SweepStepInv ==
  ASSUME IInv, SweepStep
  PROVE  IInv'
<1>1. CASE \E j \in Jobs : Consider(j) \/ DropDue(j) \/ Keep(j)
  BY <1>1, ConsiderInv, DropDueInv, KeepInv
<1>2. CASE \E j \in Jobs : RemoveOrphan(j) \/ DropForSpace(j)
  BY <1>2, RemoveOrphanInv, DropForSpaceInv
<1>3. CASE Considered \/ Note \/ ReadKnown \/ ListDirs \/ Look \/ Measure
  BY <1>3, ConsideredInv, NoteInv, ReadKnownInv, ListDirsInv, LookInv
<1>4. QED
  BY <1>1, <1>2, <1>3 DEF SweepStep

LEMMA StepInv == IInv /\ [Next]_vars => IInv'
<1> SUFFICES ASSUME IInv, [Next]_vars PROVE IInv'
  OBVIOUS
<1>1. CASE \E j \in Jobs : Post(j) \/ PostLow(j) \/ PostAgain(j)
  BY <1>1, PostInv, PostAgainInv
<1>2. CASE \E j \in Jobs : Stage(j) \/ MovesOn(j) \/ End(j) \/ Write(j) \/ Cancel(j)
  BY <1>2, StageInv, CancelInv, EndInv, WriteInv
<1>3. CASE \E j \in Jobs : AfterDelivery(j) \/ Delete(j) \/ DirAges(j) \/ Expires(j)
  BY <1>3, AfterDeliveryInv, DeleteInv, AgeInv
<1>4. CASE Wipe \/ SweepStarts \/ SweepStep
  BY <1>4, WipeInv, SweepStartsInv, SweepStepInv
<1>5. CASE UNCHANGED vars
  <2>1. TypeOK'
    BY <1>5, SameUse DEF vars, job, files, sweep, IInv, TypeOK
  <2>2. Counts'
    BY <1>5, SameCounts DEF vars, job, IInv
  <2>3. QED
    BY <1>5, <2>1, <2>2
       DEF vars, job, files, sweep, IInv, Phases, Dated, Agree, Young, Known, Terminal
<1>6. QED
  BY <1>1, <1>2, <1>3, <1>4, <1>5 DEF Next, RunStep

LEMMA InvCorrect == Spec => []IInv
BY InitInv, StepInv, PTL DEF Spec

(* Type correctness: the disk is never over its capacity, and every end    *)
(* that was admitted fits under the bound.                                 *)
THEOREM TypeCorrect == Spec => []TypeOK
<1>1. IInv => TypeOK
  BY DEF IInv
<1>2. QED
  BY <1>1, InvCorrect, PTL
-----------------------------------------------------------------------------
(* What a sweep takes.  A candidate's files go because its record was due, *)
(* and the record on disk is no younger, or because space was short.       *)
LEMMA OnlyCopyStep ==
  ASSUME IInv, [Next]_vars, NEW j \in Jobs,
         noting # j, noting' = j, SameEnd(j)
  PROVE  rec[j].delivered \/ rec[j].expired \/ low
<1>1. DropDue(j) \/ DropForSpace(j)
  <2>1. j # NoJob
    BY ConstantFacts
  <2>2. \E k \in Jobs : DropDue(k) \/ DropForSpace(k)
    BY <2>1 DEF Next, RunStep, SweepStep, vars, sweep, Post, PostLow, PostAgain, Stage,
                MovesOn, Cancel, End, Write, AfterDelivery, Delete, DirAges, Expires, Wipe,
                SweepStarts, Consider, Considered, Keep, Note, ReadKnown, ListDirs, RemoveOrphan,
                Look, Measure
  <2>3. QED
    BY <2>1, <2>2 DEF DropDue, DropForSpace, Drop
<1>2. CASE DropDue(j)
  <2>1. cand[j].delivered \/ cand[j].expired
    BY <1>2 DEF DropDue, Due
  <2>2. Terminal(cand[j])
    BY <1>2 DEF DropDue, IInv, Phases
  <2>3. Terminal(rec[j]) /\ rec[j].finished = cand[j].finished
    BY DEF SameEnd
  <2>4. rec[j].delivered = cand[j].delivered /\ (cand[j].expired => rec[j].expired)
    BY <2>2, <2>3 DEF IInv, Agree
  <2>5. QED
    BY <2>1, <2>4
<1>3. CASE DropForSpace(j)
  BY <1>3 DEF DropForSpace, IInv, Phases
<1>4. QED
  BY <1>1, <1>2, <1>3

(* reclaim.py, "The output goes only once R2 has it": whatever ends,       *)
(* expires, is deleted or submitted again between the reading of a record  *)
(* and the removal of the files, what the sweep takes of a finished job is *)
(* delivered, past the window, or taken for want of space.                 *)
THEOREM OnlyCopyKeptCorrect == Spec => OnlyCopyKept
<1>1. IInv /\ [Next]_vars
        => [\A j \in Jobs : noting # j /\ noting' = j /\ SameEnd(j)
              => rec[j].delivered \/ rec[j].expired \/ low]_vars
  BY OnlyCopyStep
<1>2. QED
  BY <1>1, InvCorrect, PTL DEF Spec, OnlyCopyKept

(* ORPHAN_DIR_MIN_AGE: the directory of a submission that came between the *)
(* reading of the records and the listing of the directories is no orphan. *)
THEOREM NewDirKeptCorrect == Spec => NewDirKept
<1> DEFINE Kept == spc = "listing" /\ spc' = "removing" => made \cap orphans' = {}
<1>1. IInv /\ [Next]_vars => [Kept]_vars
  <2> SUFFICES ASSUME IInv, Next, spc = "listing", spc' = "removing", NEW j \in made
               PROVE  j \notin orphans'
    OBVIOUS
  <2>1. ListDirs
    BY DEF Next, RunStep, SweepStep, SweepEnds, sweep, Post, PostLow, PostAgain, Cancel,
           Stage, MovesOn, End, Write, AfterDelivery, Delete, DirAges, Expires, Wipe,
           SweepStarts, Consider, Considered, DropDue, Keep, Note, ReadKnown,
           RemoveOrphan, Look, DropForSpace, Measure, IInv, Phases
  <2>2. orphans' = old \ orphans
    BY <2>1 DEF ListDirs, Orphans
  <2>3. QED
    BY <2>2 DEF IInv, Young
<1>2. QED
  BY <1>1, InvCorrect, PTL DEF Spec, NewDirKept
-----------------------------------------------------------------------------
(* One slot.  Two of its jobs run at a time only in the ways Squeezed      *)
(* names, so what a job was let pass for nobody else takes.                *)
Single == Slots <= 1

(* With the slot free no job that runs is counted.                         *)
LEMMA NotBusy ==
  ASSUME Single, ~Busy
  PROVE  \A j \in Jobs : rec[j].state # "live"
<1> DEFINE L == {j \in Jobs : rec[j].state = "live"}
<1>1. IsFiniteSet(L)
  BY ConstantFacts, FS_Subset
<1>2. Cardinality(L) \in Nat /\ Cardinality(L) < Slots
  BY <1>1, FS_CardinalityType, ConstantFacts DEF Busy
<1>3. Cardinality(L) = 0
  BY <1>2, ConstantFacts DEF Single
<1>4. L = {}
  BY <1>1, <1>3, FS_EmptySet
<1>5. QED
  BY <1>4

(* A job that starts beside another is squeezed in.                        *)
LEMMA TogetherCreate ==
  ASSUME Single, TypeOK, Together, NEW j \in Jobs, Create(j)
  PROVE  Together'
<1>1. Running' = Running \cup {j}
  BY DEF Create, TypeOK, Running
<1>2. CASE Squeezed
  BY <1>1, <1>2 DEF Create, Together
<1>3. CASE ~Squeezed
  <2>1. Running = {}
    BY <1>3, NotBusy DEF Squeezed, Running
  <2>2. QED
    BY <1>1, <2>1 DEF Together
<1>4. QED
  BY <1>2, <1>3

LEMMA TogetherConclude ==
  ASSUME TypeOK, Together, NEW j \in Jobs, NEW state, NEW d, Conclude(j, state, d)
  PROVE  Together'
<1>1. Running' = Running \ {j} /\ crowded' = crowded \ {j}
  BY DEF Conclude, TypeOK, Running
<1>2. QED
  BY <1>1 DEF Together

LEMMA TogetherKept ==
  ASSUME Together, Running' = Running, crowded' = crowded
  PROVE  Together'
BY DEF Together

LEMMA TogetherStep ==
  ASSUME Single, IInv, Together, Next
  PROVE  Together'
<1>1. CASE \E j \in Jobs : Post(j) \/ PostAgain(j)
  <2>1. PICK j \in Jobs : Post(j) \/ PostAgain(j)
    BY <1>1
  <2>2. CASE Create(j)
    BY <2>2, TogetherCreate DEF IInv
  <2>3. CASE UNCHANGED job
    BY <2>3, TogetherKept DEF job, Running
  <2>4. QED
    BY <2>1, <2>2, <2>3 DEF Post, PostAgain
<1>2. CASE \E j \in Jobs : Stage(j)
  <2>1. PICK j \in Jobs : Stage(j)
    BY <1>2
  <2>2. CASE Conclude(j, Told(j, "failed", TRUE), FALSE)
    BY <2>2, TogetherConclude DEF IInv
  <2>3. CASE /\ \/ run' = [run EXCEPT ![j] = "measured"]
                \/ run' = [run EXCEPT ![j] = "unmeasured"]
             /\ crowded' = crowded
    <3>1. Running' = Running
      BY <2>1, <2>3 DEF Stage, IInv, TypeOK, Running
    <3>2. QED
      BY <2>3, <3>1, TogetherKept
  <2>4. QED
    BY <2>1, <2>2, <2>3 DEF Stage
<1>3. CASE \E j \in Jobs : End(j)
  BY <1>3, TogetherConclude DEF End, IInv
<1>4. CASE UNCHANGED <<run, crowded>>
  BY <1>4, TogetherKept DEF Running
<1>5. \/ \E j \in Jobs : \/ PostLow(j) \/ Cancel(j) \/ MovesOn(j) \/ Write(j)
                         \/ AfterDelivery(j) \/ Delete(j) \/ DirAges(j) \/ Expires(j)
      \/ Wipe \/ SweepStarts \/ SweepStep
      => UNCHANGED <<run, crowded>>
  BY DEF PostLow, Cancel, MovesOn, Write, AfterDelivery, Delete, DirAges, Expires, Wipe,
         SweepStarts, SweepStep, Consider, Considered, Keep, DropDue, Drop, Note,
         ReadKnown, ListDirs, RemoveOrphan, Look, DropForSpace, Measure, job
<1>6. QED
  BY <1>1, <1>2, <1>3, <1>4, <1>5 DEF Next, RunStep

(* What was promised to the job that runs is still free.                   *)
LEMMA FitsKept ==
  ASSUME IInv, IInv', AdmittedFits, UNCHANGED heavy,
         \A j \in Jobs : run'[j] = "measured" /\ j \notin crowded' =>
           (run[j] = "measured" /\ j \notin crowded) \/ Need <= Free
  PROVE  AdmittedFits'
<1> SUFFICES ASSUME NEW j \in Jobs, j \notin crowded', run'[j] = "measured"
             PROVE  Need - heavy[j] <= Free
  BY SameUse DEF AdmittedFits, Fits
<1>1. heavy[j] \in Nat /\ Need \in Nat /\ Free \in Nat
  BY FreeFacts, ConstantFacts DEF IInv, TypeOK
<1>2. QED
  BY <1>1 DEF AdmittedFits, Fits

LEMMA FitsEmptied ==
  ASSUME IInv, IInv', AdmittedFits, NEW j \in Jobs, heavy' = Emptied(j),
         UNCHANGED <<run, crowded>>
  PROVE  AdmittedFits'
<1> SUFFICES ASSUME NEW k \in Jobs, k \notin crowded, run[k] = "measured"
             PROVE  Need - heavy'[k] <= Free'
  BY DEF AdmittedFits, Fits
<1>1. PICK f \in Nat, g \in Nat, h \in Nat : f = Free' /\ g = heavy'[k] /\ h = heavy'[j]
  BY FreeNext, ConstantFacts DEF IInv, TypeOK
<1>2. /\ Need \in Nat /\ Free \in Nat /\ heavy[k] \in Nat /\ heavy[j] \in Nat
      /\ Need - heavy[k] <= Free
  BY FreeFacts, ConstantFacts DEF IInv, TypeOK, AdmittedFits, Fits
<1>3. h <= heavy[j] /\ f + h = Free + heavy[j]
  BY <1>1, EmptiedFacts, FreeChanges DEF IInv
<1>4. CASE k = j
  <2>1. g = h
    BY <1>1, <1>4
  <2>2. Need - g <= f
    BY <1>2, <1>3, <1>4, <2>1
  <2>3. QED
    BY <1>1, <2>2
<1>5. CASE k # j
  <2>1. g = heavy[k]
    BY <1>1, <1>5, EmptiedFacts DEF IInv
  <2>2. Need - g <= f
    BY <1>2, <1>3, <2>1
  <2>3. QED
    BY <1>1, <2>2
<1>6. QED
  BY <1>4, <1>5

(* A job that is not on the list is the one that writes.                   *)
LEMMA FitsWrite ==
  ASSUME IInv, IInv', Together, AdmittedFits, NEW j \in Jobs, Write(j)
  PROVE  AdmittedFits'
<1> SUFFICES ASSUME NEW k \in Jobs, k \notin crowded, run[k] = "measured"
             PROVE  Need - heavy'[k] <= Free'
  BY DEF AdmittedFits, Fits, Write
<1>1. j \in Running /\ k \in Running
  BY DEF Write, Staged, Running
<1>2. k = j
  BY <1>1 DEF Together
<1>3. PICK f \in Nat, g \in Nat : f = Free' /\ g = heavy'[k]
  BY FreeNext, ConstantFacts DEF IInv, TypeOK
<1>4. /\ Need \in Nat /\ Free \in Nat /\ heavy[k] \in Nat
      /\ Need - heavy[k] <= Free
  BY FreeFacts, ConstantFacts DEF IInv, TypeOK, AdmittedFits, Fits
<1>5. f + g = Free + heavy[k]
  BY <1>2, <1>3, WriteFacts, FreeChanges DEF IInv
<1>6. Need - g <= f
  BY <1>4, <1>5
<1>7. QED
  BY <1>3, <1>6

LEMMA FitsStep ==
  ASSUME IInv, IInv', Together, AdmittedFits, Next
  PROVE  AdmittedFits'
<1>1. CASE \E j \in Jobs : Write(j)
  BY <1>1, FitsWrite
<1>2. CASE \E j \in Jobs : AfterDelivery(j) \/ RemoveOrphan(j) \/ DropDue(j) \/ DropForSpace(j)
  BY <1>2, FitsEmptied DEF AfterDelivery, RemoveOrphan, DropDue, DropForSpace, Drop
<1>3. CASE \E j \in Jobs : Delete(j)
  <2>1. PICK j \in Jobs : Delete(j)
    BY <1>3
  <2>2. UNCHANGED <<run, crowded>> /\ (heavy' = heavy \/ heavy' = Emptied(j))
    BY <2>1 DEF Delete, Emptied
  <2>3. QED
    BY <2>2, FitsKept, FitsEmptied
<1>4. CASE UNCHANGED <<heavy, run, crowded>>
  BY <1>4, FitsKept
<1>5. CASE \E j \in Jobs : Post(j) \/ PostAgain(j)
  <2>1. UNCHANGED heavy
    BY <1>5 DEF PostAgain, Post, Create, job, files
  <2>2. \A k \in Jobs : run'[k] = "measured" => run[k] = "measured"
    BY <1>5 DEF PostAgain, Post, Create, IInv, TypeOK, job
  <2>3. crowded \subseteq crowded'
    BY <1>5 DEF PostAgain, Post, Create, job
  <2>4. QED
    BY <2>1, <2>2, <2>3, FitsKept
<1>6. CASE \E j \in Jobs : Stage(j) \/ End(j)
  <2>1. PICK j \in Jobs : Stage(j) \/ End(j)
    BY <1>6
  <2>2. CASE \E state, d : Conclude(j, state, d)
    <3>1. UNCHANGED heavy /\ run' = [run EXCEPT ![j] = "no"] /\ crowded' = crowded \ {j}
      BY <2>2 DEF Conclude
    <3>2. \A k \in Jobs : run'[k] = "measured" /\ k \notin crowded'
                          => run[k] = "measured" /\ k \notin crowded
      BY <3>1 DEF IInv, TypeOK
    <3>3. QED
      BY <3>1, <3>2, FitsKept
  <2>3. CASE /\ \/ Enough /\ run' = [run EXCEPT ![j] = "measured"]
                \/ run' = [run EXCEPT ![j] = "unmeasured"]
             /\ UNCHANGED <<heavy, crowded>>
    <3>1. Enough => Need <= Free
      BY FreeFacts, ConstantFacts DEF Enough, IInv
    <3>2. \A k \in Jobs : run'[k] = "measured" /\ k \notin crowded'
                          => (run[k] = "measured" /\ k \notin crowded) \/ Need <= Free
      BY <2>3, <3>1 DEF IInv, TypeOK
    <3>3. QED
      BY <2>3, <3>2, FitsKept
  <2>4. QED
    BY <2>1, <2>2, <2>3 DEF Stage, End, files
<1>7. \/ \E j \in Jobs : \/ PostLow(j) \/ Cancel(j) \/ MovesOn(j) \/ DirAges(j)
                         \/ Expires(j) \/ Consider(j) \/ Keep(j)
      \/ Wipe \/ SweepStarts \/ Considered \/ Note \/ ReadKnown \/ ListDirs
      \/ Look \/ Measure
      => UNCHANGED <<heavy, run, crowded>>
  BY DEF PostLow, Cancel, MovesOn, DirAges, Expires, Consider, Keep, Wipe, SweepStarts,
         Considered, Note, ReadKnown, ListDirs, Look, Measure, job, files
<1>8. QED
  BY <1>1, <1>2, <1>3, <1>4, <1>5, <1>6, <1>7 DEF Next, RunStep, SweepStep

(* transfer.require_space with max_concurrent = 1: for any number of jobs, *)
(* a disk of any size and any order of submissions, ends, cancels,         *)
(* deletions and sweeps, what a job that was let pass has still to write   *)
(* fits, unless it ran beside another in one of the ways Squeezed names.   *)
THEOREM AdmittedFitsCorrect == ASSUME Single PROVE Spec => []AdmittedFits
<1>1. Init => SlotInv
  BY DEF Init, SlotInv, Together, Running, AdmittedFits, Fits
<1>2. IInv /\ IInv' /\ SlotInv /\ [Next]_vars => SlotInv'
  <2> SUFFICES ASSUME IInv, IInv', SlotInv, [Next]_vars PROVE SlotInv'
    OBVIOUS
  <2>1. CASE Next
    BY <2>1, TogetherStep, FitsStep DEF SlotInv
  <2>2. CASE UNCHANGED vars
    <3>1. UNCHANGED <<heavy, run, crowded>>
      BY <2>2 DEF vars, job, files
    <3>2. Running' = Running
      BY <3>1 DEF Running
    <3>3. QED
      BY <3>1, <3>2, TogetherKept, FitsKept DEF SlotInv
  <2>3. QED
    BY <2>1, <2>2
<1>3. SlotInv => AdmittedFits
  BY DEF SlotInv
<1>4. QED
  BY <1>1, <1>2, <1>3, InvCorrect, PTL DEF Spec
=============================================================================

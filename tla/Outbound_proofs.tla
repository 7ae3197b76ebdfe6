---------------------------- MODULE Outbound_proofs ----------------------------
(***************************************************************************)
(* Theorems about what leaves the machine.  R2Upload: what the length      *)
(* check of r2.upload is worth, for any number of clients, contents and    *)
(* uploads: an object has the parts of its file, each of its length.       *)
(* EventDelivery, for any number of heartbeats and attempts: what the call *)
(* reports is true, an event is taken in once, and no heartbeat overtakes  *)
(* the end of the job.                                                     *)
(***************************************************************************)
EXTENDS R2Upload, EventDelivery, SequenceTheorems, TLAPS

(* What is on R2 under a number is a part with that number.                *)
Cut == \A u \in Ids, n \in Numbers :
  parts[u][n] # NoSource => parts[u][n] \in Sources /\ n \in Parts(parts[u][n])

(* What a client found or sent fits the file it sends.                     *)
Fitting(c) == \A n \in Numbers :
  etags[c][n] # NoSource => src[c] \in Sources /\ Fits(n, etags[c][n], src[c])

(* A client that completes has every part.                                 *)
Whole(c) == pc[c] = "completing" =>
  src[c] \in Sources /\ \A n \in Parts(src[c]) : etags[c][n] # NoSource

Busy == {"putting", "finding", "creating", "listing", "sending", "completing"}

Types ==
  /\ open \in Seq(Ids)
  /\ parts \in [Ids -> Cuts]
  /\ pc \in [Clients -> PCs]
  /\ src \in [Clients -> Sources \cup {NoSource}]
  /\ id \in [Clients -> Ids \cup {NoId}]
  /\ etags \in [Clients -> Cuts]
  /\ \A c \in Clients :
       /\ pc[c] \in Busy => src[c] \in Sources
       /\ pc[c] = "putting" => Len(Plan[src[c]]) = 1
       /\ pc[c] \notin {"sending", "completing"} => etags[c] = NoCuts
       /\ pc[c] \in {"listing", "sending", "completing"} => id[c] \in Ids

IInv == /\ Types /\ Cut /\ RightLengths
        /\ \A c \in Clients : Fitting(c) /\ Whole(c)

LEMMA Blank == NoCuts \in Cuts /\ \A n \in Numbers : NoCuts[n] = NoSource
BY DEF NoCuts, Cuts

LEMMA PartNumbers ==
  ASSUME NEW s \in Sources
  PROVE  Parts(s) \subseteq Numbers /\ 1 \in Parts(s)
<1>1. Plan[s] \in Seq(Nat) /\ Plan[s] # <<>>
  BY UploadAssumption
<1>2. QED
  BY <1>1 DEF Numbers, Parts

LEMMA CloseType ==
  ASSUME Types, NEW u \in Ids, Close(u)
  PROVE  /\ open' \in Seq(Ids)
         /\ parts' = [parts EXCEPT ![u] = NoCuts]
<1>1. PICK i \in DOMAIN open : open' = RemoveAt(open, i)
  BY DEF Close
<1>2. open \in Seq(Ids) /\ i \in 1 .. Len(open) /\ Len(open) \in Nat
  BY DEF Types
<1>3. SubSeq(open, 1, i - 1) \in Seq(Ids)
  BY <1>2, SubSeqProperties
<1>4. SubSeq(open, i + 1, Len(open)) \in Seq(Ids)
  BY <1>2, SubSeqProperties
<1>5. open' \in Seq(Ids)
  BY <1>1, <1>3, <1>4, ConcatProperties DEF RemoveAt
<1>6. QED
  BY <1>5 DEF Close

LEMMA InitInv == Init => IInv
<1> SUFFICES ASSUME Init PROVE IInv
  OBVIOUS
<1>1. Types
  <2>1. open \in Seq(Ids)
    BY DEF Init
  <2>2. QED
    BY <2>1, Blank DEF Init, Types, PCs, Busy
<1>2. Cut /\ RightLengths
  BY Blank DEF Init, Cut, RightLengths
<1>3. \A c \in Clients : Fitting(c) /\ Whole(c)
  BY Blank DEF Init, Fitting, Whole
<1>4. QED
  BY <1>1, <1>2, <1>3 DEF IInv

(* A step of one client that leaves R2 and what the client found alone.    *)
LEMMA QuietInv ==
  ASSUME IInv, NEW c \in Clients, NEW to \in PCs, Go(c, to),
         src' \in [Clients -> Sources \cup {NoSource}],
         id' \in [Clients -> Ids \cup {NoId}],
         \A d \in Clients \ {c} : src'[d] = src[d] /\ id'[d] = id[d],
         to \in Busy => src'[c] \in Sources,
         to = "putting" => Len(Plan[src'[c]]) = 1,
         to \notin {"sending", "completing"} => etags[c] = NoCuts,
         to \in {"listing", "sending", "completing"} => id'[c] \in Ids,
         etags[c] = NoCuts \/ src'[c] = src[c],
         to = "completing" => \A n \in Parts(src[c]) : etags[c][n] # NoSource,
         to = "completing" => src'[c] = src[c],
         open' \in Seq(Ids),
         UNCHANGED <<parts, object, etags>>
  PROVE  IInv'
<1>1. pc' = [pc EXCEPT ![c] = to]
  BY DEF Go
<1>2. Types'
  BY <1>1 DEF IInv, Types
<1>3. Cut' /\ RightLengths'
  BY DEF IInv, Cut, RightLengths
<1>4. \A d \in Clients : Fitting(d)'
  BY Blank DEF IInv, Fitting
<1>5. \A d \in Clients : Whole(d)'
  BY <1>1, <1>2 DEF IInv, Types, Whole, Busy
<1>6. QED
  BY <1>2, <1>3, <1>4, <1>5 DEF IInv

(* The end of an upload, whatever it has done to R2.                       *)
LEMMA LeaveInv ==
  ASSUME IInv, NEW c \in Clients, NEW to \in {"idle", "aborting"}, Leave(c, to),
         \/ parts' = parts
         \/ \E u \in Ids : parts' = [parts EXCEPT ![u] = NoCuts],
         open' \in Seq(Ids),
         RightLengths'
  PROVE  IInv'
<1>1. /\ pc' = [pc EXCEPT ![c] = to]
      /\ src' = [src EXCEPT ![c] = NoSource]
      /\ id' = [id EXCEPT ![c] = NoId]
      /\ etags' = [etags EXCEPT ![c] = NoCuts]
  BY DEF Leave, Go
<1>2. parts' \in [Ids -> Cuts]
  BY Blank DEF IInv, Types
<1>3. Types'
  BY <1>1, <1>2, Blank DEF IInv, Types, Busy, PCs
<1>4. Cut'
  BY Blank DEF IInv, Types, Cut
<1>5. \A d \in Clients : Fitting(d)'
  BY <1>1, Blank DEF IInv, Types, Fitting
<1>6. \A d \in Clients : Whole(d)'
  BY <1>1 DEF IInv, Types, Whole
<1>7. QED
  BY <1>3, <1>4, <1>5, <1>6 DEF IInv

LEMMA PutInv ==
  ASSUME IInv, NEW c \in Clients, Put(c)
  PROVE  IInv'
<1> DEFINE s == src[c]
<1>0. s \in Sources /\ Len(Plan[s]) = 1
  BY DEF Put, IInv, Types, Busy
<1>1. object' = [of |-> s, parts |-> [NoCuts EXCEPT ![1] = s]]
  BY DEF Put
<1>2. Parts(s) = {1} /\ 1 \in Numbers
  BY <1>0, PartNumbers DEF Parts
<1>3. RightLengths'
  BY <1>0, <1>1, <1>2, Blank DEF RightLengths, Fits, Cuts
<1>4. parts' = parts /\ Leave(c, "idle") /\ open' \in Seq(Ids)
  BY DEF Put, IInv, Types
<1>5. QED
  BY <1>3, <1>4, LeaveInv

LEMMA CompleteInv ==
  ASSUME IInv, NEW c \in Clients, Complete(c)
  PROVE  IInv'
<1>1. /\ object' = [of |-> src[c], parts |-> etags[c]]
      /\ Close(id[c])
      /\ Leave(c, "idle") \/ Leave(c, AfterFailure(c))
      /\ pc[c] = "completing"
  BY DEF Complete
<1>2. src[c] \in Sources /\ id[c] \in Ids
  BY <1>1 DEF IInv, Types, Busy
<1>3. \A n \in Parts(src[c]) : n \in Numbers /\ etags[c][n] # NoSource
  BY <1>1, <1>2, PartNumbers DEF IInv, Whole
<1>4. \A n \in Numbers : etags[c][n] # NoSource => Fits(n, etags[c][n], src[c])
  BY DEF IInv, Fitting
<1>5. RightLengths'
  BY <1>1, <1>3, <1>4 DEF RightLengths, Fits
<1>6. AfterFailure(c) \in {"idle", "aborting"}
  BY DEF AfterFailure
<1>7. open' \in Seq(Ids) /\ parts' = [parts EXCEPT ![id[c]] = NoCuts]
  BY <1>1, <1>2, CloseType DEF IInv
<1>8. QED
  BY <1>1, <1>2, <1>5, <1>6, <1>7, LeaveInv

LEMMA ListInv ==
  ASSUME IInv, NEW c \in Clients, List(c)
  PROVE  IInv'
<1> DEFINE u == id[c]
           s == src[c]
<1>1. /\ pc[c] = "listing" /\ pc' = [pc EXCEPT ![c] = "sending"]
      /\ etags' = [etags EXCEPT ![c] = Reusable(u, s)]
      /\ UNCHANGED <<open, parts, object, src, id>>
  BY DEF List, Go
<1>2. u \in Ids /\ s \in Sources
  BY <1>1 DEF IInv, Types, Busy
<1>3. Reusable(u, s) \in Cuts
  BY <1>2 DEF IInv, Types, Cuts, Reusable
<1>4. \A n \in Numbers : Reusable(u, s)[n] # NoSource
        => Fits(n, Reusable(u, s)[n], s)
  BY <1>2 DEF IInv, Cut, Reusable, Fits
<1>5. Types'
  BY <1>1, <1>2, <1>3 DEF IInv, Types, PCs, Busy
<1>6. Cut' /\ RightLengths'
  BY <1>1 DEF IInv, Cut, RightLengths
<1>7. \A d \in Clients : Fitting(d)'
  BY <1>1, <1>2, <1>4 DEF IInv, Types, Fitting
<1>8. \A d \in Clients : Whole(d)'
  BY <1>1 DEF IInv, Types, Whole
<1>9. QED
  BY <1>5, <1>6, <1>7, <1>8 DEF IInv

(* A part arrives; the client hears of it or not.                          *)
LEMMA SendInv ==
  ASSUME IInv, NEW c \in Clients, NEW n \in Numbers,
         Send(c, n) \/ SendUnheard(c, n)
  PROVE  IInv'
<1> DEFINE s == src[c]
<1>1. /\ pc[c] = "sending" /\ n \in Parts(s)
      /\ parts' = [parts EXCEPT ![id[c]][n] = s]
      /\ etags' \in {etags, [etags EXCEPT ![c][n] = s]}
      /\ UNCHANGED <<open, object, pc, src, id>>
  BY DEF Send, SendUnheard, Todo
<1>2. s \in Sources /\ id[c] \in Ids
  BY <1>1 DEF IInv, Types, Busy
<1>3. parts' \in [Ids -> Cuts] /\ etags' \in [Clients -> Cuts]
  <2>1. \A f \in Cuts : [f EXCEPT ![n] = s] \in Cuts
    BY <1>2 DEF Cuts
  <2>2. parts[id[c]] \in Cuts /\ etags[c] \in Cuts
    BY <1>2 DEF IInv, Types
  <2>3. parts' \in [Ids -> Cuts]
    <3>1. parts' = [parts EXCEPT ![id[c]] = [parts[id[c]] EXCEPT ![n] = s]]
      BY <1>1
    <3>2. QED
      BY <2>1, <2>2, <3>1 DEF IInv, Types
  <2>4. CASE etags' = etags
    BY <2>3, <2>4 DEF IInv, Types
  <2>5. CASE etags' = [etags EXCEPT ![c][n] = s]
    <3>1. etags' = [etags EXCEPT ![c] = [etags[c] EXCEPT ![n] = s]]
      BY <2>5
    <3>2. etags' \in [Clients -> Cuts]
      BY <2>1, <2>2, <3>1 DEF IInv, Types
    <3>3. QED
      BY <2>3, <3>2
  <2>6. QED
    BY <1>1, <2>4, <2>5
<1>4. Types'
  BY <1>1, <1>3 DEF IInv, Types, Cuts
<1>5. Cut'
  BY <1>1, <1>2 DEF IInv, Types, Cuts, Cut
<1>6. Fits(n, s, s)
  BY <1>1, <1>2 DEF Fits
<1>7. \A d \in Clients : Fitting(d)'
  <2>1. SUFFICES ASSUME NEW d \in Clients, NEW m \in Numbers,
                        etags'[d][m] # NoSource
                 PROVE  src[d] \in Sources /\ Fits(m, etags'[d][m], src[d])
    BY <1>1 DEF Fitting, Fits, Parts
  <2>2. etags'[d][m] = etags[d][m] \/ (d = c /\ m = n /\ etags'[d][m] = s)
    BY <1>1 DEF IInv, Types, Cuts
  <2>3. CASE etags'[d][m] = etags[d][m]
    BY <2>1, <2>3 DEF IInv, Fitting
  <2>4. CASE d = c /\ m = n /\ etags'[d][m] = s
    BY <1>2, <1>6, <2>4
  <2>5. QED
    BY <2>2, <2>3, <2>4
<1>8. \A d \in Clients : Whole(d)'
  <2>1. TAKE d \in Clients
  <2>2. CASE d = c
    BY <1>1, <2>2 DEF Whole
  <2>3. CASE d # c
    <3>1. etags'[d] = etags[d]
      BY <1>1, <2>3 DEF IInv, Types
    <3>2. QED
      BY <1>1, <3>1 DEF IInv, Whole
  <2>4. QED
    BY <2>2, <2>3
<1>9. RightLengths'
  BY <1>1 DEF IInv, RightLengths
<1>10. QED
  BY <1>4, <1>5, <1>7, <1>8, <1>9 DEF IInv

LEMMA ProgressInv ==
  ASSUME IInv, NEW c \in Clients,
         \/ \E s \in Sources : Start(c, s)
         \/ Find(c) \/ Create(c) \/ Sent(c)
  PROVE  IInv'
<1>1. CASE \E s \in Sources : Start(c, s)
  <2>1. PICK s \in Sources : Start(c, s)
    BY <1>1
  <2>2. /\ pc[c] = "idle" /\ src' = [src EXCEPT ![c] = s]
        /\ UNCHANGED <<open, parts, object, id, etags>>
    BY <2>1 DEF Start
  <2>3. PICK to \in {"putting", "finding"} :
          Go(c, to) /\ (to = "putting" => Len(Plan[s]) = 1)
    BY <2>1 DEF Start
  <2>4. /\ to \in PCs /\ to \notin {"listing", "sending", "completing"}
        /\ etags[c] = NoCuts /\ src'[c] = s
    BY <2>2 DEF IInv, Types, PCs
  <2>5. QED
    BY <2>2, <2>3, <2>4, QuietInv DEF IInv, Types
<1>2. CASE Find(c)
  <2> DEFINE to == IF open = <<>> THEN "creating" ELSE "listing"
  <2>1. /\ pc[c] = "finding" /\ Go(c, to)
        /\ id' = IF open = <<>> THEN id ELSE [id EXCEPT ![c] = Last(open)]
        /\ UNCHANGED <<open, parts, object, src, etags>>
    BY <1>2 DEF Find
  <2>2. open # <<>> => Last(open) \in Ids
    BY DEF IInv, Types, Last
  <2>3. /\ id' \in [Clients -> Ids \cup {NoId}]
        /\ \A d \in Clients \ {c} : id'[d] = id[d]
        /\ to = "listing" => id'[c] \in Ids
    BY <2>1, <2>2 DEF IInv, Types
  <2>4. to \in PCs /\ to \notin {"sending", "completing", "putting"}
    BY DEF PCs
  <2>5. etags[c] = NoCuts /\ src[c] \in Sources
    BY <2>1 DEF IInv, Types, Busy
  <2> HIDE DEF to
  <2>6. QED
    BY <2>1, <2>3, <2>4, <2>5, QuietInv DEF IInv, Types
<1>3. CASE Create(c)
  <2>1. PICK u \in Ids :
          /\ pc[c] = "creating" /\ open' = Append(open, u)
          /\ id' = [id EXCEPT ![c] = u] /\ Go(c, "sending")
          /\ UNCHANGED <<parts, object, src, etags>>
    BY <1>3 DEF Create
  <2>2. open' \in Seq(Ids)
    BY <2>1 DEF IInv, Types
  <2>3. etags[c] = NoCuts /\ src[c] \in Sources
    BY <2>1 DEF IInv, Types, Busy
  <2>4. QED
    BY <2>1, <2>2, <2>3, QuietInv DEF IInv, Types, PCs
<1>4. CASE Sent(c)
  <2>1. /\ pc[c] = "sending" /\ Todo(c) = {} /\ failed[c] = {}
        /\ Go(c, "completing")
        /\ UNCHANGED <<open, parts, object, src, id, etags>>
    BY <1>4 DEF Sent
  <2>2. \A n \in Parts(src[c]) : etags[c][n] # NoSource
    BY <2>1 DEF Todo
  <2>3. src[c] \in Sources /\ id[c] \in Ids
    BY <2>1 DEF IInv, Types, Busy
  <2>4. QED
    BY <2>1, <2>2, <2>3, QuietInv DEF IInv, Types, PCs
<1>5. QED
  BY <1>1, <1>2, <1>3, <1>4

LEMMA EndInv ==
  ASSUME IInv, NEW c \in Clients,
         Fail(c) \/ Kill(c) \/ Abort(c) \/ AbortFails(c)
  PROVE  IInv'
<1>1. CASE Fail(c) \/ Kill(c)
  <2>1. PICK to \in {"idle", "aborting"} : Leave(c, to)
    BY <1>1 DEF Fail, Kill, AfterFailure
  <2>2. UNCHANGED <<open, parts, object>>
    BY <1>1 DEF Fail, Kill
  <2>3. RightLengths' /\ open' \in Seq(Ids)
    BY <2>2 DEF IInv, Types, RightLengths
  <2>4. QED
    BY <2>1, <2>2, <2>3, LeaveInv
<1>2. CASE Abort(c) /\ open # <<>>
  <2>1. Close(Last(open)) /\ UNCHANGED <<object, pc, src, id, etags>>
    BY <1>2 DEF Abort
  <2>2. Last(open) \in Ids
    BY <1>2 DEF IInv, Types, Last
  <2>3. open' \in Seq(Ids) /\ parts' = [parts EXCEPT ![Last(open)] = NoCuts]
    BY <2>1, <2>2, CloseType DEF IInv
  <2>4. parts' \in [Ids -> Cuts]
    BY <2>2, <2>3, Blank DEF IInv, Types
  <2>5. Types'
    BY <2>1, <2>3, <2>4 DEF IInv, Types
  <2>6. Cut'
    BY <2>2, <2>3, Blank DEF IInv, Types, Cut
  <2>7. RightLengths' /\ \A d \in Clients : Fitting(d)' /\ Whole(d)'
    BY <2>1 DEF IInv, RightLengths, Fitting, Whole
  <2>8. QED
    BY <2>5, <2>6, <2>7 DEF IInv
<1>3. CASE AbortFails(c) \/ (Abort(c) /\ open = <<>>)
  <2>1. /\ pc[c] = "aborting" /\ Go(c, "idle")
        /\ UNCHANGED <<open, parts, object, src, id, etags>>
    BY <1>3 DEF Abort, AbortFails
  <2>2. etags[c] = NoCuts
    BY <2>1 DEF IInv, Types
  <2>3. QED
    BY <2>1, <2>2, QuietInv DEF IInv, Types, PCs, Busy
<1>4. QED
  BY <1>1, <1>2, <1>3

LEMMA IdleInv ==
  ASSUME IInv, UNCHANGED <<open, parts, object, pc, src, id, etags>>
  PROVE  IInv'
<1>1. Types' /\ Cut' /\ RightLengths'
  BY DEF IInv, Types, Cut, RightLengths
<1>2. \A c \in Clients : Fitting(c)' /\ Whole(c)'
  BY DEF IInv, Fitting, Whole
<1>3. QED
  BY <1>1, <1>2 DEF IInv

LEMMA StepInv == IInv /\ [Next]_vars => IInv'
<1> SUFFICES ASSUME IInv, [Next]_vars PROVE IInv'
  OBVIOUS
<1>1. CASE UNCHANGED vars
  BY <1>1, IdleInv DEF vars
<1>2. ASSUME NEW c \in Clients,
             (\E s \in Sources : Start(c, s)) \/ ClientStep(c)
      PROVE  IInv'
  <2>1. CASE \/ \E s \in Sources : Start(c, s)
             \/ Find(c) \/ Create(c) \/ Sent(c)
    BY <2>1, ProgressInv
  <2>2. CASE Put(c) \/ List(c) \/ Complete(c)
    BY <2>2, PutInv, ListInv, CompleteInv
  <2>3. CASE \E n \in Numbers : Send(c, n) \/ SendUnheard(c, n)
    BY <2>3, SendInv
  <2>4. CASE \E n \in Numbers : GiveUp(c, n)
    BY <2>4, IdleInv DEF GiveUp
  <2>5. CASE Fail(c) \/ Abort(c) \/ AbortFails(c) \/ Kill(c)
    BY <2>5, EndInv
  <2>6. QED
    BY <1>2, <2>1, <2>2, <2>3, <2>4, <2>5 DEF ClientStep
<1>3. QED
  BY <1>1, <1>2 DEF Next

(* What TypeOK says that the invariant does not.                           *)
Rest ==
  /\ object \in Object \cup {NoObject}
  /\ failed \in [Clients -> SUBSET Numbers]
  /\ left \in BOOLEAN
  /\ \A c \in Clients : src[c] = NoSource <=> pc[c] \in {"idle", "aborting"}

LEMMA LeaveRest ==
  ASSUME IInv, Rest, NEW c \in Clients, NEW to \in {"idle", "aborting"}, Leave(c, to),
         object' \in Object \cup {NoObject}, left' \in BOOLEAN
  PROVE  Rest'
BY DEF Leave, Go, IInv, Types, Rest

LEMMA StepRest ==
  ASSUME IInv, Rest, NEW c \in Clients,
         (\E s \in Sources : Start(c, s)) \/ ClientStep(c)
  PROVE  Rest'
<1>1. CASE \/ \E s \in Sources : Start(c, s)
           \/ Find(c) \/ Create(c) \/ List(c) \/ Sent(c)
  BY <1>1, UploadAssumption
  DEF Start, Find, Create, List, Sent, Go, IInv, Types, Rest
<1>2. CASE \E n \in Numbers : Send(c, n) \/ SendUnheard(c, n)
  BY <1>2 DEF Send, SendUnheard, Rest
<1>3. CASE \E n \in Numbers : GiveUp(c, n)
  BY <1>3 DEF GiveUp, Rest
<1>4. CASE Abort(c) \/ AbortFails(c)
  BY <1>4 DEF Abort, AbortFails, Go, IInv, Types, Rest
<1>5. CASE Kill(c) \/ Fail(c)
  <2>1. PICK to \in {"idle", "aborting"} : Leave(c, to)
    BY <1>5 DEF Fail, Kill, AfterFailure
  <2>2. object' \in Object \cup {NoObject} /\ left' \in BOOLEAN
    BY <1>5 DEF Fail, Kill, Rest
  <2>3. QED
    BY <2>1, <2>2, LeaveRest
<1>6. CASE Put(c) \/ Complete(c)
  <2>1. PICK to \in {"idle", "aborting"} : Leave(c, to)
    BY <1>6 DEF Put, Complete, AfterFailure
  <2>2. src[c] \in Sources /\ etags[c] \in Cuts
    BY <1>6 DEF Put, Complete, IInv, Types, Busy
  <2>3. [NoCuts EXCEPT ![1] = src[c]] \in Cuts
    BY <2>2, Blank DEF Cuts
  <2>4. object' \in Object /\ left' \in BOOLEAN
    BY <1>6, <2>2, <2>3 DEF Put, Complete, Object, Rest
  <2>5. QED
    BY <2>1, <2>4, LeaveRest
<1>7. QED
  BY <1>1, <1>2, <1>3, <1>4, <1>5, <1>6 DEF ClientStep

(* Every variable keeps its type, and a client that has none of the file   *)
(* is one that is not at work.                                             *)
THEOREM TypeCorrect == Spec => []TypeOK
<1>1. Init => IInv /\ Rest
  BY InitInv DEF Init, Rest
<1>2. IInv /\ Rest /\ [Next]_vars => (IInv /\ Rest)'
  <2> SUFFICES ASSUME IInv, Rest, [Next]_vars PROVE Rest'
    BY StepInv
  <2>1. CASE UNCHANGED vars
    BY <2>1 DEF vars, Rest
  <2>2. CASE Next
    BY <2>2, StepRest DEF Next
  <2>3. QED
    BY <2>1, <2>2
<1>3. IInv /\ Rest => TypeOK
  BY DEF IInv, Types, Rest, TypeOK
<1>4. QED
  BY <1>1, <1>2, <1>3, PTL DEF Spec

(* Whatever uploads of a key were left, shared, aborted or completed by    *)
(* whatever number of clients, the object has the parts of one file's plan *)
(* and each part has its length.                                           *)
THEOREM RightLengthsCorrect == Spec => []RightLengths
<1>1. Init => IInv
  BY InitInv
<1>2. IInv /\ [Next]_vars => IInv'
  BY StepInv
<1>3. IInv => RightLengths
  BY DEF IInv
<1>4. QED
  BY <1>1, <1>2, <1>3, PTL DEF Spec
-----------------------------------------------------------------------------
(* Who answers for the uploads that are open: a client that is sending     *)
(* into the upload, or one that is aborting all there are.                 *)
Attends(c, u) ==
  \/ pc[c] = "aborting"
  \/ pc[c] \in {"listing", "sending", "completing"} /\ id[c] = u

Attended == ~left /\ Aborting = Clients =>
  \A i \in DOMAIN open : \E c \in Clients : Attends(c, open[i])

(* An id is open once.                                                     *)
Apart == \A i, j \in DOMAIN open : open[i] = open[j] => i = j

LEMMA RemoveAtEntries ==
  ASSUME NEW S, NEW s \in Seq(S), NEW i \in 1 .. Len(s)
  PROVE  /\ DOMAIN RemoveAt(s, i) = 1 .. (Len(s) - 1)
         /\ \A k \in 1 .. (Len(s) - 1) :
              RemoveAt(s, i)[k] = IF k < i THEN s[k] ELSE s[k + 1]
<1> DEFINE f == SubSeq(s, 1, i - 1)
           g == SubSeq(s, i + 1, Len(s))
<1>1. Len(s) \in Nat /\ i \in Int /\ 1 <= i /\ i <= Len(s)
  OBVIOUS
<1>2. f \in Seq(S) /\ Len(f) = i - 1 /\ \A k \in 1 .. (i - 1) : f[k] = s[k]
  BY <1>1, SubSeqProperties
<1>3. /\ g \in Seq(S) /\ Len(g) = Len(s) - i
      /\ \A k \in 1 .. (Len(s) - i) : g[k] = s[i + k]
  <2>1. g \in Seq(S)
    BY <1>1, SubSeqProperties
  <2>2. Len(g) = Len(s) - i
    BY <1>1, SubSeqProperties
  <2>3. ASSUME NEW k \in 1 .. (Len(s) - i) PROVE g[k] = s[i + k]
    <3>1. g[k] = s[(i + 1) + k - 1]
      BY <1>1, SubSeqProperties
    <3>2. QED
      BY <1>1, <3>1
  <2>4. QED
    BY <2>1, <2>2, <2>3
<1>4. RemoveAt(s, i) = f \o g
  BY DEF RemoveAt
<1> HIDE DEF f, g
<1>5. Len(f \o g) = Len(s) - 1 /\ f \o g \in Seq(S)
  <2>1. f \o g \in Seq(S) /\ Len(f \o g) = Len(f) + Len(g)
    BY <1>2, <1>3, ConcatProperties
  <2>2. Len(f) + Len(g) = Len(s) - 1
    BY <1>1, <1>2, <1>3
  <2>3. QED
    BY <2>1, <2>2
<1>6. ASSUME NEW k \in 1 .. (Len(s) - 1)
      PROVE  (f \o g)[k] = IF k < i THEN s[k] ELSE s[k + 1]
  <2>1. CASE k < i
    BY <1>1, <1>2, <1>3, <2>1, ConcatProperties
  <2>2. CASE ~(k < i)
    <3>1. (f \o g)[k] = g[k - (i - 1)]
      BY <1>1, <1>2, <1>3, <2>2, ConcatProperties
    <3>2. k - (i - 1) \in 1 .. (Len(s) - i) /\ i + (k - (i - 1)) = k + 1
      BY <1>1, <2>2
    <3>3. QED
      BY <1>3, <2>2, <3>1, <3>2
  <2>3. QED
    BY <2>1, <2>2
<1>7. DOMAIN (f \o g) = 1 .. (Len(s) - 1)
  <2> DEFINE h == f \o g
  <2>1. h \in Seq(S) /\ Len(h) = Len(s) - 1
    BY <1>5
  <2> HIDE DEF h
  <2>2. DOMAIN h = 1 .. Len(h)
    BY <2>1
  <2>3. QED
    BY <2>1, <2>2 DEF h
<1>8. QED
  BY <1>4, <1>6, <1>7

(* Closing an upload leaves the others open, once each.                    *)
LEMMA CloseEntries ==
  ASSUME IInv, Apart, NEW u \in Ids, Close(u)
  PROVE  /\ Apart'
         /\ \A k \in DOMAIN open' :
              open'[k] # u /\ \E i \in DOMAIN open : open'[k] = open[i]
<1>1. PICK i \in DOMAIN open : open[i] = u /\ open' = RemoveAt(open, i)
  BY DEF Close
<1>2. open \in Seq(Ids) /\ i \in 1 .. Len(open) /\ Len(open) \in Nat
  BY DEF IInv, Types
<1>3. /\ DOMAIN open' = 1 .. (Len(open) - 1)
      /\ \A k \in 1 .. (Len(open) - 1) :
           open'[k] = IF k < i THEN open[k] ELSE open[k + 1]
  BY <1>1, <1>2, RemoveAtEntries
<1>4. DOMAIN open = 1 .. Len(open)
  BY <1>2
<1>5. Apart'
  <2> SUFFICES ASSUME NEW k \in DOMAIN open', NEW l \in DOMAIN open',
                      open'[k] = open'[l]
               PROVE  k = l
    BY DEF Apart
  <2> DEFINE m(x) == IF x < i THEN x ELSE x + 1
  <2>1. m(k) \in DOMAIN open /\ m(l) \in DOMAIN open /\ open[m(k)] = open[m(l)]
    BY <1>2, <1>3, <1>4
  <2>2. m(k) = m(l)
    BY <2>1 DEF Apart
  <2>3. QED
    BY <1>2, <1>3, <2>2
<1>6. ASSUME NEW k \in DOMAIN open'
      PROVE  open'[k] # u /\ \E n \in DOMAIN open : open'[k] = open[n]
  <2> DEFINE m == IF k < i THEN k ELSE k + 1
  <2>1. m \in DOMAIN open /\ m # i /\ open'[k] = open[m]
    BY <1>2, <1>3, <1>4
  <2>2. QED
    BY <1>1, <2>1 DEF Apart
<1>7. QED
  BY <1>5, <1>6

LEMMA CreateEntries ==
  ASSUME IInv, Apart, NEW c \in Clients, Create(c)
  PROVE  /\ Apart'
         /\ \A k \in DOMAIN open' : \/ open'[k] = id'[c]
                                    \/ \E i \in DOMAIN open : open'[k] = open[i]
<1>1. PICK u \in Ids : /\ \A i \in DOMAIN open : open[i] # u
                       /\ open' = Append(open, u)
                       /\ id' = [id EXCEPT ![c] = u]
  BY DEF Create
<1>2. open \in Seq(Ids) /\ Len(open) \in Nat /\ DOMAIN open = 1 .. Len(open)
  BY DEF IInv, Types
<1>3. /\ DOMAIN open' = 1 .. (Len(open) + 1)
      /\ open'[Len(open) + 1] = u
      /\ \A k \in 1 .. Len(open) : open'[k] = open[k]
  BY <1>1, <1>2
<1>4. id'[c] = u
  BY <1>1 DEF IInv, Types
<1>5. QED
  BY <1>1, <1>2, <1>3, <1>4 DEF Apart

(* A client that leaves to abort answers for every open upload; one that   *)
(* completes its upload leaves the others with those who had them.         *)
LEMMA AttendedStep ==
  ASSUME IInv, Rest, Apart, Attended, NEW c \in Clients,
         (\E s \in Sources : Start(c, s)) \/ ClientStep(c)
  PROVE  Apart' /\ Attended'
<1> DEFINE Inherits(d) == \A u \in Ids : Attends(d, u) => Attends(d, u)'
<1>1. \A d \in Clients \ {c} : pc'[d] = pc[d] /\ id'[d] = id[d]
  BY DEF IInv, Types, ClientStep, Start, Put, Find, Create, List, Send, SendUnheard,
         GiveUp, Sent, Complete, Fail, Abort, AbortFails, Kill, Go, Leave
<1>2. \A d \in Clients \ {c} : Inherits(d)
  BY <1>1 DEF Attends
<1>3. \A i \in DOMAIN open : open[i] \in Ids
  BY DEF IInv, Types
<1>4. CASE \/ \E s \in Sources : Start(c, s)
           \/ Put(c) \/ Find(c) \/ List(c) \/ Sent(c)
           \/ \E n \in Numbers : Send(c, n) \/ SendUnheard(c, n) \/ GiveUp(c, n)
  <2>1. open' = open /\ left' = left
    BY <1>4 DEF Start, Put, Find, List, Sent, Send, SendUnheard, GiveUp
  <2>2. Inherits(c)
    BY <1>4 DEF Attends, Start, Put, Find, List, Sent, Send, SendUnheard, GiveUp, Go,
                Leave, IInv, Types
  <2>3. QED
    BY <1>2, <1>3, <2>1, <2>2 DEF Apart, Attended
<1>5. CASE Create(c)
  <2>1. Attends(c, id[c])'
    BY <1>5 DEF Create, Go, Attends, IInv, Types
  <2>2. Inherits(c) /\ left' = left
    BY <1>5 DEF Create, Attends
  <2>3. QED
    BY <1>2, <1>3, <1>5, <2>1, <2>2, CreateEntries DEF Attended
<1>6. CASE Complete(c)
  <2>1. /\ pc[c] = "completing" /\ id[c] \in Ids /\ Close(id[c]) /\ left' = left
    BY <1>6 DEF Complete, IInv, Types
  <2>2. /\ Apart'
        /\ \A k \in DOMAIN open' :
              open'[k] # id[c] /\ \E i \in DOMAIN open : open'[k] = open[i]
    BY <2>1, CloseEntries
  <2>3. \A u \in Ids : u # id[c] => ~Attends(c, u)
    BY <2>1 DEF Attends
  <2>4. QED
    BY <1>2, <1>3, <2>1, <2>2, <2>3 DEF Attended
<1>7. CASE Fail(c)
  <2>1. open' = open /\ left' = left /\ pc'[c] = AfterFailure(c)
    BY <1>7 DEF Fail, Leave, Go, IInv, Types
  <2>2. Aborting = Clients => \A u \in Ids : Attends(c, u)'
    BY <2>1 DEF AfterFailure, Attends
  <2>3. QED
    BY <1>3, <2>1, <2>2 DEF Apart, Attended
<1>8. CASE Abort(c)
  <2>1. CASE open = <<>>
    BY <1>8, <2>1 DEF Abort, Apart, Attended
  <2>2. CASE open # <<>>
    <3>1. open \in Seq(Ids) /\ Len(open) \in Nat /\ Len(open) > 0
      BY <2>2, EmptySeq DEF IInv, Types
    <3>2. Last(open) \in Ids
      BY <3>1 DEF Last
    <3>3. Close(Last(open)) /\ pc' = pc /\ pc[c] = "aborting"
      BY <1>8, <2>2 DEF Abort
    <3>4. QED
      BY <3>2, <3>3, CloseEntries DEF Attended, Attends
  <2>3. QED
    BY <2>1, <2>2
<1>9. CASE AbortFails(c) \/ Kill(c)
  BY <1>9 DEF AbortFails, Kill, Apart, Attended
<1>10. QED
  BY <1>4, <1>5, <1>6, <1>7, <1>8, <1>9 DEF ClientStep

(* _abort_upload: if every client aborts after a failure, then however     *)
(* many of them share the key, and whichever of them completes or aborts   *)
(* whose upload, none is left open once they all have stopped, unless one  *)
(* was killed or could not abort.                                          *)
THEOREM NothingLeftCorrect == Spec => []NothingLeft
<1>1. Init => IInv /\ Rest /\ Apart /\ Attended
  <2> SUFFICES ASSUME Init PROVE Rest /\ Apart /\ Attended
    BY InitInv
  <2>1. DOMAIN open = {}
    BY DEF Init
  <2>2. Apart /\ Attended
    BY <2>1 DEF Apart, Attended
  <2>3. Rest
    BY DEF Init, Rest
  <2>4. QED
    BY <2>2, <2>3
<1>2. IInv /\ Rest /\ Apart /\ Attended /\ [Next]_vars
        => (IInv /\ Rest /\ Apart /\ Attended)'
  <2> SUFFICES ASSUME IInv, Rest, Apart, Attended, [Next]_vars
               PROVE  Rest' /\ Apart' /\ Attended'
    BY StepInv
  <2>1. CASE UNCHANGED vars
    BY <2>1 DEF vars, Rest, Apart, Attended, Attends
  <2>2. CASE Next
    BY <2>2, StepRest, AttendedStep DEF Next
  <2>3. QED
    BY <2>1, <2>2
<1>3. IInv /\ Rest /\ Apart /\ Attended => NothingLeft
  <2> SUFFICES ASSUME IInv, Attended, ~left, Aborting = Clients,
                      \A c \in Clients : pc[c] = "idle"
               PROVE  open = <<>>
    BY DEF NothingLeft
  <2>1. open \in Seq(Ids) /\ DOMAIN open = 1 .. Len(open) /\ Len(open) \in Nat
    BY DEF IInv, Types
  <2>2. DOMAIN open = {}
    BY DEF Attended, Attends
  <2>3. Len(open) = 0
    BY <2>1, <2>2
  <2>4. QED
    BY <2>1, <2>3, EmptySeq
<1>4. QED
  BY <1>1, <1>2, <1>3, PTL DEF Spec
-----------------------------------------------------------------------------
(* The receiver counts an event once, by its id.                           *)
Counted == \A e \in Events : applied[e] = IF <<e, 1>> \in seen THEN 1 ELSE 0

(* An answer of success is that of a receiver that has the event ...       *)
AnswersTrue == \A e \in Events : answer[e] = "ok" => applied[e] > 0

(* ... and a send that ends well has read one.                             *)
SendsTrue == \A e \in Events : at[e] = "told" => applied[e] > 0

(* Once the terminal event is under way the heartbeats are over.           *)
Quiet == at[End] # "new" => \A e \in Beats : at[e] \in Over

(* There is an attempt left for an announcement that is under way.         *)
Speaking ==
  /\ chat = "new" => tries = 0
  /\ chat = "posting" => tries < ChatAttempts

EventInv == EventTypeOK /\ Counted /\ AnswersTrue /\ SendsTrue /\ Quiet /\ Speaking

LEMMA EventFacts ==
  /\ End \in Events /\ Beats \subseteq Events /\ End \notin Beats
  /\ NBeats \in Nat /\ Attempts \in Nat /\ Attempts > 0
  /\ ChatAttempts \in Nat /\ ChatAttempts > 0
BY DeliveryAssumption DEF End, Events, Beats

LEMMA EventInitInv == EventInit => EventInv
<1> SUFFICES ASSUME EventInit PROVE EventInv
  OBVIOUS
<1>1. EventTypeOK
  BY EventFacts, DeliveryAssumption DEF EventInit, EventTypeOK
<1>2. QED
  BY <1>1, EventFacts DEF EventInit, EventInv, Counted, AnswersTrue, SendsTrue, Quiet, Speaking
-----------------------------------------------------------------------------
(* The steps of a send leave the receiver and the channel alone; they      *)
(* disturb what is said of at.                                             *)
Inside(e) ==
  /\ e \in Events
  /\ UNCHANGED <<link, seen, applied, told>>
  /\ \E s \in {"new", "ready", "posting", "pausing"} \cup Over :
       at' = [at EXCEPT ![e] = s]

LEMMA EventSendInv ==
  ASSUME EventInv, NEW e, Inside(e),
         attempt' \in [Events -> 1 .. Attempts],
         wire' \subseteq Request,
         answer' \in [Events -> {"none", "ok", "no", "again"}],
         \A d \in Events : answer'[d] \in {"none", answer[d]},
         at'[e] = "told" => applied[e] > 0,
         at[e] # "new",
         at[e] \in Over => at'[e] \in Over
  PROVE  EventInv'
<1>1. EventTypeOK'
  BY DEF EventInv, EventTypeOK, Inside, told, link
<1>2. Counted' /\ Speaking'
  BY DEF EventInv, Counted, Speaking, Inside, told
<1>3. AnswersTrue'
  BY DEF EventInv, AnswersTrue, Inside
<1>4. SendsTrue'
  BY DEF EventInv, EventTypeOK, SendsTrue, Inside
<1>5. Quiet'
  BY EventFacts DEF EventInv, EventTypeOK, Quiet, Inside
<1>6. QED
  BY <1>1, <1>2, <1>3, <1>4, <1>5 DEF EventInv

LEMMA SendStepInv ==
  ASSUME EventInv, NEW e \in Events, SendStep(e)
  PROVE  EventInv'
<1>1. CASE Post(e)
  <2>1. [event |-> e, number |-> attempt[e]] \in Request
    BY DEF EventInv, EventTypeOK, Request
  <2>2. Inside(e) /\ at[e] = "ready" /\ at'[e] = "posting"
    BY <1>1 DEF Post, Inside, EventInv, EventTypeOK
  <2>3. QED
    BY <1>1, <2>1, <2>2, EventSendInv DEF Post, EventInv, EventTypeOK, Over
<1>2. CASE Read(e)
  <2>1. answer[e] = "ok" => applied[e] > 0
    BY DEF EventInv, AnswersTrue
  <2>2. Inside(e) /\ at[e] = "posting" /\ (at'[e] = "told" => applied[e] > 0)
    BY <1>2, <2>1 DEF Read, Again, Landed, Inside, Over, EventInv, EventTypeOK, far
  <2>3. QED
    BY <1>2, <2>2, EventSendInv DEF Read, EventInv, EventTypeOK, Over, far
<1>3. CASE Breaks(e)
  <2>1. Inside(e) /\ at[e] = "posting" /\ at'[e] # "told"
    BY <1>3 DEF Breaks, Again, Inside, Over, EventInv, EventTypeOK, far
  <2>2. QED
    BY <1>3, <2>1, EventSendInv DEF Breaks, EventInv, EventTypeOK, Over, far
<1>4. CASE Resume(e)
  <2>1. attempt' \in [Events -> 1 .. Attempts]
    BY <1>4, EventFacts DEF Resume, EventInv, EventTypeOK
  <2>2. Inside(e) /\ at[e] = "pausing" /\ at'[e] # "told"
    BY <1>4 DEF Resume, Inside, EventInv, EventTypeOK, far
  <2>3. QED
    BY <1>4, <2>1, <2>2, EventSendInv DEF Resume, EventInv, EventTypeOK, Over, far
<1>5. QED
  BY <1>1, <1>2, <1>3, <1>4 DEF SendStep

LEMMA DueInv ==
  ASSUME EventInv, NEW e \in Events, Due(e)
  PROVE  EventInv'
<1>1. /\ e \in Beats /\ at[End] = "new"
      /\ UNCHANGED <<link, attempt, far, answer, told>>
      /\ at' = [at EXCEPT ![e] = IF linked THEN "ready" ELSE "silent"]
  BY DEF Due
<1>2. at'[End] = "new"
  BY <1>1, EventFacts DEF EventInv, EventTypeOK
<1>3. EventTypeOK'
  BY <1>1 DEF EventInv, EventTypeOK, Over, link, far, told
<1>4. SendsTrue'
  BY <1>1 DEF EventInv, EventTypeOK, SendsTrue, far
<1>5. QED
  BY <1>1, <1>2, <1>3, <1>4
     DEF EventInv, Counted, AnswersTrue, Quiet, Speaking, far, told

(* hb.cancel() leaves no heartbeat under way.                              *)
LEMMA JobEndsInv ==
  ASSUME EventInv, JobEnds
  PROVE  EventInv'
<1>1. /\ UNCHANGED <<link, attempt, far, answer, told>>
      /\ at' \in [Events -> {"new", "ready", "posting", "pausing"} \cup Over]
      /\ \A e \in Beats : at'[e] = IF at[e] \notin Over THEN "canceled" ELSE at[e]
      /\ at'[End] \in {"ready", "silent"}
  BY EventFacts DEF JobEnds, CanceledBeats, EventInv, EventTypeOK, Over
<1>2. EventTypeOK'
  BY <1>1 DEF EventInv, EventTypeOK, link, far, told
<1>3. \A e \in Events : at'[e] = "told" => at[e] = "told"
  BY <1>1, EventFacts DEF Events, Over
<1>4. SendsTrue' /\ Quiet'
  BY <1>1, <1>3 DEF EventInv, SendsTrue, Quiet, Over, far
<1>5. QED
  BY <1>1, <1>2, <1>4 DEF EventInv, Counted, AnswersTrue, Speaking, far, told

(* The receiver: what it answers "ok" it has.                              *)
LEMMA ReceiveInv ==
  ASSUME EventInv, NEW q \in wire, Receive(q)
  PROVE  EventInv'
<1>1. /\ q \in Request /\ q.event \in Events
      /\ UNCHANGED <<link, out, told>>
      /\ wire' \subseteq Request
  BY DEF Receive, EventInv, EventTypeOK, Request
<1>2. CASE TakeIn(q)
  <2>1. /\ seen' = seen \cup {<<q.event, 1>>}
        /\ applied' = IF <<q.event, 1>> \in seen THEN applied
                        ELSE [applied EXCEPT ![q.event] = @ + 1]
        /\ \E a \in {"ok", "again"} : Reply(q, a)
    BY <1>2 DEF TakeIn, Id
  <2>2. PICK a \in {"ok", "again"} : Reply(q, a)
    BY <2>1
  <2>3. Counted'
    <3> SUFFICES ASSUME NEW e \in Events
                 PROVE  applied'[e] = IF <<e, 1>> \in seen' THEN 1 ELSE 0
      BY DEF Counted
    <3>1. /\ applied[e] = IF <<e, 1>> \in seen THEN 1 ELSE 0
          /\ applied[q.event] = IF <<q.event, 1>> \in seen THEN 1 ELSE 0
      BY <1>1 DEF EventInv, Counted
    <3>2. <<e, 1>> \in seen' <=> <<e, 1>> \in seen \/ e = q.event
      BY <2>1
    <3>3. applied'[e] = IF e = q.event /\ <<e, 1>> \notin seen
                          THEN applied[e] + 1 ELSE applied[e]
      BY <1>1, <2>1 DEF EventInv, EventTypeOK
    <3>4. QED
      BY <3>1, <3>2, <3>3
  <2>4. applied'[q.event] = 1 /\ \A e \in Events : applied[e] > 0 => applied'[e] > 0
    BY <1>1, <2>1, <2>3 DEF EventInv, EventTypeOK, Counted
  <2>5. applied' \in [Events -> 0 .. Attempts]
    BY <1>1, <2>1, EventFacts DEF EventInv, EventTypeOK, Counted
  <2>6. /\ answer' \in [Events -> {"none", "ok", "no", "again"}]
        /\ \A e \in Events : e # q.event => answer'[e] = answer[e]
    BY <1>1, <2>2 DEF Reply, EventInv, EventTypeOK
  <2>7. EventTypeOK'
    BY <1>1, <2>5, <2>6 DEF EventInv, EventTypeOK, link, out, told
  <2>8. AnswersTrue' /\ SendsTrue'
    BY <1>1, <2>4, <2>6 DEF EventInv, AnswersTrue, SendsTrue, out
  <2>9. QED
    BY <1>1, <2>3, <2>7, <2>8 DEF EventInv, Quiet, Speaking, out, told
<1>3. CASE TurnAway(q)
  <2>1. PICK a \in {"no", "again"} : Reply(q, a)
    BY <1>3 DEF TurnAway
  <2>2. UNCHANGED <<seen, applied>>
    BY <1>3 DEF TurnAway
  <2>3. /\ answer' \in [Events -> {"none", "ok", "no", "again"}]
        /\ \A e \in Events : answer'[e] = "ok" => answer[e] = "ok"
    BY <1>1, <2>1 DEF Reply, EventInv, EventTypeOK
  <2>4. EventTypeOK'
    BY <1>1, <2>2, <2>3 DEF EventInv, EventTypeOK, link, out, told
  <2>5. QED
    BY <1>1, <2>2, <2>3, <2>4
       DEF EventInv, Counted, AnswersTrue, SendsTrue, Quiet, Speaking, out, told
<1>4. QED
  BY <1>2, <1>3 DEF Receive

LEMMA LoseInv ==
  ASSUME EventInv, NEW q \in wire, Lose(q)
  PROVE  EventInv'
BY DEF Lose, EventInv, EventTypeOK, Counted, AnswersTrue, SendsTrue, Quiet, Speaking,
       link, out, told

LEMMA CallInv ==
  ASSUME EventInv, Announce \/ Say \/ Return
  PROVE  EventInv'
<1>1. UNCHANGED <<link, out, far, answer>>
  BY DEF Announce, Say, Return
<1>2. /\ chat' \in {"new", "posting", "said", "unsaid", "skipped"}
      /\ tries' \in 0 .. ChatAttempts
      /\ result' \in {"none", "told", "untold"}
      /\ Speaking'
  <2>1. CASE Announce
    BY <2>1, EventFacts DEF Announce, EventInv, EventTypeOK, Speaking
  <2>2. CASE Say
    BY <2>2, EventFacts DEF Say, MoreSayings, EventInv, EventTypeOK, Speaking
  <2>3. CASE Return
    BY <2>3 DEF Return, Verdict, EventInv, EventTypeOK, Speaking
  <2>4. QED
    BY <2>1, <2>2, <2>3
<1>3. EventTypeOK'
  BY <1>1, <1>2 DEF EventInv, EventTypeOK, link, out, far
<1>4. QED
  BY <1>1, <1>2, <1>3 DEF EventInv, Counted, AnswersTrue, SendsTrue, Quiet, out, far

LEMMA EventStepInv == EventInv /\ [EventNext]_eventVars => EventInv'
<1> SUFFICES ASSUME EventInv, [EventNext]_eventVars PROVE EventInv'
  OBVIOUS
<1>1. CASE UNCHANGED eventVars
  BY <1>1 DEF eventVars, EventInv, EventTypeOK, Counted, AnswersTrue, SendsTrue, Quiet, Speaking,
              link, out, far, told
<1>2. CASE JobEnds \/ Announce \/ Say \/ Return
  BY <1>2, JobEndsInv, CallInv
<1>3. CASE \E e \in Events : Due(e) \/ SendStep(e)
  BY <1>3, DueInv, SendStepInv
<1>4. CASE \E q \in wire : Receive(q) \/ Lose(q)
  BY <1>4, ReceiveInv, LoseInv
<1>5. QED
  BY <1>1, <1>2, <1>3, <1>4 DEF EventNext

LEMMA EventInvCorrect == EventSpec => []EventInv
BY EventInitInv, EventStepInv, PTL DEF EventSpec
-----------------------------------------------------------------------------
(* Type correctness: no event is sent more often than its attempts allow,  *)
(* and no announcement either.                                             *)
THEOREM EventTypeCorrect == EventSpec => []EventTypeOK
<1>1. EventInv => EventTypeOK
  BY DEF EventInv
<1>2. QED
  BY <1>1, EventInvCorrect, PTL

(* clientEventId: whatever is lost, late or sent again, the receiver takes *)
(* an event in at most once.                                               *)
THEOREM TakenInOnce == EventSpec => [](\A e \in Events : applied[e] <= 1)
<1>1. EventInv => \A e \in Events : applied[e] <= 1
  <2> SUFFICES ASSUME EventInv, NEW e \in Events PROVE applied[e] <= 1
    OBVIOUS
  <2>1. applied[e] = 1 \/ applied[e] = 0
    BY DEF EventInv, Counted
  <2>2. QED
    BY <2>1
<1>2. QED
  BY <1>1, EventInvCorrect, PTL

(* hb.cancel() before the report: BeatsStop.                               *)
LEMMA BeatsStep ==
  ASSUME EventInv, [EventNext]_eventVars, NEW e \in Beats, at[e] = "ready", at'[e] = "posting"
  PROVE  at[End] = "new"
BY DEF EventInv, Quiet, Over

(* hb.cancel() in _run: no request of a heartbeat begins after the call    *)
(* for the terminal event.                                                 *)
THEOREM BeatsStopCorrect == EventSpec => BeatsStop
<1>1. EventInv /\ [EventNext]_eventVars
        => [\A e \in Beats : at[e] = "ready" /\ at'[e] = "posting" => at[End] = "new"]_at
  BY BeatsStep
<1>2. QED
  BY <1>1, EventInvCorrect, PTL DEF EventSpec, BeatsStop

(* What the run that ended the job is told is true: the call implements    *)
(* Reported (KeepsPromise).  The receiver hears when it takes the terminal *)
(* event in, the call answers when it returns, all else is a stutter.      *)
LEMMA PromiseStep ==
  ASSUME EventInv, [EventNext]_eventVars
  PROVE  [Promise!Hear \/ Promise!Answer]_<<applied[End] > 0, result>>
<1>1. CASE UNCHANGED eventVars
  BY <1>1 DEF eventVars, far, told
<1>2. CASE JobEnds \/ Announce \/ Say
  BY <1>2 DEF JobEnds, Announce, Say, far, told
<1>3. CASE Return
  <2>1. result = "none" /\ result' = Verdict /\ UNCHANGED applied
    BY <1>3 DEF Return, far
  <2>2. Verdict = "told" => applied[End] > 0
    BY EventFacts DEF Verdict, EventInv, SendsTrue
  <2>3. Verdict \in {"told", "untold"}
    BY DEF Verdict
  <2>4. Promise!Answer
    BY <2>1, <2>2, <2>3 DEF Promise!Answer
  <2>5. QED
    BY <2>4
<1>4. CASE \E e \in Events : Due(e) \/ SendStep(e)
  <2>1. UNCHANGED <<applied, result>>
    BY <1>4 DEF Due, SendStep, Post, Read, Breaks, Resume, far, told
  <2>2. QED
    BY <2>1
<1>5. CASE \E q \in wire : Receive(q) \/ Lose(q)
  <2>1. UNCHANGED result
    BY <1>5 DEF Receive, Lose, told
  <2>2. applied[End] > 0 => applied'[End] > 0
    <3>1. PICK q \in wire : Receive(q) \/ Lose(q)
      BY <1>5
    <3>2. applied[End] \in Nat /\ q.event \in Events
      BY EventFacts DEF EventInv, EventTypeOK, Request
    <3>3. \/ UNCHANGED applied
          \/ applied' = [applied EXCEPT ![q.event] = applied[q.event] + 1]
      BY <3>1 DEF Receive, Lose, TakeIn, TurnAway
    <3>4. QED
      BY <3>2, <3>3, EventFacts DEF EventInv, EventTypeOK
  <2>3. QED
    BY <2>1, <2>2 DEF Promise!Hear
<1>6. QED
  BY <1>1, <1>2, <1>3, <1>4, <1>5 DEF EventNext

(* What the call says of an event is true of the receiver, whatever became *)
(* of the requests and of their answers: it implements Reported.           *)
THEOREM KeepsPromiseCorrect == EventSpec => KeepsPromise
<1>1. EventInit => Promise!Init
  BY EventFacts DEF EventInit, Promise!Init
<1>2. EventInv /\ [EventNext]_eventVars
        => [Promise!Hear \/ Promise!Answer]_<<applied[End] > 0, result>>
  BY PromiseStep
<1>3. QED
  BY <1>1, <1>2, EventInvCorrect, PTL DEF EventSpec, KeepsPromise, Promise!Spec
=============================================================================

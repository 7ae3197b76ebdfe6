------------------------------- MODULE R2Upload -------------------------------
(***************************************************************************)
(* r2.upload and r2.abort_uploads: a file is sent to one key in parts,     *)
(* into a multipart upload that is taken up again when an earlier run left *)
(* one open; the object appears when the upload is completed.              *)
(*                                                                         *)
(* Several clients (pods, people) may write one key.  R2 itself is modelled *)
(* by what this code relies on: it keeps the parts of an open upload, and  *)
(* completes one only from the parts whose ETags it is given.              *)
(***************************************************************************)
EXTENDS Naturals, Sequences, SequencesExt

CONSTANTS
  Clients,
  Aborting,   \* those that abort after a failure: the job server's
  Sources,    \* the contents a local file may have
  Plan,       \* Plan[s]: the lengths of the parts s is sent in (_plan_parts)
  Ids,        \* upload ids
  Env,        \* {"kill"}: clients may die
  NoSource, NoId, NoObject

ASSUME UploadAssumption ==
  /\ Aborting \subseteq Clients
  /\ \A s \in Sources : Plan[s] \in Seq(Nat) /\ Plan[s] # <<>>
  /\ NoSource \notin Sources
  /\ NoId \notin Ids
  /\ Env \subseteq {"kill"}

Parts(s) == 1 .. Len(Plan[s])

Numbers == UNION {Parts(s) : s \in Sources}

(* What is known of each part: the content it was cut from, which is what  *)
(* its ETag identifies.                                                    *)
Cuts == [Numbers -> Sources \cup {NoSource}]
NoCuts == [n \in Numbers |-> NoSource]

VARIABLES
  open,    \* the open uploads of the key, in the order they were initiated
  parts,   \* parts[u]: the parts of upload u that are on R2
  object,  \* the object: the content it was meant to be and its parts
  pc,      \* where client c is
  src,     \* the file it sends
  id,      \* upload_id
  etags,   \* etags[c]: the parts it found or sent
  failed,  \* the parts it gave up
  left     \* history: a client was killed or could not abort

vars == <<open, parts, object, pc, src, id, etags, failed, left>>

PCs == {"idle", "putting", "finding", "creating", "listing", "sending",
        "completing", "aborting"}

Object == [of: Sources, parts: Cuts]

ASSUME NoObjectAssumption == NoObject \notin Object

TypeOK ==
  /\ open \in Seq(Ids)
  /\ parts \in [Ids -> Cuts]
  /\ object \in Object \cup {NoObject}
  /\ pc \in [Clients -> PCs]
  /\ src \in [Clients -> Sources \cup {NoSource}]
  /\ id \in [Clients -> Ids \cup {NoId}]
  /\ etags \in [Clients -> Cuts]
  /\ failed \in [Clients -> SUBSET Numbers]
  /\ left \in BOOLEAN
  /\ \A c \in Clients :
       /\ src[c] = NoSource <=> pc[c] \in {"idle", "aborting"}
       /\ pc[c] \in {"listing", "sending", "completing"} => id[c] \in Ids

Init ==
  /\ open = <<>>
  /\ parts = [u \in Ids |-> NoCuts]
  /\ object = NoObject
  /\ pc = [c \in Clients |-> "idle"]
  /\ src = [c \in Clients |-> NoSource]
  /\ id = [c \in Clients |-> NoId]
  /\ etags = [c \in Clients |-> NoCuts]
  /\ failed = [c \in Clients |-> {}]
  /\ left = FALSE
-----------------------------------------------------------------------------
Go(c, to) == pc' = [pc EXCEPT ![c] = to]

(* The end of an upload: what the client knew of it is gone.               *)
Leave(c, to) ==
  /\ Go(c, to)
  /\ src' = [src EXCEPT ![c] = NoSource]
  /\ id' = [id EXCEPT ![c] = NoId]
  /\ etags' = [etags EXCEPT ![c] = NoCuts]
  /\ failed' = [failed EXCEPT ![c] = {}]

(* Variant: nobody aborts.                                                 *)
AfterFailureIdle(c) == "idle"

AfterFailure(c) == IF c \in Aborting THEN "aborting" ELSE "idle"

(* A file of one part goes in a single request.                            *)
Start(c, s) ==
  /\ pc[c] = "idle"
  /\ src' = [src EXCEPT ![c] = s]
  /\ Go(c, IF Len(Plan[s]) = 1 THEN "putting" ELSE "finding")
  /\ UNCHANGED <<open, parts, object, id, etags, failed, left>>

Put(c) ==
  /\ pc[c] = "putting"
  /\ object' = [of |-> src[c], parts |-> [NoCuts EXCEPT ![1] = src[c]]]
  /\ Leave(c, "idle")
  /\ UNCHANGED <<open, parts, left>>

(* _find_open_upload: the newest of the open uploads.                      *)
Find(c) ==
  /\ pc[c] = "finding"
  /\ IF open = <<>> THEN Go(c, "creating") /\ UNCHANGED id
                    ELSE Go(c, "listing") /\ id' = [id EXCEPT ![c] = Last(open)]
  /\ UNCHANGED <<open, parts, object, src, etags, failed, left>>

Create(c) ==
  \E u \in Ids :
    /\ pc[c] = "creating"
    /\ \A i \in DOMAIN open : open[i] # u
    /\ \A d \in Clients : id[d] # u
    /\ open' = Append(open, u)
    /\ id' = [id EXCEPT ![c] = u]
    /\ Go(c, "sending")
    /\ UNCHANGED <<parts, object, src, etags, failed, left>>

IsOpen(u) == \E i \in DOMAIN open : open[i] = u

(* Variant: every part with a number of the plan is kept.                  *)
ReusableAny(u, s) ==
  [n \in Numbers |-> IF n \in Parts(s) THEN parts[u][n] ELSE NoSource]

(* _reusable_parts: those of the length this run would send.               *)
Reusable(u, s) ==
  [n \in Numbers |->
     IF /\ n \in Parts(s)
        /\ parts[u][n] # NoSource
        /\ Plan[parts[u][n]][n] = Plan[s][n]
       THEN parts[u][n] ELSE NoSource]

List(c) ==
  /\ pc[c] = "listing"
  /\ IsOpen(id[c])
  /\ etags' = [etags EXCEPT ![c] = Reusable(id[c], src[c])]
  /\ Go(c, "sending")
  /\ UNCHANGED <<open, parts, object, src, id, failed, left>>
-----------------------------------------------------------------------------
(* The parts a worker may still take, in any order.  A failure does not    *)
(* cancel the others: the pool sends what is left before upload() ends.    *)
Todo(c) == {n \in Parts(src[c]) : etags[c][n] = NoSource} \ failed[c]

(* UploadPart: the part takes the place of one with its number.            *)
Send(c, n) ==
  /\ pc[c] = "sending"
  /\ n \in Todo(c)
  /\ IsOpen(id[c])
  /\ parts' = [parts EXCEPT ![id[c]][n] = src[c]]
  /\ etags' = [etags EXCEPT ![c][n] = src[c]]
  /\ UNCHANGED <<open, object, pc, src, id, failed, left>>

(* The part arrives and the answer does not: an attempt to be repeated.    *)
SendUnheard(c, n) ==
  /\ pc[c] = "sending"
  /\ n \in Todo(c)
  /\ IsOpen(id[c])
  /\ parts' = [parts EXCEPT ![id[c]][n] = src[c]]
  /\ UNCHANGED <<open, object, pc, src, id, etags, failed, left>>

(* After its attempts (the upload is gone, or the network is) it gives up. *)
GiveUp(c, n) ==
  /\ pc[c] = "sending"
  /\ n \in Todo(c)
  /\ failed' = [failed EXCEPT ![c] = @ \cup {n}]
  /\ UNCHANGED <<open, parts, object, pc, src, id, etags, left>>

Sent(c) ==
  /\ pc[c] = "sending"
  /\ Todo(c) = {}
  /\ failed[c] = {}
  /\ Go(c, "completing")
  /\ UNCHANGED <<open, parts, object, src, id, etags, failed, left>>

(* A part that is not there any more, or is another one under that number, *)
(* is refused.                                                             *)
Acceptable(c) ==
  /\ IsOpen(id[c])
  /\ \A n \in Parts(src[c]) : parts[id[c]][n] = etags[c][n]

(* An upload is completed or aborted: its parts are gone.                  *)
Close(u) ==
  /\ \E i \in DOMAIN open : open[i] = u /\ open' = RemoveAt(open, i)
  /\ parts' = [parts EXCEPT ![u] = NoCuts]

(* The upload becomes the object; the client may or may not hear of it.    *)
Complete(c) ==
  /\ pc[c] = "completing"
  /\ Acceptable(c)
  /\ object' = [of |-> src[c], parts |-> etags[c]]
  /\ Close(id[c])
  /\ \/ Leave(c, "idle")
     \/ Leave(c, AfterFailure(c))
  /\ UNCHANGED left

(* A request fails, or parts were given up: upload() raises.               *)
Fail(c) ==
  /\ \/ pc[c] \in {"putting", "finding", "creating", "listing", "completing"}
     \/ pc[c] = "sending" /\ Todo(c) = {} /\ failed[c] # {}
  /\ Leave(c, AfterFailure(c))
  /\ UNCHANGED <<open, parts, object, left>>

(* abort_uploads: the newest open upload is dropped, until there is none.  *)
Abort(c) ==
  /\ pc[c] = "aborting"
  /\ IF open = <<>> THEN Go(c, "idle") /\ UNCHANGED <<open, parts>>
                    ELSE Close(Last(open)) /\ UNCHANGED pc
  /\ UNCHANGED <<object, src, id, etags, failed, left>>

(* _abort_upload swallows its errors; a process that dies aborts nothing.  *)
AbortFails(c) ==
  /\ "kill" \in Env
  /\ pc[c] = "aborting"
  /\ Go(c, "idle")
  /\ left' = TRUE
  /\ UNCHANGED <<open, parts, object, src, id, etags, failed>>

Kill(c) ==
  /\ "kill" \in Env
  /\ pc[c] # "idle"
  /\ Leave(c, "idle")
  /\ left' = TRUE
  /\ UNCHANGED <<open, parts, object>>
-----------------------------------------------------------------------------
ClientStep(c) ==
  \/ Put(c) \/ Find(c) \/ Create(c) \/ List(c)
  \/ \E n \in Numbers : Send(c, n) \/ SendUnheard(c, n) \/ GiveUp(c, n)
  \/ Sent(c) \/ Complete(c) \/ Fail(c)
  \/ Abort(c) \/ AbortFails(c) \/ Kill(c)

Next == \E c \in Clients :
          \/ \E s \in Sources : Start(c, s)
          \/ ClientStep(c)

Spec == Init /\ [][Next]_vars
-----------------------------------------------------------------------------
(* Part n of content t is of the length that part n of s has.              *)
Fits(n, t, s) == /\ t \in Sources
                 /\ n \in Parts(t) \cap Parts(s)
                 /\ Plan[t][n] = Plan[s][n]

(* _reusable_parts: the object has the parts of the file it was uploaded   *)
(* from, each of its length, whatever other uploads of the key were left,  *)
(* shared, aborted or completed under it.                                  *)
RightLengths == object # NoObject =>
  \A n \in Numbers :
    IF n \in Parts(object.of) THEN Fits(n, object.parts[n], object.of)
                              ELSE object.parts[n] = NoSource

(* _abort_upload: once no client is at work nothing is left open that      *)
(* would be billed and appear in no listing, unless a client was killed or *)
(* could not abort.                                                        *)
NothingLeft ==
  ~left /\ Aborting = Clients /\ (\A c \in Clients : pc[c] = "idle")
    => open = <<>>
=============================================================================

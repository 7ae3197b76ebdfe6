------------------------------ MODULE UrlDownload ------------------------------
(***************************************************************************)
(* transfer.download: the input of a job is fetched from a presigned URL   *)
(* over one connection into <dest>.part, which the next attempt, and the   *)
(* next call after a crash, takes up with a Range request.  The runner     *)
(* passes no refresh_url, and the dispatcher's sizeBytes when it has one.  *)
(*                                                                         *)
(* The server's answers, the breaks of the stream, the kills of the        *)
(* process and the owner of the object interleave with the steps.          *)
(***************************************************************************)
EXTENDS Download, Naturals, Sequences

CONSTANTS
  Size,        \* Size[v]: blocks of version v
  Known,       \* the values "the dispatcher sent sizeBytes" may have
  Attempts,    \* attempts of one call
  Ranges,      \* the values "the server honours Range" may have
  UrlEnv       \* what else may happen, see UrlSwitches

(* "swap": the object may change while bytes of it are on disk.            *)
(* "unframed": the body has neither length nor chunk framing, so an early  *)
(* end looks like the end.                                                 *)
UrlSwitches == {"swap", "unframed"}

Block == [version: Versions, index: Nat \ {0}]

Whole(v) == [i \in 1 .. Size[v] |-> [version |-> v, index |-> i]]

Wholes == {Whole(v) : v \in Versions}

ASSUME UrlDownloadAssumption ==
  /\ Versions \subseteq Nat
  /\ Size \in [Versions -> Nat \ {0}]
  /\ Known \subseteq BOOLEAN
  /\ Attempts \in Nat \ {0}
  /\ Ranges \subseteq BOOLEAN
  /\ MaxFaults \in Nat
  /\ UrlEnv \subseteq UrlSwitches
  /\ NoVersion \notin Versions
  /\ NoFile \notin Seq(Block)

VARIABLES
  urlObject,   \* the version the URL serves
  expected,    \* expected_size in blocks, 0 for None
  urlPart,     \* <dest>.part
  urlDest,     \* the finished file
  urlPc,       \* where the call is
  attempt,     \* the attempt it is in
  urlFrom,     \* the version the open response reads
  pos,         \* the blocks of it the response has gone past
  urlFaults

urlVars == <<urlObject, expected, urlPart, urlDest, urlPc, attempt, urlFrom, pos, urlFaults>>

UrlTypeOK ==
  /\ urlObject \in Versions
  /\ expected \in Nat
  /\ urlPart \in Seq(Block) \cup {NoFile}
  /\ urlDest \in Seq(Block) \cup {NoFile}
  /\ urlPc \in {"idle", "asking", "streaming", "replacing", "returned", "raised"}
  /\ attempt \in 1 .. Attempts
  /\ urlFrom \in Versions \cup {NoVersion}
  /\ pos \in Nat
  /\ urlFaults \in 0 .. MaxFaults
  /\ urlPc \in {"streaming", "replacing"} => urlFrom \in Versions /\ urlPart # NoFile
  /\ urlPc = "streaming" => pos <= Size[urlFrom]

UrlInit ==
  /\ urlObject \in Versions
  /\ \E k \in Known : expected = IF k THEN Size[urlObject] ELSE 0
  /\ urlPart = NoFile
  /\ urlDest = NoFile
  /\ urlPc = "idle"
  /\ attempt = 1
  /\ urlFrom = NoVersion
  /\ pos = 0
  /\ urlFaults = 0

----------------------------------------------------------------------------
(* The call. *)

have == IF urlPart = NoFile THEN 0 ELSE Len(urlPart)

UrlFault == urlFaults < MaxFaults /\ urlFaults' = urlFaults + 1

(* A call: a job's, or a later one's that finds the directory of an        *)
(* earlier job of its id.  A file of the right length is not fetched       *)
(* again; one whose length cannot be compared is.                          *)
UrlStart ==
  /\ urlPc \in {"idle", "returned", "raised"}
  /\ urlPc' = IF urlDest # NoFile /\ expected # 0 /\ Len(urlDest) = expected
                THEN "returned" ELSE "asking"
  /\ attempt' = 1
  /\ UNCHANGED <<urlObject, expected, urlPart, urlDest, urlFrom, pos, urlFaults>>

Replace ==
  /\ urlDest' = urlPart
  /\ urlPart' = NoFile
  /\ urlPc' = "returned"

(* Variant: the bytes on disk are not looked at before the request.        *)
HaveAllNever == FALSE

HaveAll == expected # 0 /\ have = expected

(* The top of an attempt: the earlier bytes are the file already. *)
AlreadyWhole ==
  /\ urlPc = "asking"
  /\ HaveAll
  /\ Replace
  /\ UNCHANGED <<urlObject, expected, attempt, urlFrom, pos, urlFaults>>

(* The except clause: the next attempt after a pause, or the end of the    *)
(* call.  What is on disk stays there.                                     *)
UrlRetry ==
  /\ urlPc' = IF attempt = Attempts THEN "raised" ELSE "asking"
  /\ attempt' = IF attempt = Attempts THEN attempt ELSE attempt + 1
  /\ UNCHANGED urlPart

MustAsk == urlPc = "asking" /\ ~HaveAll

(* No answer, or a status that is an error. *)
Refused ==
  /\ MustAsk
  /\ UrlFault
  /\ UrlRetry
  /\ UNCHANGED <<urlObject, expected, urlDest, urlFrom, pos>>

(* 416: there is nothing after the bytes on disk. *)
NotSatisfiable ==
  /\ MustAsk
  /\ TRUE \in Ranges
  /\ have > 0
  /\ have >= Size[urlObject]
  /\ UrlRetry
  /\ UNCHANGED <<urlObject, expected, urlDest, urlFrom, pos, urlFaults>>

(* 206: what comes continues the bytes on disk. *)
Partial ==
  /\ MustAsk
  /\ TRUE \in Ranges
  /\ have > 0
  /\ have < Size[urlObject]
  /\ urlPc' = "streaming"
  /\ urlFrom' = urlObject
  /\ pos' = have
  /\ UNCHANGED <<urlObject, expected, urlPart, urlDest, attempt, urlFaults>>

(* 200: the whole object comes, so what is on disk goes. *)
Complete ==
  /\ MustAsk
  /\ have = 0 \/ FALSE \in Ranges
  /\ urlPc' = "streaming"
  /\ urlFrom' = urlObject
  /\ pos' = 0
  /\ urlPart' = << >>
  /\ UNCHANGED <<urlObject, expected, urlDest, attempt, urlFaults>>

Write ==
  /\ urlPc = "streaming"
  /\ pos < Size[urlFrom]
  /\ pos' = pos + 1
  /\ urlPart' = Append(urlPart, [version |-> urlFrom, index |-> pos + 1])
  /\ UNCHANGED <<urlObject, expected, urlDest, urlPc, attempt, urlFrom, urlFaults>>

(* The stream breaks, or a write fails. *)
Broken ==
  /\ urlPc = "streaming"
  /\ UrlFault
  /\ UrlRetry
  /\ UNCHANGED <<urlObject, expected, urlDest, urlFrom, pos>>

(* Variant: the length is not compared.                                    *)
EndOfStreamUnmeasured ==
  /\ urlPc' = "replacing"
  /\ UNCHANGED <<attempt, urlPart>>
  /\ UNCHANGED <<urlObject, expected, urlDest, urlFrom, pos>>

(* The stream is over, or looks so.  The length is compared when there is  *)
(* one to compare it with.                                                 *)
EndOfStream ==
  /\ IF expected # 0 /\ have # expected
       THEN UrlRetry
       ELSE urlPc' = "replacing" /\ UNCHANGED <<attempt, urlPart>>
  /\ UNCHANGED <<urlObject, expected, urlDest, urlFrom, pos>>

StreamEnds ==
  /\ urlPc = "streaming"
  /\ pos = Size[urlFrom]
  /\ EndOfStream
  /\ UNCHANGED urlFaults

Truncated ==
  /\ "unframed" \in UrlEnv
  /\ urlPc = "streaming"
  /\ pos < Size[urlFrom]
  /\ UrlFault
  /\ EndOfStream

Publish ==
  /\ urlPc = "replacing"
  /\ Replace
  /\ UNCHANGED <<urlObject, expected, attempt, urlFrom, pos, urlFaults>>

----------------------------------------------------------------------------
(* What happens to the call. *)

(* The server process dies; the files stay. *)
UrlKill ==
  /\ urlPc \in {"asking", "streaming", "replacing"}
  /\ UrlFault
  /\ urlPc' = "idle"
  /\ UNCHANGED <<urlObject, expected, urlPart, urlDest, attempt, urlFrom, pos>>

(* Another version is put under the URL. *)
Swap ==
  /\ urlPart = NoFile \/ "swap" \in UrlEnv
  /\ UrlFault
  /\ urlObject' \in Versions \ {urlObject}
  /\ UNCHANGED <<expected, urlPart, urlDest, urlPc, attempt, urlFrom, pos>>

Answered == Partial \/ Complete \/ NotSatisfiable

UrlNext ==
  \/ UrlStart \/ AlreadyWhole
  \/ Refused \/ NotSatisfiable \/ Partial \/ Complete
  \/ Write \/ Broken \/ StreamEnds \/ Truncated \/ Publish
  \/ UrlKill \/ Swap

UrlSpec == UrlInit /\ [][UrlNext]_urlVars
----------------------------------------------------------------------------
(* Properties. *)

(* Safety: what stands at the destination is one version of the object,    *)
(* complete and in order, whatever mix of attempts, crashes and answers    *)
(* without a range it was put together from (os.replace as the last step). *)
UrlPublishedWhole == urlDest # NoFile => urlDest \in Wholes

(* Safety: the bytes on disk stay good: no failed attempt, crash or new    *)
(* call takes any of them away.  They go only for an answer that brings    *)
(* the whole object, or by becoming the file.                              *)
BytesKept ==
  [][urlPart # NoFile =>
       \/ urlPart' # NoFile /\ have <= Len(urlPart') /\ SubSeq(urlPart', 1, have) = urlPart
       \/ urlPart' = << >> /\ urlPc' = "streaming" /\ pos' = 0
       \/ urlPart' = NoFile /\ urlDest' = urlPart]_urlVars

Delivery == INSTANCE Published WITH Wholes <- Wholes, Absent <- NoFile,
                                    file <- urlDest

(* Refinement: whoever waits for the file sees one step, from no file to a *)
(* complete one, and it is never taken away: the attempts, the .part and   *)
(* the end of a stream that only looks like one are invisible.             *)
Implements == Delivery!Spec
=============================================================================

----------------------------- MODULE EventDelivery -----------------------------
(***************************************************************************)
(* The events of one job on their way out (server/hooks.py): heartbeats    *)
(* while it runs, one terminal event when it has ended, each posted until  *)
(* it lands or is refused, and then a line in a chat channel.              *)
(*                                                                         *)
(* Requests and their answers may be lost, late or overtaken; the receiver *)
(* knows an event it has taken in by its id.  This is one call of terminal *)
(* for the job; what a run does when that call raises is in JobServer      *)
(* (TellRaises).                                                           *)
(***************************************************************************)
EXTENDS Naturals

CONSTANTS
  NBeats,        \* heartbeats that fall due while the job runs
  Attempts,      \* MAX_ATTEMPTS
  ChatAttempts,  \* MEZON_ATTEMPTS
  Linked,        \* the values "the job names a control plane" may have
  Chatty,        \* the values "a chat channel is configured" may have
  Raising        \* posting may raise what is no httpx.HTTPError, such as
                 \* the httpx.InvalidURL of a base URL that is none

Beats == 1 .. NBeats

(* The terminal event. *)
End == NBeats + 1

Events == Beats \cup {End}

ASSUME DeliveryAssumption ==
  /\ NBeats \in Nat
  /\ Attempts \in Nat \ {0} /\ ChatAttempts \in Nat \ {0}
  /\ Linked \subseteq BOOLEAN /\ Chatty \subseteq BOOLEAN
  /\ Raising \in BOOLEAN

VARIABLES
  linked, chatty,
  at,        \* at[e]: where the send of e is
  attempt,   \* attempt[e]: the request it is at
  wire,      \* requests the receiver has not seen yet
  seen,      \* the ids the receiver has seen
  applied,   \* applied[e]: how often it has taken e in
  answer,    \* answer[e]: the answer to the request e is at
  chat,      \* where the announcement is
  tries,     \* its requests so far
  result     \* what the call for the terminal event returned

link == <<linked, chatty>>
out  == <<at, attempt>>
far  == <<wire, seen, applied>>
told == <<chat, tries, result>>
eventVars == <<link, out, far, answer, told>>

Over == {"told", "refused", "silent", "raised", "canceled"}

Request == [event: Events, number: 1 .. Attempts]

EventTypeOK ==
  /\ linked \in BOOLEAN /\ chatty \in BOOLEAN
  /\ at \in [Events -> {"new", "ready", "posting", "pausing"} \cup Over]
  /\ attempt \in [Events -> 1 .. Attempts]
  /\ wire \subseteq Request
  /\ applied \in [Events -> 0 .. Attempts]
  /\ answer \in [Events -> {"none", "ok", "no", "again"}]
  /\ chat \in {"new", "posting", "said", "unsaid", "skipped"}
  /\ tries \in 0 .. ChatAttempts
  /\ result \in {"none", "told", "untold"}

EventInit ==
  /\ linked \in Linked /\ chatty \in Chatty
  /\ at = [e \in Events |-> "new"]
  /\ attempt = [e \in Events |-> 1]
  /\ wire = {} /\ seen = {}
  /\ applied = [e \in Events |-> 0]
  /\ answer = [e \in Events |-> "none"]
  /\ chat = "new" /\ tries = 0
  /\ result = "none"
-----------------------------------------------------------------------------
(* The pod's side of one event.                                            *)

(* The heartbeat task sends one event after the other.                     *)
Due(e) ==
  /\ e \in Beats
  /\ at[End] = "new"
  /\ at[e] = "new"
  /\ \A d \in Beats : d < e => at[d] \in Over
  /\ at' = [at EXCEPT ![e] = IF linked THEN "ready" ELSE "silent"]
  /\ UNCHANGED <<link, attempt, far, answer, told>>

(* Variant: the heartbeat task is left to itself.                          *)
UncanceledBeats == at

(* hb.cancel(): whatever the task was waiting for, it sends no more.       *)
CanceledBeats ==
  [e \in Events |-> IF e \in Beats /\ at[e] \notin Over THEN "canceled" ELSE at[e]]

(* The job has ended; nothing is awaited between the cancel and the send.  *)
JobEnds ==
  /\ at[End] = "new"
  /\ at' = [CanceledBeats EXCEPT ![End] = IF linked THEN "ready" ELSE "silent"]
  /\ UNCHANGED <<link, attempt, far, answer, told>>

Post(e) ==
  /\ at[e] = "ready"
  /\ at' = [at EXCEPT ![e] = "posting"]
  /\ wire' = wire \cup {[event |-> e, number |-> attempt[e]]}
  /\ answer' = [answer EXCEPT ![e] = "none"]
  /\ UNCHANGED <<link, attempt, seen, applied, told>>

(* Variant: an answer that is no refusal will do.                          *)
LandedUnlessRefused(a) == a \in {"ok", "again"}

Landed(a) == a = "ok"

(* A pause, or the end when the attempts are used up.                      *)
Again(e) ==
  at' = [at EXCEPT ![e] = IF attempt[e] < Attempts THEN "pausing" ELSE "silent"]

(* A 4xx is a decision, except 429.                                        *)
Read(e) ==
  /\ at[e] = "posting"
  /\ answer[e] # "none"
  /\ \/ Landed(answer[e]) /\ at' = [at EXCEPT ![e] = "told"]
     \/ answer[e] = "no" /\ at' = [at EXCEPT ![e] = "refused"]
     \/ ~Landed(answer[e]) /\ answer[e] # "no" /\ Again(e)
  /\ UNCHANGED <<link, attempt, far, answer, told>>

(* httpx.HTTPError: no connection, no answer in time, or half of one.      *)
(* Anything else leaves send, and with it the heartbeat, or terminal with  *)
(* the announcement still to be made.                                      *)
Breaks(e) ==
  /\ at[e] = "posting"
  /\ \/ Again(e)
     \/ Raising /\ at' = [at EXCEPT ![e] = "raised"]
  /\ UNCHANGED <<link, attempt, far, answer, told>>

Resume(e) ==
  /\ at[e] = "pausing"
  /\ at' = [at EXCEPT ![e] = "ready"]
  /\ attempt' = [attempt EXCEPT ![e] = IF @ < Attempts THEN @ + 1 ELSE @]
  /\ UNCHANGED <<link, far, answer, told>>
-----------------------------------------------------------------------------
(* The receiver's side.                                                    *)

(* clientEventId is made once, before the first request.                   *)
Id(q) == <<q.event, 1>>

(* An answer is read by a send that still waits for it, or lost.           *)
Reply(q, a) ==
  \/ UNCHANGED answer
  \/ /\ at[q.event] = "posting" /\ attempt[q.event] = q.number
     /\ answer' = [answer EXCEPT ![q.event] = a]

(* Taken in, and answered with success or with what a proxy makes of it;   *)
(* an event it knows is answered and not taken in again.                   *)
TakeIn(q) ==
  /\ seen' = seen \cup {Id(q)}
  /\ applied' = IF Id(q) \in seen THEN applied
                                  ELSE [applied EXCEPT ![q.event] = @ + 1]
  /\ \E a \in {"ok", "again"} : Reply(q, a)

TurnAway(q) ==
  /\ \E a \in {"no", "again"} : Reply(q, a)
  /\ UNCHANGED <<seen, applied>>

Receive(q) ==
  /\ q \in wire
  /\ wire' = wire \ {q}
  /\ TakeIn(q) \/ TurnAway(q)
  /\ UNCHANGED <<link, out, told>>

Lose(q) ==
  /\ q \in wire
  /\ wire' = wire \ {q}
  /\ UNCHANGED <<link, out, seen, applied, answer, told>>
-----------------------------------------------------------------------------
(* The rest of the call for the terminal event.                            *)

(* Variant: what did not reach the control plane is not announced.         *)
AnnouncedIfTold == at[End] = "told"

(* The two destinations fail separately, but for a send that raises.       *)
Announced == at[End] \in {"told", "refused", "silent"}

Announce ==
  /\ Announced
  /\ chat = "new"
  /\ chat' = IF chatty THEN "posting" ELSE "skipped"
  /\ UNCHANGED <<link, out, far, answer, tries, result>>

MoreSayings(n) == n < ChatAttempts

(* One request to the channel: it is shown there or not, and whatever      *)
(* comes back, or is raised, ends in one of three ways.                    *)
Say ==
  /\ chat = "posting"
  /\ tries' = tries + 1
  /\ chat' \in {"said", "unsaid"}
                 \cup (IF MoreSayings(tries') THEN {"posting"} ELSE {})
  /\ UNCHANGED <<link, out, far, answer, result>>

(* Variant: the call returns what became of the announcement.              *)
VerdictOfChat == IF chat = "said" THEN "told" ELSE "untold"

Verdict == IF at[End] = "told" THEN "told" ELSE "untold"

Return ==
  /\ chat \in {"said", "unsaid", "skipped"}
  /\ result = "none"
  /\ result' = Verdict
  /\ UNCHANGED <<link, out, far, answer, chat, tries>>
-----------------------------------------------------------------------------
SendStep(e) == Post(e) \/ Read(e) \/ Breaks(e) \/ Resume(e)

CallStep == SendStep(End) \/ Announce \/ Say \/ Return

EventNext ==
  \/ JobEnds \/ Announce \/ Say \/ Return
  \/ \E e \in Events : Due(e) \/ SendStep(e)
  \/ \E q \in wire : Receive(q) \/ Lose(q)

EventSpec == EventInit /\ [][EventNext]_eventVars

(* The call goes on: every request has a timeout, every pause ends.        *)
FairEventSpec == EventSpec /\ WF_eventVars(JobEnds) /\ WF_eventVars(CallStep)
-----------------------------------------------------------------------------
(* Properties.                                                             *)

Promise == INSTANCE Reported WITH heard <- applied[End] > 0, answer <- result

(* Refinement: whatever is lost, late, refused or sent twice, the run that *)
(* ended a job is told "reported" only if the control plane knows, and it  *)
(* is told once.                                                           *)
KeepsPromise == Promise!Spec

(* hb.cancel() before the report: once a request of the terminal event is  *)
(* out, no heartbeat that says the job is running is sent after it.        *)
BeatsStop ==
  [][\A e \in Beats : at[e] = "ready" /\ at'[e] = "posting" => at[End] = "new"]_at

(* Liveness, hooks.py: "the two destinations fail separately": whether the *)
(* report is taken, refused, lost or given up, the channel is told too.    *)
(* It is not where posting raises anything but an httpx.HTTPError.         *)
PersonToo == chatty ~> tries > 0
=============================================================================

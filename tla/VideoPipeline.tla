---------------------------- MODULE VideoPipeline ----------------------------
(***************************************************************************)
(* The threads of a ProPainter run (run_propainter): one decodes the tile, *)
(* the main one gathers segments for the model, one composites what comes  *)
(* back into parts (_PartSink), with a bounded queue on either side of the *)
(* model.  Each of them may fail, and so may the two ffmpegs.              *)
(*                                                                         *)
(* A frame is its number in the source.  What the parts are on disk, and   *)
(* what becomes of them when a run is killed, is in PartsDir.              *)
(***************************************************************************)
EXTENDS SegmentPlan

CONSTANTS
  Actual,      \* the frames of the source
  Totals,      \* the frame counts probe may report, 0 when unknown
  CutSets,     \* the shot boundaries that may be detected
  PartFrames, Segment, Overlap, MinShot,
  MinSplit,    \* the shortest block that is split when memory runs out
  SplitContext,
  MaxFaults,   \* bound on failures
  Env,         \* which failures there are, see Failures
  NoFrame, NoPart, Done

(* "model": the model, or anything else in the main thread, raises.        *)
(* "dead": a compositing ffmpeg dies.  "bad": it leaves a part that does   *)
(* not hold what it was given.  "linger": it does not exit when its input  *)
(* ends.  "wedged": it takes no more frames and does not exit.             *)
(* "short": the decoding ffmpeg dies.  "raise": the decoder thread raises. *)
Failures == {"model", "dead", "bad", "linger", "wedged", "short", "raise"}

Frames == 0 .. Actual - 1

ASSUME PipelineAssumption ==
  /\ Actual \in Nat \ {0}
  /\ Totals \subseteq Nat
  /\ \A cuts \in CutSets : cuts \subseteq Frames
  /\ {PartFrames, Segment, MinShot, MinSplit} \subseteq Nat \ {0}
  /\ {Overlap, SplitContext, MaxFaults} \subseteq Nat
  /\ Env \subseteq Failures
  /\ NoFrame \notin Frames /\ Done \notin Frames /\ NoPart \notin Nat

VARIABLES
  total,    \* probe's frame count
  first,    \* resume_from: the frames finished parts already hold
  cuts,     \* shot_starts
  plan,     \* the segments
  dec,      \* the decoder thread: where it is and the frame it reads next
  qIn, qOut,
  pc,       \* where the main thread is
  hist, buf,
  read,     \* dec_start + n: the frame next_frame returns next
  pos,      \* the frame buf begins with
  seg,      \* the segment that is next
  eof,
  todo,     \* the frames of a repaired body that are still to be emitted
  sent,     \* resume_from + emitted
  crash,    \* an exception is held: crash or broken
  stuck,    \* encode_stuck
  enc,      \* the compositing thread: where it is and the frame it holds
  sink,     \* _PartSink: index, the part and the state of its ffmpeg
  faults

source == <<total, first, cuts, plan>>
gather == <<hist, buf, read, pos, seg, eof>>
ending == <<crash, stuck>>
vars == <<source, dec, qIn, qOut, pc, gather, todo, sent, ending, enc, sink, faults>>

(* A count that is not known is a large one.                               *)
Estimate == IF total = 0 THEN Actual + Segment ELSE total

(* _usable_parts: whole parts, or all of them.                             *)
Usable == {Least(k * PartFrames, total) :
             k \in 0 .. ((total + PartFrames - 1) \div PartFrames)}

(* Variant: the run carries on at the very frame.                          *)
SeekFrame(p, from) ==
  LET at == {i \in DOMAIN p : p[i].first <= from /\ from < p[i].end}
  IN  [seg |-> IF at = {} THEN Len(p) + 1 ELSE CHOOSE i \in at : TRUE,
       start |-> from, pos |-> from]

(* A resumed run begins with the segment of the first frame that is not in *)
(* a part, and decodes from where its context begins.                      *)
Seek(p, from) ==
  LET at == {i \in DOMAIN p : p[i].first <= from /\ from < p[i].end}
  IN  IF at = {} THEN [seg |-> Len(p) + 1, start |-> from, pos |-> from]
      ELSE LET i == CHOOSE i \in at : TRUE
           IN  [seg |-> i, start |-> p[i].first - p[i].left, pos |-> p[i].first]

(* The queues hold one segment and its context.                            *)
Depth == LET lengths == {plan[i].end - plan[i].first : i \in DOMAIN plan}
         IN  (CHOOSE m \in lengths : \A n \in lengths : n <= m) + 2 * Overlap

DecPCs  == {"reading", "closing", "failing", "raising", "ended", "failed"}
MainPCs == {"loading", "filling", "inferring", "emitting", "ending", "flushing",
            "checking", "closing", "abandoning", "joined", "failed"}
EncPCs  == {"waiting", "writing", "closing", "ended", "failed"}
Procs   == {"none", "running", "dead", "wedged", "lingering"}

TypeOK ==
  /\ total \in Totals
  /\ first \in 0 .. Actual
  /\ cuts \in CutSets
  /\ dec \in [pc: DecPCs, next: 0 .. Actual]
  /\ qIn \in Seq(Frames \cup {Done}) /\ Len(qIn) <= Depth
  /\ qOut \in Seq(Frames \cup {Done}) /\ Len(qOut) <= Depth
  /\ pc \in MainPCs
  /\ {hist, buf, todo} \subseteq Seq(Frames)
  /\ {read, pos, sent} \subseteq 0 .. Actual
  /\ seg \in 1 .. Len(plan) + 1
  /\ {eof, crash, stuck} \subseteq BOOLEAN
  /\ enc \in [pc: EncPCs, item: Frames \cup {NoFrame}]
  /\ sink \in [index: 0 .. Actual, part: Nat \cup {NoPart}, proc: Procs]
  /\ faults \in 0 .. MaxFaults
  /\ enc.item = NoFrame <=> enc.pc # "writing"
  /\ sink.part = NoPart <=> sink.proc = "none"

Init ==
  /\ total \in Totals
  /\ first \in {f \in Usable : f <= Actual}
  /\ cuts \in CutSets
  /\ plan = Segments(cuts, Estimate, Segment, Overlap, MinShot)
  /\ dec = [pc |-> "reading", next |-> Seek(plan, first).start]
  /\ qIn = <<>> /\ qOut = <<>>
  /\ pc = "loading"
  /\ hist = <<>> /\ buf = <<>> /\ todo = <<>>
  /\ read = Seek(plan, first).start
  /\ pos = Seek(plan, first).pos
  /\ seg = Seek(plan, first).seg
  /\ sent = first
  /\ eof = FALSE /\ crash = FALSE /\ stuck = FALSE
  /\ enc = [pc |-> "waiting", item |-> NoFrame]
  /\ sink = [index |-> first, part |-> NoPart, proc |-> "none"]
  /\ faults = 0
-----------------------------------------------------------------------------
Fault(kind) == kind \in Env /\ faults < MaxFaults /\ faults' = faults + 1

(***************************************************************************)
(* The decoder thread (pump_decode).                                       *)
(***************************************************************************)
Decode ==
  /\ dec.pc = "reading"
  /\ dec.next < Actual
  /\ Len(qIn) < Depth
  /\ qIn' = Append(qIn, dec.next)
  /\ dec' = [dec EXCEPT !.next = @ + 1]
  /\ UNCHANGED <<source, qOut, pc, gather, todo, sent, ending, enc, sink, faults>>

DecodeEnds ==
  /\ dec.pc = "reading"
  /\ dec.next = Actual
  /\ dec' = [dec EXCEPT !.pc = "closing"]
  /\ UNCHANGED <<source, qIn, qOut, pc, gather, todo, sent, ending, enc, sink, faults>>

(* The end of the pipe, or an exception.  The exit code is never asked for. *)
DecodeDies ==
  /\ dec.pc = "reading"
  /\ dec.next < Actual
  /\ \/ Fault("short") /\ dec' = [dec EXCEPT !.pc = "closing"]
     \/ Fault("raise") /\ dec' = [dec EXCEPT !.pc = "failing"]
  /\ UNCHANGED <<source, qIn, qOut, pc, gather, todo, sent, ending, enc, sink>>

(* Variant: an exception leaves without a word.                            *)
DecodeDoneUnlessRaised ==
  \/ /\ dec.pc = "closing"
     /\ Len(qIn) < Depth
     /\ qIn' = Append(qIn, Done)
     /\ dec' = [dec EXCEPT !.pc = "ended"]
     /\ UNCHANGED <<source, qOut, pc, gather, todo, sent, ending, enc, sink, faults>>
  \/ /\ dec.pc = "failing"
     /\ dec' = [dec EXCEPT !.pc = "raising"]
     /\ UNCHANGED <<source, qIn, qOut, pc, gather, todo, sent, ending, enc, sink, faults>>

(* However it ends, the main thread is told; an exception is recorded only *)
(* after that (_Stage.run).                                                *)
DecodeDone ==
  /\ dec.pc \in {"closing", "failing"}
  /\ Len(qIn) < Depth
  /\ qIn' = Append(qIn, Done)
  /\ dec' = [dec EXCEPT !.pc = IF @ = "closing" THEN "ended" ELSE "raising"]
  /\ UNCHANGED <<source, qOut, pc, gather, todo, sent, ending, enc, sink, faults>>

DecodeRaises ==
  /\ dec.pc = "raising"
  /\ dec' = [dec EXCEPT !.pc = "failed"]
  /\ UNCHANGED <<source, qIn, qOut, pc, gather, todo, sent, ending, enc, sink, faults>>
-----------------------------------------------------------------------------
(***************************************************************************)
(* The main thread.                                                        *)
(***************************************************************************)
Planned == seg <= Len(plan)

(* How many frames must be there before the model runs.                    *)
Want == IF Planned THEN plan[seg].end - plan[seg].first + plan[seg].right
                   ELSE Segment + Overlap

Short == ~eof /\ Len(buf) < Want

(* next_frame: it waits, and it raises what the compositing thread raised. *)
Take(into, rest) ==
  /\ enc.pc # "failed"
  /\ qIn # <<>>
  /\ qIn' = Tail(qIn)
  /\ IF Head(qIn) = Done
       THEN eof' = TRUE /\ UNCHANGED <<into, read>>
       ELSE into' = Append(into, Head(qIn)) /\ read' = read + 1 /\ UNCHANGED eof
  /\ UNCHANGED rest
  /\ UNCHANGED <<source, dec, qOut, pc, pos, seg, todo, sent, ending, enc, sink, faults>>

Load ==
  /\ pc = "loading"
  /\ read < pos /\ ~eof
  /\ Take(hist, buf)

Loaded ==
  /\ pc = "loading"
  /\ read = pos \/ eof
  /\ pc' = "filling"
  /\ UNCHANGED <<source, dec, qIn, qOut, gather, todo, sent, ending, enc, sink, faults>>

Fill ==
  /\ pc = "filling"
  /\ Short
  /\ Take(buf, hist)

(* Every exception is held until the threads are shut down.                *)
Crash ==
  /\ crash' = TRUE
  /\ pc' = "ending"
  /\ UNCHANGED <<source, dec, qIn, qOut, gather, sent, stuck, enc, sink>>

FillRaises ==
  /\ pc = "filling"
  /\ Short
  /\ enc.pc = "failed"
  /\ Crash
  /\ UNCHANGED <<todo, faults>>

(* Variant: what is beyond the plan is dropped.                            *)
FilledAsPlanned ==
  /\ pc = "filling"
  /\ ~Planned \/ ~Short
  /\ pc' = IF buf = <<>> \/ ~Planned THEN "ending" ELSE "inferring"
  /\ UNCHANGED <<source, dec, qIn, qOut, gather, todo, sent, ending, enc, sink, faults>>

Filled ==
  /\ pc = "filling"
  /\ ~Short
  /\ pc' = IF buf = <<>> THEN "ending" ELSE "inferring"
  /\ UNCHANGED <<source, dec, qIn, qOut, gather, todo, sent, ending, enc, sink, faults>>

(* The block: context, body, context.                                      *)
Body  == FirstOf(buf, IF Planned THEN plan[seg].end - plan[seg].first ELSE Segment)
Left  == LastOf(hist, IF Planned THEN plan[seg].left ELSE Overlap)
Ahead == FirstOf(LastOf(buf, Len(buf) - Len(Body)),
                 IF Planned THEN plan[seg].right ELSE Overlap)
Block == Left \o Body \o Ahead

(* Variant: the context is counted on the wrong side.                      *)
EmittedUncontexted(out) ==
  SelectSeq(FirstOf(out, Len(Body)), LAMBDA f : f >= first)

(* emit_body: the frames of the body, but for those a part already holds.  *)
Emitted(out) ==
  LET body == SubSeq(out, Len(Left) + 1, Len(Left) + Len(Body))
      from == Greatest(0, first - pos)
  IN  SubSeq(body, from + 1, Len(body))

Infer ==
  /\ pc = "inferring"
  /\ \E out \in {Block} \cup
                (IF Len(Block) >= MinSplit THEN {Halved(Block, SplitContext)} ELSE {}) :
       todo' = Emitted(out)
  /\ hist' = LastOf(hist \o Body, Overlap)
  /\ buf' = LastOf(buf, Len(buf) - Len(Body))
  /\ pos' = pos + Len(Body)
  /\ seg' = IF Planned THEN seg + 1 ELSE seg
  /\ pc' = "emitting"
  /\ UNCHANGED <<source, dec, qIn, qOut, read, eof, sent, ending, enc, sink, faults>>

InferRaises ==
  /\ pc = "inferring"
  /\ Fault("model")
  /\ Crash
  /\ UNCHANGED todo

Emit ==
  /\ pc = "emitting"
  /\ todo # <<>>
  /\ enc.pc # "failed"
  /\ Len(qOut) < Depth
  /\ qOut' = Append(qOut, Head(todo))
  /\ todo' = Tail(todo)
  /\ sent' = sent + 1
  /\ UNCHANGED <<source, dec, qIn, pc, gather, ending, enc, sink, faults>>

(* emit wakes up to look: it must not wait for a thread that is dead.      *)
EmitRaises ==
  /\ pc = "emitting"
  /\ todo # <<>>
  /\ enc.pc = "failed"
  /\ Crash
  /\ todo' = <<>>
  /\ UNCHANGED faults

EmitDone ==
  /\ pc = "emitting"
  /\ todo = <<>>
  /\ pc' = "filling"
  /\ UNCHANGED <<source, dec, qIn, qOut, gather, todo, sent, ending, enc, sink, faults>>
-----------------------------------------------------------------------------
(* Shutting down.  STALL_LIMIT runs out only on a thread that moves        *)
(* nothing: it is in a write that is not taken, waits for an ffmpeg to     *)
(* exit, or was never told to end.                                         *)
Alive == enc.pc \notin {"ended", "failed"}

Stalled == \/ enc.pc = "writing" /\ sink.proc = "wedged"
           \/ enc.pc = "closing"
           \/ enc.pc = "waiting" /\ qOut = <<>>

Sentinel ==
  /\ pc = "ending"
  /\ \/ Len(qOut) < Depth /\ qOut' = Append(qOut, Done)
     \/ Len(qOut) = Depth /\ (~Alive \/ Stalled) /\ UNCHANGED qOut
  /\ pc' = "flushing"
  /\ UNCHANGED <<source, dec, qIn, gather, todo, sent, ending, enc, sink, faults>>

Flushed ==
  /\ pc = "flushing"
  /\ ~Alive
  /\ pc' = "checking"
  /\ UNCHANGED <<source, dec, qIn, qOut, gather, todo, sent, ending, enc, sink, faults>>

(* Variant: a fixed deadline, which runs out on a thread that still moves. *)
StallsByTheClock ==
  /\ pc = "flushing"
  /\ Alive
  /\ stuck' = TRUE
  /\ pc' = "checking"
  /\ UNCHANGED <<source, dec, qIn, qOut, gather, todo, sent, crash, enc, sink, faults>>

Stalls ==
  /\ pc = "flushing"
  /\ Stalled
  /\ stuck' = TRUE
  /\ pc' = "checking"
  /\ UNCHANGED <<source, dec, qIn, qOut, gather, todo, sent, crash, enc, sink, faults>>

(* The decoder is killed, and what each thread left behind is looked at.   *)
Sound ==
  /\ ~crash
  /\ dec.pc # "failed"
  /\ ~stuck
  /\ enc.pc # "failed"
  /\ read > 0 \/ first > 0
  /\ sink.index = sent

Check ==
  /\ pc = "checking"
  /\ pc' = IF Sound THEN "closing" ELSE "abandoning"
  /\ UNCHANGED <<source, dec, qIn, qOut, gather, todo, sent, ending, enc, sink, faults>>

NoProc == [sink EXCEPT !.part = NoPart, !.proc = "none"]

(* sink.close: the last part; then the frames are counted.                 *)
CloseLast ==
  /\ pc = "closing"
  /\ sink.proc \in {"none", "running"}
  /\ sink' = NoProc
  /\ pc' = IF sink.index = read THEN "joined" ELSE "abandoning"
  /\ UNCHANGED <<source, dec, qIn, qOut, gather, todo, sent, ending, enc, faults>>

(* An ffmpeg that failed or left a wrong part, or does not exit.           *)
ClosesBadly(how) ==
  /\ sink.proc # "none"
  /\ IF sink.proc = "running"
       THEN Fault(how)
       ELSE how = (IF sink.proc = "dead" THEN "bad" ELSE "linger") /\ UNCHANGED faults
  /\ sink' = NoProc

CloseLastRaises ==
  /\ pc = "closing"
  /\ \E how \in {"bad", "linger"} : ClosesBadly(how)
  /\ pc' = "abandoning"
  /\ UNCHANGED <<source, dec, qIn, qOut, gather, todo, sent, ending, enc>>

(* _PartSink.abandon: the open part goes, once its ffmpeg has exited.  It  *)
(* is waited for without a limit, also when it lingers.                    *)
Abandon ==
  /\ pc = "abandoning"
  /\ \/ /\ sink.proc \notin {"wedged", "lingering"}
        /\ sink' = NoProc
        /\ pc' = "failed"
        /\ UNCHANGED faults
     \/ /\ sink.proc = "running"
        /\ Fault("linger")
        /\ sink' = [sink EXCEPT !.proc = "lingering"]
        /\ UNCHANGED pc
  /\ UNCHANGED <<source, dec, qIn, qOut, gather, todo, sent, ending, enc>>
-----------------------------------------------------------------------------
(***************************************************************************)
(* The compositing thread (pump_encode) and its ffmpegs.                   *)
(***************************************************************************)
EncodeTake ==
  /\ enc.pc = "waiting"
  /\ qOut # <<>>
  /\ qOut' = Tail(qOut)
  /\ enc' = IF Head(qOut) = Done
              THEN [pc |-> "ended", item |-> NoFrame]
              ELSE [pc |-> "writing", item |-> Head(qOut)]
  /\ UNCHANGED <<source, dec, qIn, pc, gather, todo, sent, ending, sink, faults>>

PartOf(index) == index \div PartFrames

(* The frame belongs to the next part: this one is closed.                 *)
SwitchPart ==
  /\ enc.pc = "writing"
  /\ sink.proc = "running"
  /\ sink.part # PartOf(sink.index)
  /\ sink' = NoProc
  /\ UNCHANGED <<source, dec, qIn, qOut, pc, gather, todo, sent, ending, enc, faults>>

EncodeFails == enc' = [pc |-> "failed", item |-> NoFrame]

SwitchRaises ==
  /\ enc.pc = "writing"
  /\ sink.part # PartOf(sink.index)
  /\ \E how \in {"bad", "linger"} :
       /\ ClosesBadly(how)
       /\ enc' = [pc |-> IF how = "bad" THEN "failed" ELSE "closing", item |-> NoFrame]
  /\ UNCHANGED <<source, dec, qIn, qOut, pc, gather, todo, sent, ending>>

(* STALL_LIMIT after its input ended the ffmpeg is killed.                 *)
SwitchTimesOut ==
  /\ enc.pc = "closing"
  /\ EncodeFails
  /\ UNCHANGED <<source, dec, qIn, qOut, pc, gather, todo, sent, ending, sink, faults>>

OpenPart ==
  /\ enc.pc = "writing"
  /\ sink.proc = "none"
  /\ sink' = [sink EXCEPT !.part = PartOf(sink.index), !.proc = "running"]
  /\ UNCHANGED <<source, dec, qIn, qOut, pc, gather, todo, sent, ending, enc, faults>>

Write ==
  /\ enc.pc = "writing"
  /\ sink.proc = "running"
  /\ sink.part = PartOf(sink.index)
  /\ sink' = [sink EXCEPT !.index = @ + 1]
  /\ enc' = [pc |-> "waiting", item |-> NoFrame]
  /\ UNCHANGED <<source, dec, qIn, qOut, pc, gather, todo, sent, ending, faults>>

WriteRaises ==
  /\ enc.pc = "writing"
  /\ sink.proc = "dead"
  /\ sink.part = PartOf(sink.index)
  /\ EncodeFails
  /\ UNCHANGED <<source, dec, qIn, qOut, pc, gather, todo, sent, ending, sink, faults>>

ProcFails ==
  /\ sink.proc = "running"
  /\ \E state \in {"dead", "wedged"} :
       Fault(state) /\ sink' = [sink EXCEPT !.proc = state]
  /\ UNCHANGED <<source, dec, qIn, qOut, pc, gather, todo, sent, ending, enc>>
-----------------------------------------------------------------------------
DecodeStep == Decode \/ DecodeEnds \/ DecodeDone \/ DecodeRaises

MainStep ==
  \/ Load \/ Loaded \/ Fill \/ FillRaises \/ Filled
  \/ Infer \/ Emit \/ EmitRaises \/ EmitDone
  \/ Sentinel \/ Flushed \/ Stalls \/ Check
  \/ CloseLast \/ CloseLastRaises \/ Abandon

EncodeStep ==
  \/ EncodeTake \/ SwitchPart \/ SwitchRaises \/ SwitchTimesOut
  \/ OpenPart \/ Write \/ WriteRaises

Over == pc \in {"joined", "failed"}

(* The threads are daemons: when the main one has ended, so has the run.   *)
Next ==
  \/ ~Over /\ (DecodeStep \/ MainStep \/ EncodeStep)
  \/ ~Over /\ (DecodeDies \/ InferRaises \/ ProcFails)

Spec == Init /\ [][Next]_vars

(* Each thread takes its steps.                                            *)
FairSpec ==
  /\ Spec
  /\ WF_vars(~Over /\ DecodeStep)
  /\ WF_vars(~Over /\ MainStep)
  /\ WF_vars(~Over /\ EncodeStep)
-----------------------------------------------------------------------------
(* tests/test_video_order.py: the frames reach the compositor in order,    *)
(* none of them twice and none left out, however the segments, their       *)
(* context, the parts a resume finds and the failures fall.                *)
InOrder == enc.pc = "writing" => enc.item = sink.index

(* tests/test_resume.py: the model is given the same block for a segment   *)
(* by every run, whole or resumed from any part: as far as the source goes *)
(* its own frames and the context the plan allows.                         *)
SameBlocks ==
  pc = "inferring" /\ Planned =>
    LET s == plan[seg]
        end == IF eof THEN Least(s.end + s.right, read) ELSE s.end + s.right
        start == s.first - s.left
    IN  Block = [i \in 1 .. end - start |-> start + i - 1]

(* _segment_plan: the segments follow one another from the first frame to  *)
(* the last that is expected, and none is longer than was asked for.       *)
PlanCovers ==
  /\ plan[1].first = 0
  /\ \A i \in DOMAIN plan :
       /\ plan[i].end - plan[i].first \in 1 .. Segment
       /\ i > 1 => plan[i].first = plan[i - 1].end
  /\ plan[Len(plan)].end = Estimate

(* _segment_plan: the model never sees both sides of a cut, unless the cut *)
(* is so close to another one, or to an end of the video, that it was      *)
(* merged.                                                                 *)
Isolated(c) ==
  \A d \in cuts \cup {0, Estimate} :
    d = c \/ d - c >= MinShot \/ c - d >= MinShot

OneShot == \A i \in DOMAIN plan : \A c \in cuts :
  Isolated(c) => ~(plan[i].first - plan[i].left < c /\ c < plan[i].end + plan[i].right)

PlanSound == PlanCovers /\ OneShot

(* What is joined holds every frame that was decoded, whatever the threads *)
(* and the ffmpegs did.                                                    *)
Delivered == pc = "joined" => sink.index = dec.next /\ dec.next = read /\ ~Alive

(* The main thread closes and drops parts only when the thread that writes *)
(* them has ended.                                                         *)
SinkAlone ==
  pc \in {"closing", "abandoning"} /\ sink.proc # "none" => ~Alive

(* emit, _PartSink.close: no failures of the threads and of the ffmpegs    *)
(* become a hang; the run ends.  The exception is the one wait that has no *)
(* limit: the part is being dropped, and its ffmpeg does not exit.         *)
Lingers == pc = "abandoning" /\ sink.proc = "lingering"

Ends == <>(Over \/ Lingers)

(* _PartSink.close says that an ffmpeg which will not exit must not become *)
(* a hang: the run ends, whatever fails.  It does not hold.                *)
EndsAlways == <>Over
=============================================================================

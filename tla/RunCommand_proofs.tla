-------------------------- MODULE RunCommand_proofs --------------------------
(***************************************************************************)
(* What `wmrm run` and `wmrm batch` may rely on, for any number of videos, *)
(* frames, boxes and rounds of growing: the outputs are whole, the box was *)
(* judged, the report is true and there, and a batch accounts for every    *)
(* video.  Three things are assumed: the decoder does not die early, the   *)
(* report can be written, and no signal arrives while it is.               *)
(***************************************************************************)
EXTENDS RunCommand, OutputLock, TLAPS

Undisturbed == Env \cap {"short", "late", "unwritable"} = {}

Boxed   == {"measuring", "judging", "gating", "opening", "framing", "closing",
            "verifying"}
Working == Boxed \cup {"resolving"}
Telling == {"finishing", "failing", "writing"}

(* Which command is where, and what it holds there.                        *)
Placed ==
  /\ pc # "idle" => args \in Args
  /\ pc \in {"starting", "next"} => args.cmd = "batch"
  /\ pc \in {"verifying"} \cup Telling => args.cmd = "run"
  /\ pc \in Working \cup Telling => file \in Files
  /\ pc \in Boxed => box \in Areas
  /\ pc = "closing" => n = Actual

(* The verdict is about the box until the gate is passed.                  *)
Measured ==
  /\ pc \in {"measuring", "judging", "gating"} => Gate # "off"
  /\ pc \in {"measuring", "judging"} => attempt < Rounds
  /\ pc = "resolving" => attempt = 0
  /\ pc \in {"judging", "gating"} => cov \in Coverage /\ cov.of = box

MadeHere == made /\ out[file] = [whole |-> TRUE, box |-> box]

(* What a command is about to report is true, and so far nothing is there. *)
Speaks ==
  /\ pc = "verifying" => MadeHere
  /\ pc \in Telling =>
       /\ said \in Report
       /\ ~args.preview => /\ said.output <=> said.outcome = "ok"
                           /\ said.output => MadeHere
  /\ report # NoReport => pc = "exited"

(* What a batch has not got to yet is on its list.                         *)
Counts ==
  /\ pc = "starting" => failures \cup blocked = {}
  /\ pc \in {"starting", "next"} \cup Working /\ args.cmd = "batch" =>
       \A f \in Files : \/ f \in todo \cup failures \cup blocked
                        \/ out[f] # NoOutput
                        \/ pc \in Working /\ f = file

IInv == /\ TypeOK /\ Placed /\ Measured /\ Speaks /\ Counts
        /\ WholeOutputs /\ Judged /\ ReportTrue /\ Reported /\ Accounted

(* What there is to know of a command line.                                *)
LEMMA ArgsFields ==
  ASSUME NEW a \in Args
  PROVE  /\ a.cmd \in {"run", "batch"} /\ a.gate \in Gates
         /\ a.grow \in BOOLEAN /\ a.preview \in BOOLEAN
         /\ a.cmd = "batch" => a.preview = FALSE
BY DEF Args

LEMMA InitInv == Init => IInv
<1> SUFFICES ASSUME Init PROVE IInv
  OBVIOUS
<1>1. TypeOK
  <2>1. attempt \in 0 .. GrowRounds - 1 /\ n \in 0 .. Actual
    BY CommandAssumption DEF Init
  <2>2. out \in [Files -> Output \cup {NoOutput}]
    BY DEF Init
  <2>3. pc \in PCs
    BY DEF Init, PCs
  <2>4. {failures, blocked} \subseteq SUBSET Files /\ todo \subseteq Files
    BY DEF Init
  <2>5. {named, written, made} \subseteq BOOLEAN
    BY DEF Init
  <2>6. {said, report} \subseteq Report \cup {NoReport}
    BY DEF Init
  <2>7. QED
    BY <2>1, <2>2, <2>3, <2>4, <2>5, <2>6 DEF Init, TypeOK
<1>2. Placed /\ Measured /\ Speaks /\ Counts
  BY DEF Init, Placed, Measured, Speaks, Counts, Boxed, Working, Telling
<1>3. WholeOutputs /\ Judged /\ ReportTrue /\ Reported /\ Accounted
  BY DEF Init, WholeOutputs, Judged, ReportTrue, Reported, Accounted
<1>4. QED
  BY <1>1, <1>2, <1>3 DEF IInv

(* A `run` that fails says so.                                             *)
LEMMA FailKeeps ==
  ASSUME IInv, NEW o \in Outcomes \ {"ok"}, Fail(o), args.cmd = "run",
         pc \in Working \cup Telling,
         enc' = "none", n' \in 0 .. Actual, UNCHANGED <<out, made>>
  PROVE  IInv'
<1>1. TypeOK'
  BY DEF Fail, Report, Go, measure, lists, IInv, TypeOK, PCs
<1>2. Placed' /\ Measured'
  BY DEF Fail, Go, IInv, Placed, Measured, Boxed, Working, Telling
<1>3. Speaks' /\ ReportTrue' /\ Reported'
  BY DEF Fail, Report, Go, IInv, Speaks, ReportTrue, Reported, Boxed, Working,
     Telling
<1>4. Counts' /\ Accounted'
  BY DEF Fail, Go, Counts, Accounted
<1>5. WholeOutputs' /\ Judged'
  BY DEF Fail, Go, IInv, WholeOutputs, Judged
<1>6. QED
  BY <1>1, <1>2, <1>3, <1>4, <1>5 DEF IInv

(* A batch that is stopped.                                                *)
LEMMA ExitKeeps ==
  ASSUME IInv, Exit("error"), args.cmd = "batch", pc \notin {"idle", "exited"},
         enc' = "none", n' \in 0 .. Actual, UNCHANGED <<out, made>>
  PROVE  IInv'
<1>1. TypeOK'
  BY DEF Exit, measure, lists, writer, IInv, TypeOK, PCs
<1>2. Placed' /\ Measured'
  BY DEF Exit, IInv, Placed, Measured, Boxed, Working, Telling
<1>3. Speaks' /\ ReportTrue' /\ Reported'
  BY DEF Exit, writer, IInv, Speaks, ReportTrue, Reported, Telling
<1>4. Counts' /\ Accounted'
  BY DEF Exit, Counts, Accounted, Boxed, Working
<1>5. WholeOutputs' /\ Judged'
  BY DEF Exit, IInv, WholeOutputs, Judged
<1>6. QED
  BY <1>1, <1>2, <1>3, <1>4, <1>5 DEF IInv

(* A video that fails.                                                     *)
LEMMA CaughtKeeps ==
  ASSUME IInv, Caught, pc \in Working, args.cmd = "batch",
         enc' = "none", n' \in 0 .. Actual, UNCHANGED <<out, made>>
  PROVE  IInv'
<1>1. TypeOK'
  BY DEF Caught, measure, writer, IInv, TypeOK, PCs, Placed
<1>2. Placed' /\ Measured'
  BY DEF Caught, IInv, Placed, Measured, Boxed, Working, Telling
<1>3. Speaks' /\ ReportTrue' /\ Reported'
  BY DEF Caught, writer, IInv, Speaks, ReportTrue, Reported, Boxed, Working,
     Telling
<1>4. Counts' /\ Accounted'
  BY DEF Caught, IInv, Counts, Accounted
<1>5. WholeOutputs' /\ Judged'
  BY DEF Caught, IInv, WholeOutputs, Judged
<1>6. QED
  BY <1>1, <1>2, <1>3, <1>4, <1>5 DEF IInv

(* The other actions, each by the parts of the invariant.                  *)
LEMMA RunKeeps ==
  ASSUME IInv, NEW f \in Files, NEW a \in Args, Run(f, a)
  PROVE  IInv'
<1>1. TypeOK'
  <2>1. /\ out' \in [Files -> Output \cup {NoOutput}]
        /\ args' \in Args \cup {NoArgs}
    BY DEF Run, IInv, TypeOK
  <2>2. /\ pc' \in PCs /\ todo' \subseteq Files /\ file' \in Files \cup {NoFile}
        /\ {failures', blocked'} \subseteq SUBSET Files
        /\ code' \in {"none", "0", "1", "error"}
    BY DEF Run, IInv, PCs
  <2>3. /\ box' \in Areas \cup {NoArea} /\ attempt' \in 0 .. GrowRounds - 1
        /\ cov' \in Coverage \cup {NoCov}
    BY CommandAssumption DEF Run, IInv
  <2>4. /\ {named', written', made'} \subseteq BOOLEAN
        /\ {said', report'} \subseteq Report \cup {NoReport}
    BY DEF Run, IInv
  <2>5. /\ n' \in 0 .. Actual /\ enc' \in {"none", "running", "dead"}
        /\ pc' \in {"framing", "closing"} <=> enc' # "none"
        /\ pc' \in {"opening", "framing", "closing"} => box' # NoArea /\ file' # NoFile
    BY DEF Run, stage, IInv, TypeOK, Free
  <2>6. QED
    BY <2>1, <2>2, <2>3, <2>4, <2>5 DEF TypeOK
<1>2. Placed' /\ Measured'
  BY DEF Run, Placed, Measured, Boxed
<1>3. Speaks' /\ ReportTrue' /\ Reported'
  BY DEF Run, Speaks, ReportTrue, Reported, Telling
<1>4. Counts' /\ Accounted'
  BY DEF Run, Counts, Accounted
<1>5. WholeOutputs' /\ Judged'
  BY DEF Run, IInv, WholeOutputs, Judged
<1>6. QED
  BY <1>1, <1>2, <1>3, <1>4, <1>5 DEF IInv

LEMMA BatchKeeps ==
  ASSUME IInv, NEW a \in Args, Batch(a)
  PROVE  IInv'
<1>1. TypeOK'
  <2>1. /\ out' \in [Files -> Output \cup {NoOutput}]
        /\ args' \in Args \cup {NoArgs}
    BY DEF Batch, IInv, TypeOK
  <2>2. /\ pc' \in PCs /\ todo' \subseteq Files /\ file' \in Files \cup {NoFile}
        /\ {failures', blocked'} \subseteq SUBSET Files
        /\ code' \in {"none", "0", "1", "error"}
    BY DEF Batch, IInv, PCs
  <2>3. /\ box' \in Areas \cup {NoArea} /\ attempt' \in 0 .. GrowRounds - 1
        /\ cov' \in Coverage \cup {NoCov}
    BY CommandAssumption DEF Batch, IInv
  <2>4. /\ {named', written', made'} \subseteq BOOLEAN
        /\ {said', report'} \subseteq Report \cup {NoReport}
    BY DEF Batch, IInv
  <2>5. /\ n' \in 0 .. Actual /\ enc' \in {"none", "running", "dead"}
        /\ pc' \in {"framing", "closing"} <=> enc' # "none"
        /\ pc' \in {"opening", "framing", "closing"} => box' # NoArea /\ file' # NoFile
    BY DEF Batch, stage, IInv, TypeOK, Free
  <2>6. QED
    BY <2>1, <2>2, <2>3, <2>4, <2>5 DEF TypeOK
<1>2. Placed' /\ Measured'
  BY DEF Batch, Placed, Measured, Boxed, Working, Telling
<1>3. Speaks' /\ ReportTrue' /\ Reported'
  BY DEF Batch, Speaks, ReportTrue, Reported, Telling
<1>4. Counts' /\ Accounted'
  BY DEF Batch, Counts, Accounted
<1>5. WholeOutputs' /\ Judged'
  BY DEF Batch, IInv, WholeOutputs, Judged
<1>6. QED
  BY <1>1, <1>2, <1>3, <1>4, <1>5 DEF IInv

LEMMA PickKeeps ==
  ASSUME IInv, Pick
  PROVE  IInv'
<1>1. TypeOK'
  <2>1. /\ out' \in [Files -> Output \cup {NoOutput}]
        /\ args' \in Args \cup {NoArgs}
    BY DEF Pick, Exit, IInv, TypeOK
  <2>2. /\ pc' \in PCs /\ todo' \subseteq Files /\ file' \in Files \cup {NoFile}
        /\ {failures', blocked'} \subseteq SUBSET Files
        /\ code' \in {"none", "0", "1", "error"}
    BY DEF Pick, Exit, ExitCode, lists, IInv, TypeOK, PCs
  <2>3. /\ box' \in Areas \cup {NoArea} /\ attempt' \in 0 .. GrowRounds - 1
        /\ cov' \in Coverage \cup {NoCov}
    BY CommandAssumption DEF Pick, Exit, measure, IInv, TypeOK
  <2>4. /\ {named', written', made'} \subseteq BOOLEAN
        /\ {said', report'} \subseteq Report \cup {NoReport}
    BY DEF Pick, Exit, writer, IInv, TypeOK
  <2>5. /\ n' \in 0 .. Actual /\ enc' \in {"none", "running", "dead"}
        /\ pc' \in {"framing", "closing"} <=> enc' # "none"
        /\ pc' \in {"opening", "framing", "closing"} => box' # NoArea /\ file' # NoFile
    BY DEF Pick, Exit, stage, IInv, TypeOK
  <2>6. QED
    BY <2>1, <2>2, <2>3, <2>4, <2>5 DEF TypeOK
<1>2. Placed' /\ Measured'
  BY DEF Pick, Exit, IInv, TypeOK, Placed, Measured, Boxed, Working, Telling
<1>3. Speaks' /\ ReportTrue' /\ Reported'
  BY DEF Pick, Exit, writer, IInv, Placed, Speaks, ReportTrue, Reported, Telling
<1>4. Counts' /\ Accounted'
  BY DEF Pick, Exit, ExitCode, lists, IInv, Counts, Accounted, Boxed, Working
<1>5. WholeOutputs' /\ Judged'
  BY DEF Pick, Exit, IInv, WholeOutputs, Judged
<1>6. QED
  BY <1>1, <1>2, <1>3, <1>4, <1>5 DEF IInv

LEMMA ResolveKeeps ==
  ASSUME IInv, NEW b \in Areas, Resolve(b)
  PROVE  IInv'
<1>1. TypeOK'
  BY CommandAssumption DEF Resolve, Go, IInv, TypeOK, PCs, stage, lists, Placed,
     Working
<1>2. Placed' /\ Measured'
  BY CommandAssumption DEF Resolve, Go, IInv, Placed, Measured, Working,
     Telling, Gate, Rounds
<1>3. Speaks' /\ ReportTrue' /\ Reported'
  BY DEF Resolve, Go, IInv, Speaks, ReportTrue, Reported, Telling
<1>4. Counts' /\ Accounted'
  BY DEF Resolve, Go, lists, IInv, Counts, Accounted, Working
<1>5. WholeOutputs' /\ Judged'
  BY DEF Resolve, Go, IInv, WholeOutputs, Judged, Gate
<1>6. QED
  BY <1>1, <1>2, <1>3, <1>4, <1>5 DEF IInv

LEMMA MeasureKeeps ==
  ASSUME IInv, Measure
  PROVE  IInv'
<1>1. TypeOK'
  BY DEF Measure, Coverage, Verdicts, Go, stage, lists, writer, IInv, TypeOK,
     PCs, Placed, Boxed
<1>2. Placed' /\ Measured'
  BY DEF Measure, Coverage, Verdicts, Go, IInv, Placed, Measured, Boxed,
     Working, Telling, Gate, Rounds
<1>3. Speaks' /\ ReportTrue' /\ Reported'
  BY DEF Measure, Go, writer, IInv, Speaks, ReportTrue, Reported, Telling
<1>4. Counts' /\ Accounted'
  BY DEF Measure, Go, lists, IInv, Counts, Accounted, Boxed, Working
<1>5. WholeOutputs' /\ Judged'
  BY DEF Measure, Go, IInv, WholeOutputs, Judged
<1>6. QED
  BY <1>1, <1>2, <1>3, <1>4, <1>5 DEF IInv

LEMMA SettleKeeps ==
  ASSUME IInv, Settle
  PROVE  IInv'
<1>1. TypeOK'
  BY DEF Settle, Go, measure, stage, lists, writer, IInv, TypeOK, PCs
<1>2. Placed' /\ Measured'
  BY DEF Settle, Go, measure, IInv, Placed, Measured, Boxed, Working, Telling,
     Gate
<1>3. Speaks' /\ ReportTrue' /\ Reported'
  BY DEF Settle, Go, writer, IInv, Speaks, ReportTrue, Reported, Telling
<1>4. Counts' /\ Accounted'
  BY DEF Settle, Go, lists, IInv, Counts, Accounted, Boxed, Working
<1>5. WholeOutputs' /\ Judged'
  BY DEF Settle, Go, IInv, WholeOutputs, Judged
<1>6. QED
  BY <1>1, <1>2, <1>3, <1>4, <1>5 DEF IInv

LEMMA GrowKeeps ==
  ASSUME IInv, Grow
  PROVE  IInv'
<1>1. TypeOK'
  BY CommandAssumption DEF Grow, Settled, Believable, Go, stage, lists, writer,
     IInv, TypeOK, PCs, Rounds
<1>2. Placed' /\ Measured'
  BY CommandAssumption DEF Grow, Settled, Believable, Go, IInv, TypeOK, Placed,
     Measured, Boxed, Working, Telling, Gate, Rounds
<1>3. Speaks' /\ ReportTrue' /\ Reported'
  BY DEF Grow, Settled, Believable, Go, writer, IInv, Speaks, ReportTrue,
     Reported, Telling
<1>4. Counts' /\ Accounted'
  BY DEF Grow, Settled, Believable, Go, lists, IInv, Counts, Accounted, Boxed,
     Working
<1>5. WholeOutputs' /\ Judged'
  BY DEF Grow, Settled, Believable, Go, IInv, WholeOutputs, Judged
<1>6. QED
  BY <1>1, <1>2, <1>3, <1>4, <1>5 DEF IInv

LEMMA AcceptKeeps ==
  ASSUME IInv, Accept
  PROVE  IInv'
<1>1. TypeOK'
  BY CommandAssumption DEF Accept, Go, IInv, TypeOK, PCs, measure, stage, lists,
     writer, Placed, Boxed, Working
<1>2. Placed' /\ Measured'
  BY DEF Accept, Go, measure, IInv, Placed, Measured, Boxed, Working, Telling
<1>3. Speaks' /\ ReportTrue' /\ Reported'
  BY DEF Accept, Go, writer, IInv, Speaks, ReportTrue, Reported, Telling
<1>4. Counts' /\ Accounted'
  BY DEF Accept, Go, lists, IInv, Counts, Accounted, Boxed, Working
<1>5. WholeOutputs' /\ Judged'
  BY CommandAssumption DEF Accept, Go, measure, IInv, Measured, WholeOutputs,
     Judged, Gate, Accepts
<1>6. QED
  BY <1>1, <1>2, <1>3, <1>4, <1>5 DEF IInv

LEMMA RejectKeeps ==
  ASSUME IInv, pc = "gating", args.cmd = "batch",
         blocked' = blocked \cup {file}, pc' = "next",
         UNCHANGED <<args, todo, file, measure, failures, writer, code, out, stage,
                     made>>
  PROVE  IInv'
<1>1. TypeOK'
  BY DEF IInv, TypeOK, PCs, measure, stage, Placed, Boxed, Working, writer
<1>2. Placed' /\ Measured'
  BY DEF IInv, Placed, Measured, Boxed, Working, Telling
<1>3. Speaks' /\ ReportTrue' /\ Reported'
  BY DEF writer, IInv, Speaks, ReportTrue, Reported, Telling
<1>4. Counts' /\ Accounted'
  BY DEF IInv, Counts, Accounted, Boxed, Working
<1>5. WholeOutputs' /\ Judged'
  BY DEF IInv, WholeOutputs, Judged
<1>6. QED
  BY <1>1, <1>2, <1>3, <1>4, <1>5 DEF IInv

LEMMA PreviewKeeps ==
  ASSUME IInv, Preview
  PROVE  IInv'
<1>1. TypeOK'
  BY DEF Preview, Report, Outcomes, Go, measure, stage, lists, IInv, TypeOK, PCs
<1>2. Placed' /\ Measured'
  BY ArgsFields DEF Preview, Go, measure, IInv, TypeOK, Placed, Measured
<1>3. Speaks' /\ ReportTrue' /\ Reported'
  BY DEF Preview, Report, Outcomes, Go, IInv, TypeOK, Speaks, ReportTrue,
     Reported
<1>4. Counts' /\ Accounted'
  BY DEF Preview, Go, Counts, Accounted, Boxed, Working
<1>5. WholeOutputs' /\ Judged'
  BY DEF Preview, Go, IInv, WholeOutputs, Judged
<1>6. QED
  BY <1>1, <1>2, <1>3, <1>4, <1>5 DEF IInv

LEMMA OpenKeeps ==
  ASSUME IInv, Open
  PROVE  IInv'
<1>1. TypeOK'
  BY CommandAssumption DEF Open, Go, measure, lists, writer, IInv, TypeOK, PCs
<1>2. Placed' /\ Measured'
  BY DEF Open, Go, measure, IInv, TypeOK, Placed, Measured, Telling
<1>3. Speaks' /\ ReportTrue' /\ Reported'
  BY DEF Open, Go, writer, IInv, Speaks, ReportTrue, Reported, Telling
<1>4. Counts' /\ Accounted'
  BY DEF Open, Go, lists, IInv, Counts, Accounted, Boxed, Working
<1>5. WholeOutputs' /\ Judged'
  BY DEF Open, Go, measure, IInv, WholeOutputs, Judged, Gate
<1>6. QED
  BY <1>1, <1>2, <1>3, <1>4, <1>5 DEF IInv

LEMMA FrameKeeps ==
  ASSUME IInv, Frame
  PROVE  IInv'
<1>1. TypeOK'
  BY CommandAssumption DEF Frame, measure, lists, writer, IInv, TypeOK
<1>2. Placed' /\ Measured'
  BY DEF Frame, measure, IInv, Placed, Measured
<1>3. Speaks' /\ ReportTrue' /\ Reported'
  BY DEF Frame, writer, IInv, Speaks, ReportTrue, Reported, Telling
<1>4. Counts' /\ Accounted'
  BY DEF Frame, lists, IInv, Counts, Accounted
<1>5. WholeOutputs' /\ Judged'
  BY DEF Frame, measure, IInv, WholeOutputs, Judged, Gate
<1>6. QED
  BY <1>1, <1>2, <1>3, <1>4, <1>5 DEF IInv

LEMMA FramesEndKeeps ==
  ASSUME Undisturbed, IInv, FramesEnd
  PROVE  IInv'
<1>1. TypeOK'
  BY DEF FramesEnd, Undisturbed, Go, measure, stage, lists, writer, IInv,
     TypeOK, PCs
<1>2. Placed' /\ Measured'
  BY DEF FramesEnd, Undisturbed, Go, measure, stage, IInv, TypeOK, Placed,
     Measured, Telling
<1>3. Speaks' /\ ReportTrue' /\ Reported'
  BY DEF FramesEnd, Undisturbed, Go, writer, IInv, Speaks, ReportTrue, Reported,
     Telling
<1>4. Counts' /\ Accounted'
  BY DEF FramesEnd, Undisturbed, Go, lists, IInv, Counts, Accounted, Boxed,
     Working
<1>5. WholeOutputs' /\ Judged'
  BY DEF FramesEnd, Undisturbed, Go, measure, IInv, WholeOutputs, Judged, Gate
<1>6. QED
  BY <1>1, <1>2, <1>3, <1>4, <1>5 DEF IInv

LEMMA EncoderDiesKeeps ==
  ASSUME IInv, EncoderDies
  PROVE  IInv'
<1>1. TypeOK'
  BY DEF EncoderDies, measure, lists, writer, IInv, TypeOK
<1>2. Placed' /\ Measured'
  BY DEF EncoderDies, measure, IInv, TypeOK, Placed, Measured
<1>3. Speaks' /\ ReportTrue' /\ Reported'
  BY DEF EncoderDies, writer, IInv, TypeOK, Speaks, ReportTrue, Reported,
     Telling
<1>4. Counts' /\ Accounted'
  BY DEF EncoderDies, lists, IInv, Counts, Accounted
<1>5. WholeOutputs' /\ Judged'
  BY DEF EncoderDies, measure, IInv, WholeOutputs, Judged, Gate
<1>6. QED
  BY <1>1, <1>2, <1>3, <1>4, <1>5 DEF IInv

(* The output gets its final name.                                         *)
LEMMA PublishKeeps ==
  ASSUME IInv, pc \in {"opening", "closing"}, Publish(TRUE),
         enc' = "none", n' \in 0 .. Actual
  PROVE  IInv'
<1>1. TypeOK'
  BY DEF Publish, Output, Go, measure, lists, writer, IInv, TypeOK, PCs
<1>2. Placed' /\ Measured'
  BY ArgsFields DEF Publish, Go, measure, IInv, TypeOK, Placed, Measured,
     Telling
<1>3. Speaks' /\ ReportTrue' /\ Reported'
  BY DEF Publish, Go, measure, writer, IInv, TypeOK, Speaks, ReportTrue,
     Reported, MadeHere, Telling
<1>4. Counts' /\ Accounted'
  <2>1. [whole |-> TRUE, box |-> box] # NoOutput
    <3>1. box \in Areas
      BY DEF IInv, Placed, Boxed
    <3>2. [whole |-> TRUE, box |-> box] \in Output
      BY <3>1 DEF Output
    <3>3. QED
      BY <3>2, CommandAssumption
  <2>2. out' = [out EXCEPT ![file] = [whole |-> TRUE, box |-> box]] /\ file \in Files
    BY DEF Publish, IInv, Placed, Boxed, Working
  <2>3. \A f \in Files : IF f = file THEN out'[f] # NoOutput ELSE out'[f] = out[f]
    BY <2>1, <2>2 DEF IInv, TypeOK
  <2>4. Counts'
    BY <2>3 DEF Publish, Go, lists, IInv, Counts, Boxed, Working
  <2>5. Accounted'
    BY DEF Publish, Go, Accounted
  <2>6. QED
    BY <2>4, <2>5
<1>5. WholeOutputs' /\ Judged'
  BY DEF Publish, Go, measure, IInv, WholeOutputs, Judged, Gate
<1>6. QED
  BY <1>1, <1>2, <1>3, <1>4, <1>5 DEF IInv

LEMMA VerifyKeeps ==
  ASSUME IInv, Verify
  PROVE  IInv'
<1>1. TypeOK'
  <2>1. said' \in Report /\ (said'.output <=> said'.outcome = "ok")
    <3>1. CASE said' = [outcome |-> "ok", output |-> TRUE]
      BY <3>1 DEF Report, Outcomes
    <3>2. CASE said' = [outcome |-> "verify_failed", output |-> FALSE]
      BY <3>2 DEF Report, Outcomes
    <3>3. QED
      BY <3>1, <3>2 DEF Verify
  <2>2. QED
    BY <2>1 DEF Verify, Go, measure, stage, lists, IInv, TypeOK, PCs
<1>2. Placed' /\ Measured'
  BY DEF Verify, Go, IInv, Placed, Measured, Boxed, Working
<1>3. Speaks' /\ ReportTrue' /\ Reported'
  <2>1. said' \in Report /\ (said'.output <=> said'.outcome = "ok")
    <3>1. CASE said' = [outcome |-> "ok", output |-> TRUE]
      BY <3>1 DEF Report, Outcomes
    <3>2. CASE said' = [outcome |-> "verify_failed", output |-> FALSE]
      BY <3>2 DEF Report, Outcomes
    <3>3. QED
      BY <3>1, <3>2 DEF Verify
  <2>2. QED
    BY <2>1 DEF Verify, Go, measure, IInv, Speaks, ReportTrue, Reported,
       MadeHere
<1>4. Counts' /\ Accounted'
  BY DEF Verify, Go, IInv, Placed, Counts, Accounted
<1>5. WholeOutputs' /\ Judged'
  BY DEF Verify, Go, IInv, WholeOutputs, Judged
<1>6. QED
  BY <1>1, <1>2, <1>3, <1>4, <1>5 DEF IInv

LEMMA FinishKeeps ==
  ASSUME IInv, Finish
  PROVE  IInv'
<1>1. TypeOK'
  BY DEF Finish, Go, measure, stage, lists, IInv, TypeOK, PCs
<1>2. Placed' /\ Measured'
  BY DEF Finish, Go, IInv, Placed, Measured, Boxed, Telling
<1>3. Speaks' /\ ReportTrue' /\ Reported'
  BY DEF Finish, Go, measure, IInv, Speaks, ReportTrue, Reported, MadeHere,
     Telling
<1>4. Counts' /\ Accounted'
  BY DEF Finish, Go, Counts, Accounted, Boxed, Working
<1>5. WholeOutputs' /\ Judged'
  BY DEF Finish, Go, IInv, WholeOutputs, Judged
<1>6. QED
  BY <1>1, <1>2, <1>3, <1>4, <1>5 DEF IInv

LEMMA ReplaceKeeps ==
  ASSUME Undisturbed, IInv, Replace
  PROVE  IInv'
<1>1. TypeOK'
  BY DEF Replace, measure, stage, lists, IInv, TypeOK, PCs
<1>2. Placed' /\ Measured'
  BY DEF Replace, IInv, Placed, Measured, Boxed, Telling
<1>3. Speaks' /\ ReportTrue' /\ Reported'
  BY CommandAssumption DEF Undisturbed, Replace, measure, IInv, Speaks, ReportTrue,
     Reported, MadeHere, Telling
<1>4. Counts' /\ Accounted'
  BY DEF Replace, IInv, Placed, Counts, Accounted, Telling
<1>5. WholeOutputs' /\ Judged'
  BY DEF Replace, IInv, WholeOutputs, Judged
<1>6. QED
  BY <1>1, <1>2, <1>3, <1>4, <1>5 DEF IInv

LEMMA KillKeeps ==
  ASSUME IInv, Kill
  PROVE  IInv'
<1>1. TypeOK'
  BY CommandAssumption DEF Kill, NoStage, measure, lists, writer, IInv, TypeOK,
     PCs
<1>2. Placed' /\ Measured'
  BY DEF Kill, Placed, Measured, Boxed, Working, Telling
<1>3. Speaks' /\ ReportTrue' /\ Reported'
  BY DEF Kill, writer, IInv, Speaks, ReportTrue, Reported, Telling, Free
<1>4. Counts' /\ Accounted'
  BY DEF Kill, Counts, Accounted, Boxed, Working
<1>5. WholeOutputs' /\ Judged'
  BY DEF Kill, IInv, WholeOutputs, Judged
<1>6. QED
  BY <1>1, <1>2, <1>3, <1>4, <1>5 DEF IInv

LEMMA BeginKeeps ==
  ASSUME IInv, Begin
  PROVE  IInv'
<1>1. /\ pc = "starting" /\ args.cmd = "batch" /\ enc = "none"
      /\ UNCHANGED <<out, stage, made>>
  BY DEF Begin, IInv, TypeOK, Placed
<1>2. CASE todo = {}
  <2>1. Exit("0")
    BY <1>2 DEF Begin
  <2>2. TypeOK'
    BY <1>1, <2>1 DEF Exit, measure, stage, lists, writer, IInv, TypeOK, PCs
  <2>3. Placed' /\ Measured' /\ Speaks' /\ Counts'
    BY <1>1, <2>1 DEF Exit, IInv, Placed, Measured, Speaks, Counts, Boxed,
       Working, Telling
  <2>4. WholeOutputs' /\ Judged' /\ ReportTrue' /\ Reported'
    BY <1>1, <2>1 DEF Exit, writer, IInv, Speaks, WholeOutputs, Judged,
       ReportTrue, Reported
  <2>5. Accounted'
    BY <1>1, <1>2, <2>1 DEF Exit, lists, IInv, Counts, Accounted, Working, Boxed
  <2>6. QED
    BY <2>2, <2>3, <2>4, <2>5 DEF IInv
<1>3. CASE Exit("error")
  BY <1>1, <1>3, ExitKeeps DEF stage, IInv, TypeOK
<1>4. CASE Go("next") /\ UNCHANGED <<measure, writer>>
  <2>1. TypeOK'
    BY <1>1, <1>4 DEF Go, measure, stage, lists, writer, IInv, TypeOK, PCs
  <2>2. Placed' /\ Measured' /\ Speaks' /\ Counts'
    BY <1>1, <1>4 DEF Go, writer, IInv, Placed, Measured, Speaks, Counts, Boxed,
       Working, Telling
  <2>3. WholeOutputs' /\ Judged' /\ ReportTrue' /\ Reported' /\ Accounted'
    BY <1>1, <1>4 DEF Go, writer, IInv, Speaks, WholeOutputs, Judged,
       ReportTrue, Reported, Accounted
  <2>4. QED
    BY <2>1, <2>2, <2>3 DEF IInv
<1>5. QED
  BY <1>2, <1>3, <1>4 DEF Begin

(* An exception that cmd_batch catches, in either command.                 *)
LEMMA CaughtInv ==
  ASSUME IInv, Caught, pc \in Working,
         enc' = "none", n' \in 0 .. Actual, UNCHANGED <<out, made>>
  PROVE  IInv'
<1>1. args.cmd \in {"run", "batch"}
  BY ArgsFields DEF IInv, Placed, Working, Boxed
<1>2. CASE args.cmd = "run"
  <2>1. Fail("error") /\ "error" \in Outcomes \ {"ok"}
    BY <1>2 DEF Caught, Outcomes
  <2>2. QED
    BY <1>2, <2>1, FailKeeps
<1>3. CASE args.cmd = "batch"
  BY <1>3, CaughtKeeps
<1>4. QED
  BY <1>1, <1>2, <1>3

(* An exception it does not catch.                                         *)
LEMMA RaisedInv ==
  ASSUME IInv, NEW o \in Outcomes \ {"ok"}, Raised(o), ~Free,
         enc' = "none", n' \in 0 .. Actual, UNCHANGED <<out, made>>
  PROVE  IInv'
<1>1. args.cmd \in {"run", "batch"}
  BY ArgsFields DEF IInv, Placed, Free
<1>2. CASE args.cmd = "run"
  <2>1. pc \in Working \cup Telling
    BY <1>2 DEF IInv, TypeOK, PCs, Placed, Free, Working, Boxed, Telling
  <2>2. QED
    BY <1>2, <2>1, FailKeeps DEF Raised
<1>3. CASE args.cmd = "batch"
  BY <1>3, ExitKeeps DEF Raised, Free
<1>4. QED
  BY <1>1, <1>2, <1>3

LEMMA StepInv ==
  ASSUME Undisturbed, IInv, [Next]_vars
  PROVE  IInv'
<1> USE DEF IInv, TypeOK, stage, NoStage
<1>1. CASE \E a \in Args : Batch(a) \/ \E f \in Files : Run(f, a)
  BY <1>1, BatchKeeps, RunKeeps
<1>2. CASE Begin \/ Pick \/ \E b \in Areas : Resolve(b)
  BY <1>2, BeginKeeps, PickKeeps, ResolveKeeps
<1>3. CASE Measure \/ Settle \/ Grow \/ Accept
  BY <1>3, MeasureKeeps, SettleKeeps, GrowKeeps, AcceptKeeps
<1>4. CASE Preview \/ Open \/ Frame \/ FramesEnd \/ EncoderDies
  BY <1>4, PreviewKeeps, OpenKeeps, FrameKeeps, FramesEndKeeps, EncoderDiesKeeps
<1>5. CASE Verify \/ Finish \/ Replace \/ Kill
  BY <1>5, VerifyKeeps, FinishKeeps, ReplaceKeeps, KillKeeps
<1>6. CASE Unreadable
  <2>1. pc \in Working /\ enc' = "none" /\ n' \in 0 .. Actual
    BY <1>6 DEF Unreadable, Working, Boxed
  <2>2. QED
    BY <1>6, <2>1, CaughtInv DEF Unreadable
<1>7. CASE FrameBreaks
  <2>1. pc \in Working /\ enc' = "none" /\ n' \in 0 .. Actual
    BY <1>7, CommandAssumption DEF FrameBreaks, Working, Boxed
  <2>2. QED
    BY <1>7, <2>1, CaughtInv DEF FrameBreaks
<1>8. CASE Close
  <2>1. pc = "closing" /\ pc \in Working /\ enc' = "none" /\ n' \in 0 .. Actual
    BY <1>8, CommandAssumption DEF Close, Working, Boxed
  <2>2. CASE Encoded
    <3>1. n = Actual
      BY <2>1 DEF Placed
    <3>2. Publish(TRUE)
      BY <1>8, <2>2, <3>1 DEF Close, Encoded
    <3>3. QED
      BY <2>1, <3>2, PublishKeeps
  <2>3. CASE ~Encoded
    BY <1>8, <2>1, <2>3, CaughtInv DEF Close
  <2>4. QED
    BY <2>2, <2>3
<1>9. CASE Fast
  <2>1. pc = "opening" /\ pc \in Working /\ enc' = "none" /\ n' \in 0 .. Actual
    BY <1>9 DEF Fast, Working, Boxed
  <2>2. QED
    BY <1>9, <2>1, CaughtInv, PublishKeeps DEF Fast
<1>10. CASE Reject
  <2>1. /\ pc = "gating" /\ pc \in Working /\ UNCHANGED <<out, stage, made>>
        /\ enc' = "none" /\ n' \in 0 .. Actual /\ args.cmd \in {"run", "batch"}
    BY <1>10, ArgsFields DEF Reject, Placed, Working, Boxed
  <2>2. CASE args.cmd = "run"
    <3>1. PICK o \in Outcomes \ {"ok"} : Fail(o)
      BY <1>10, <2>2 DEF Reject, Outcomes
    <3>2. QED
      BY <2>1, <2>2, <3>1, FailKeeps
  <2>3. CASE args.cmd = "batch"
    BY <1>10, <2>1, <2>3, RejectKeeps DEF Reject
  <2>4. QED
    BY <2>1, <2>2, <2>3
<1>11. CASE Raise
  <2>1. Raised("error") /\ "error" \in Outcomes \ {"ok"} /\ ~Free
    BY <1>11 DEF Raise, Outcomes, Free
  <2>2. enc' = "none" /\ n' \in 0 .. Actual /\ UNCHANGED <<out, made>>
    BY <1>11, CommandAssumption DEF Raise
  <2>3. QED
    BY <2>1, <2>2, RaisedInv
<1>12. CASE Signal
  <2>1. Raised("interrupted") /\ "interrupted" \in Outcomes \ {"ok"} /\ ~Free
    BY <1>12 DEF Signal, Reporting, Undisturbed, Outcomes
  <2>2. enc' = "none" /\ n' \in 0 .. Actual /\ UNCHANGED <<out, made>>
    BY <1>12, CommandAssumption DEF Signal
  <2>3. QED
    BY <2>1, <2>2, RaisedInv
<1>13. CASE UNCHANGED vars
  <2>1. TypeOK'
    BY <1>13 DEF vars, measure, lists, writer
  <2>2. Placed' /\ Measured' /\ Speaks' /\ Counts'
    BY <1>13 DEF vars, measure, lists, writer, Placed, Measured, Speaks, Counts,
       MadeHere, Gate, Rounds
  <2>3. WholeOutputs' /\ Judged' /\ ReportTrue' /\ Reported' /\ Accounted'
    BY <1>13 DEF vars, measure, lists, writer, WholeOutputs, Judged, ReportTrue,
       Reported, Accounted, Gate
  <2>4. QED
    BY <2>1, <2>2, <2>3
<1>14. QED
  BY <1>1, <1>2, <1>3, <1>4, <1>5, <1>6, <1>7, <1>8, <1>9, <1>10, <1>11, <1>12,
     <1>13 DEF Next

(* The strengthening behind the theorems below.                            *)
THEOREM InvCorrect == ASSUME Undisturbed PROVE Spec => []IInv
<1>1. Init => IInv
  BY InitInv
<1>2. IInv /\ [Next]_vars => IInv'
  BY StepInv
<1>3. QED
  BY <1>1, <1>2, PTL DEF Spec

(* The variables of a command have their types.                            *)
THEOREM TypeCorrect == ASSUME Undisturbed PROVE Spec => []TypeOK
<1>1. IInv => TypeOK
  BY DEF IInv
<1>2. QED
  BY <1>1, InvCorrect, PTL

(* run_inpaint, run_fast: whatever has its final name has every frame.     *)
THEOREM WholeOutputsCorrect == ASSUME Undisturbed PROVE Spec => []WholeOutputs
<1>1. IInv => WholeOutputs
  BY DEF IInv
<1>2. QED
  BY <1>1, InvCorrect, PTL

(* _grow_to_cover: no box is processed under a verdict on another one.     *)
THEOREM JudgedCorrect == ASSUME Undisturbed PROVE Spec => []Judged
<1>1. IInv => Judged
  BY DEF IInv
<1>2. QED
  BY <1>1, InvCorrect, PTL

(* ReportWriter: an output that is named was made by this command.         *)
THEOREM ReportTrueCorrect == ASSUME Undisturbed PROVE Spec => []ReportTrue
<1>1. IInv => ReportTrue
  BY DEF IInv
<1>2. QED
  BY <1>1, InvCorrect, PTL

(* cmd_run: no way out without a report but SIGKILL, on a disk that takes  *)
(* it and with no signal in the middle of writing it.                      *)
THEOREM ReportedCorrect == ASSUME Undisturbed PROVE Spec => []Reported
<1>1. IInv => Reported
  BY DEF IInv
<1>2. QED
  BY <1>1, InvCorrect, PTL

(* cmd_batch: every video has an output or is on a list.                   *)
THEOREM AccountedCorrect == ASSUME Undisturbed PROVE Spec => []Accounted
<1>1. IInv => Accounted
  BY DEF IInv
<1>2. QED
  BY <1>1, InvCorrect, PTL
-----------------------------------------------------------------------------
(* The lock a run takes first, for any number of runs and lock files: the  *)
(* runs that take it exclude each other, and it implements ExclusiveWriter.*)

(* The name stands for one file for good, so everybody who opened it has   *)
(* that file open; its lock is held by exactly the run that writes.        *)
OpensTheName == \A p \in Procs : at[p] = "opened" =>
  p \in Locking /\ name \in Inodes /\ fd[p] = name

WriterHolds == \A p \in Locking : at[p] = "writing" =>
  name \in Inodes /\ owner[name] = p

HolderWrites == \A f \in Inodes : owner[f] # NoProc =>
  f = name /\ owner[f] \in Locking /\ at[owner[f]] = "writing"

LockInv == LockTypeOK /\ OpensTheName /\ WriterHolds /\ HolderWrites

LEMMA LockInitInv == LockInit => LockInv
<1> SUFFICES ASSUME LockInit PROVE LockInv
  OBVIOUS
<1>1. LockTypeOK
  BY DEF LockInit, LockTypeOK
<1>2. OpensTheName /\ WriterHolds /\ HolderWrites
  BY LockAssumption DEF LockInit, OpensTheName, WriterHolds, HolderWrites
<1>3. QED
  BY <1>1, <1>2 DEF LockInv

LEMMA ReleasedType ==
  ASSUME LockTypeOK, NEW p \in Procs
  PROVE  /\ Released(p) \in [Inodes -> Procs \cup {NoProc}]
         /\ \A f \in Inodes : Released(p)[f] = IF owner[f] = p THEN NoProc ELSE owner[f]
BY DEF LockTypeOK, Released

(* Only the first open makes a file, and it makes the name stand for it.   *)
LEMMA OpenLockInv ==
  ASSUME LockInv, NEW p \in Procs, OpenLock(p)
  PROVE  LockInv'
<1>1. PICK f \in Inodes :
        /\ IF name = NoInode THEN Unused(f) ELSE f = name
        /\ name' = f
        /\ fd' = [fd EXCEPT ![p] = f]
  BY DEF OpenLock
<1>2. p \in Locking /\ at[p] = "idle" /\ at' = [at EXCEPT ![p] = "opened"]
      /\ owner' = owner
  BY DEF OpenLock
<1>3. LockTypeOK'
  BY <1>1, <1>2, LockAssumption DEF LockInv, LockTypeOK
<1>4. name # NoInode => f = name
  BY <1>1
<1>5. \A q \in Procs : at[q] = "opened" => name # NoInode
  BY LockAssumption DEF LockInv, OpensTheName
<1>6. OpensTheName'
  BY <1>1, <1>2, <1>4, <1>5 DEF LockInv, LockTypeOK, OpensTheName
<1>7. \A g \in Inodes : owner[g] # NoProc => name # NoInode /\ f = name
  BY <1>4, LockAssumption DEF LockInv, HolderWrites
<1>8. WriterHolds'
  BY <1>1, <1>2, <1>4, LockAssumption DEF LockInv, LockTypeOK, WriterHolds
<1>9. HolderWrites'
  BY <1>1, <1>2, <1>7 DEF LockInv, LockTypeOK, HolderWrites
<1>10. QED
  BY <1>3, <1>6, <1>8, <1>9 DEF LockInv

LEMMA TakeInv ==
  ASSUME LockInv, NEW p \in Procs, Take(p)
  PROVE  LockInv'
<1>1. p \in Locking /\ name \in Inodes /\ fd[p] = name /\ owner[name] = NoProc
  BY DEF Take, LockInv, OpensTheName
<1>2. /\ owner' = [owner EXCEPT ![name] = p]
      /\ at' = [at EXCEPT ![p] = "writing"]
      /\ UNCHANGED <<name, fd>>
  BY <1>1 DEF Take
<1>3. \A q \in Locking : at[q] # "writing"
  BY <1>1, LockAssumption DEF LockInv, WriterHolds
<1>4. LockTypeOK'
  BY <1>1, <1>2, LockAssumption DEF LockInv, LockTypeOK, Take
<1>5. OpensTheName'
  BY <1>2 DEF LockInv, LockTypeOK, OpensTheName
<1>6. WriterHolds'
  BY <1>1, <1>2, <1>3, LockAssumption DEF LockInv, LockTypeOK, WriterHolds
<1>7. HolderWrites'
  BY <1>1, <1>2, <1>3 DEF LockInv, LockTypeOK, HolderWrites
<1>8. QED
  BY <1>4, <1>5, <1>6, <1>7 DEF LockInv

(* A run that closes or dies takes its own lock with it and no other.      *)
LEMMA LeaveInv ==
  ASSUME LockInv, NEW p \in Procs, CloseLock(p) \/ Die(p)
  PROVE  LockInv'
<1>1. /\ owner' = Released(p) /\ fd' = [fd EXCEPT ![p] = NoInode]
      /\ at' = [at EXCEPT ![p] = "idle"] /\ name' = name
  BY DEF CloseLock, Die
<1>2. LockTypeOK'
  BY <1>1, ReleasedType DEF LockInv, LockTypeOK
<1>3. OpensTheName'
  BY <1>1 DEF LockInv, LockTypeOK, OpensTheName
<1>4. WriterHolds'
  BY <1>1, ReleasedType, LockAssumption DEF LockInv, LockTypeOK, WriterHolds
<1>5. HolderWrites'
  BY <1>1, ReleasedType, LockAssumption DEF LockInv, LockTypeOK, HolderWrites
<1>6. QED
  BY <1>2, <1>3, <1>4, <1>5 DEF LockInv

LEMMA LockStepInv == LockInv /\ [LockNext]_lockVars => LockInv'
<1> SUFFICES ASSUME LockInv, [LockNext]_lockVars PROVE LockInv'
  OBVIOUS
<1>1. CASE \E p \in Procs : OpenLock(p)
  BY <1>1, OpenLockInv
<1>2. CASE \E p \in Procs : Take(p)
  BY <1>2, TakeInv
<1>3. CASE \E p \in Procs : Refused(p)
  BY <1>3 DEF Refused, LockInv, LockTypeOK, OpensTheName, WriterHolds, HolderWrites
<1>4. CASE \E p \in Procs : Skip(p)
  BY <1>4, LockAssumption
     DEF Skip, LockInv, LockTypeOK, OpensTheName, WriterHolds, HolderWrites
<1>5. CASE \E p \in Procs : CloseLock(p) \/ Die(p)
  BY <1>5, LeaveInv
<1>6. CASE UNCHANGED lockVars
  BY <1>6 DEF lockVars, LockInv, LockTypeOK, OpensTheName, WriterHolds, HolderWrites
<1>7. QED
  BY <1>1, <1>2, <1>3, <1>4, <1>5, <1>6 DEF LockNext

(* The strengthening the theorems below rest on: the name, the file each   *)
(* run has open and the flock on it agree at every moment.                 *)
THEOREM LockInvCorrect == LockSpec => []LockInv
<1>1. LockInit => LockInv
  BY LockInitInv
<1>2. LockInv /\ [LockNext]_lockVars => LockInv'
  BY LockStepInv
<1>3. QED
  BY <1>1, <1>2, PTL DEF LockSpec
-----------------------------------------------------------------------------
LEMMA InvExcludes ==
  ASSUME LockInv PROVE OneWriter
BY DEF LockInv, WriterHolds, OneWriter

(* lock.py, "one writer per output path": of the runs that take the lock   *)
(* at most one is writing, with any number of runs and files.              *)
THEOREM OneWriterCorrect == LockSpec => []OneWriter
<1>1. LockInv => OneWriter
  BY InvExcludes
<1>2. QED
  BY <1>1, LockInvCorrect, PTL

(* OutputLocked is raised for a reason: while it is raised another run is  *)
(* writing the output.                                                     *)
THEOREM RefusedForCauseCorrect == LockSpec => RefusedForCause
<1> DEFINE Cause == \A p \in Procs : at'[p] = "refused" /\ at[p] # "refused"
                                   => \E q \in Locking \ {p} : at[q] = "writing"
<1>1. LockInv /\ [LockNext]_lockVars => [Cause]_lockVars
  <2> SUFFICES ASSUME LockInv, LockNext, NEW p \in Procs, at'[p] = "refused",
                      at[p] # "refused"
               PROVE  \E q \in Locking \ {p} : at[q] = "writing"
    OBVIOUS
  <2>1. Refused(p)
    BY DEF LockNext, OpenLock, Take, Refused, Skip, CloseLock, Die, LockInv, LockTypeOK
  <2>2. name \in Inodes /\ owner[name] # NoProc /\ at[p] = "opened"
    BY <2>1 DEF Refused, LockInv, OpensTheName
  <2>3. owner[name] \in Locking /\ at[owner[name]] = "writing"
    BY <2>2 DEF LockInv, HolderWrites
  <2>4. QED
    BY <2>2, <2>3
<1>2. QED
  BY <1>1, LockInvCorrect, PTL DEF LockSpec, RefusedForCause
-----------------------------------------------------------------------------
(* Every step is a beginning or an end of a write, or invisible.           *)
LEMMA StepPromise ==
  ASSUME LockInv, LockInv', [LockNext]_lockVars
  PROVE  [Promise!WriterNext]_Writer
<1>1. OneWriter /\ OneWriter'
  BY InvExcludes DEF LockInv, WriterHolds, OneWriter
<1>2. CASE \E p \in Procs : Take(p)
  <2>1. PICK p \in Procs : Take(p)
    BY <1>2
  <2>2. p \in Locking /\ at'[p] = "writing"
    BY <2>1 DEF Take, LockInv, LockTypeOK, OpensTheName
  <2>3. Holders = {}
    BY <2>1, LockAssumption DEF Take, LockInv, OpensTheName, WriterHolds, Holders
  <2>4. Holders' = {p}
    BY <1>1, <2>2 DEF Holders, OneWriter
  <2>5. Writer = NoProc /\ Writer' = p
    BY <2>3, <2>4 DEF Writer
  <2>6. QED
    BY <2>5 DEF Promise!WriterNext, Promise!Begin
<1>3. CASE \E p \in Holders : CloseLock(p) \/ Die(p)
  <2>1. PICK p \in Holders : CloseLock(p) \/ Die(p)
    BY <1>3
  <2>2. p \in Procs
    BY LockAssumption DEF Holders
  <2>3. Holders = {p}
    BY <1>1 DEF Holders, OneWriter
  <2>4. Holders' = {}
    BY <2>1, <2>2, <2>3, LockAssumption DEF CloseLock, Die, LockInv, LockTypeOK, Holders
  <2>5. Writer = p /\ Writer' = NoProc
    BY <2>3, <2>4 DEF Writer
  <2>6. QED
    BY <2>2, <2>5 DEF Promise!WriterNext, Promise!End
<1>4. CASE \E p \in Procs : OpenLock(p) \/ Refused(p) \/ Skip(p)
  <2>1. Holders' = Holders
    BY <1>4, LockAssumption DEF OpenLock, Refused, Skip, LockInv, LockTypeOK, Holders
  <2>2. QED
    BY <2>1 DEF Writer
<1>5. CASE \E p \in Procs \ Holders : CloseLock(p) \/ Die(p)
  <2>1. Holders' = Holders
    BY <1>5, LockAssumption DEF CloseLock, Die, LockInv, LockTypeOK, Holders
  <2>2. QED
    BY <2>1 DEF Writer
<1>6. CASE UNCHANGED lockVars
  BY <1>6 DEF lockVars, Writer, Holders
<1>7. QED
  BY <1>2, <1>3, <1>4, <1>5, <1>6 DEF LockNext

(* The lock implements the abstract one: nothing about descriptors, files  *)
(* and the order of opens and deaths is visible through it.                *)
THEOREM PromiseKeptCorrect == LockSpec => PromiseKept
<1>1. LockInit => Promise!WriterInit
  BY LockAssumption DEF LockInit, Promise!WriterInit, Writer, Holders
<1>2. LockInv /\ LockInv' /\ [LockNext]_lockVars => [Promise!WriterNext]_Writer
  BY StepPromise
<1>3. QED
  BY <1>1, <1>2, LockInvCorrect, PTL DEF LockSpec, PromiseKept, Promise!WriterSpec
=============================================================================

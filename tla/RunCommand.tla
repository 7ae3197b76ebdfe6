------------------------------ MODULE RunCommand ------------------------------
(***************************************************************************)
(* The commands `wmrm run` and `wmrm batch` (cli.cmd_run, cli.cmd_batch):  *)
(* the coverage check and the growing of the box, an engine that streams   *)
(* frames into a staged file (pipeline.run_inpaint, run_fast), its         *)
(* publication, the verification and the report (report.ReportWriter),     *)
(* with signals, kills and failures of the engine anywhere between them.   *)
(*                                                                         *)
(* One command at a time; that two of them do not share an output is       *)
(* OutputLock's business.  The ProPainter engine is in VideoPipeline.      *)
(***************************************************************************)
EXTENDS Naturals

CONSTANTS
  Files,    \* the videos of the folder
  Actual,   \* frames of each
  Areas,    \* the sizes a box may have
  GrowRounds, GrowLimit,   \* _GROW_ROUNDS, _GROW_LIMIT
  Env,      \* what may go wrong, see Switches
  NoFile, NoArea, NoCov, NoReport, NoOutput, NoArgs

(* "signal": SIGTERM or Ctrl-C.  "kill": SIGKILL.  "dead": the encoder     *)
(* dies.  "short": the decoder dies, which is taken for the end of the     *)
(* video.  "raise": an exception cmd_batch does not catch.  "late": the    *)
(* signal may also arrive while the report is being written.  "unwritable":*)
(* the disk or the directory may refuse the report.                        *)
Switches == {"signal", "kill", "dead", "short", "raise", "late", "unwritable"}

Gates == {"strict", "warn", "off"}

(* preview: --preview-only.  force: process what there is already an       *)
(* output for, which `run` always does.                                    *)
Args == [cmd: {"run"}, gate: Gates, grow: BOOLEAN, engine: {"inpaint", "fast"},
         preview: BOOLEAN, force: {TRUE}]
        \cup
        [cmd: {"batch"}, gate: Gates, grow: BOOLEAN, engine: {"inpaint", "fast"},
         preview: {FALSE}, force: BOOLEAN]

Verdicts == {"ok", "under", "inconclusive"}

(* What the check says of a box; if it is short, the box it would take.    *)
Coverage == [of: Areas, verdict: Verdicts, suggested: Areas \cup {NoArea}]

(* "error" stands for every outcome an exception of any other kind has.    *)
Outcomes == {"ok", "coverage_under", "coverage_inconclusive", "verify_failed",
             "interrupted", "error"}

Report == [outcome: Outcomes, output: BOOLEAN]

(* A video at its final name: whether it has every frame, and the box it   *)
(* was made with.                                                          *)
Output == [whole: BOOLEAN, box: Areas]

ASSUME CommandAssumption ==
  /\ Areas \subseteq Nat
  /\ {Actual, GrowRounds, GrowLimit} \subseteq Nat \ {0}
  /\ Env \subseteq Switches
  /\ NoFile \notin Files /\ NoArea \notin Areas /\ NoCov \notin Coverage
  /\ NoReport \notin Report /\ NoOutput \notin Output /\ NoArgs \notin Args

VARIABLES
  out,       \* out[f]: the output of f
  args, pc,
  todo,      \* the files of a batch that are still to be done
  file,
  box,
  attempt,   \* of _grow_to_cover
  cov,       \* the last verdict
  n,         \* frames written to the staged file
  enc,       \* its encoder: "none", "running" or "dead"
  failures, blocked,
  named,     \* whether the report names an output so far
  said,      \* what it is about to say
  written,   \* ReportWriter._written
  report,    \* the file at --report, of this command
  code,      \* the exit code
  made       \* history: this command published the output of file

measure == <<box, attempt, cov>>
stage   == <<n, enc>>
lists   == <<failures, blocked>>
writer  == <<named, said, written, report>>
vars == <<out, args, pc, todo, file, measure, stage, lists, writer, code, made>>

PCs == {"idle", "starting", "next", "resolving", "measuring", "judging", "gating",
        "opening", "framing", "closing", "verifying", "finishing", "failing", "writing",
        "exited"}

TypeOK ==
  /\ out \in [Files -> Output \cup {NoOutput}]
  /\ args \in Args \cup {NoArgs}
  /\ pc \in PCs
  /\ todo \subseteq Files
  /\ file \in Files \cup {NoFile}
  /\ box \in Areas \cup {NoArea}
  /\ attempt \in 0 .. GrowRounds - 1
  /\ cov \in Coverage \cup {NoCov}
  /\ n \in 0 .. Actual
  /\ enc \in {"none", "running", "dead"}
  /\ {failures, blocked} \subseteq SUBSET Files
  /\ {named, written, made} \subseteq BOOLEAN
  /\ {said, report} \subseteq Report \cup {NoReport}
  /\ code \in {"none", "0", "1", "error"}
  /\ pc \in {"framing", "closing"} <=> enc # "none"
  /\ pc \in {"opening", "framing", "closing"} => box # NoArea /\ file # NoFile

Init ==
  /\ out = [f \in Files |-> NoOutput]
  /\ args = NoArgs /\ pc = "idle"
  /\ todo = {} /\ file = NoFile
  /\ box = NoArea /\ attempt = 0 /\ cov = NoCov
  /\ n = 0 /\ enc = "none"
  /\ failures = {} /\ blocked = {}
  /\ named = FALSE /\ said = NoReport /\ written = FALSE /\ report = NoReport
  /\ code = "none"
  /\ made = FALSE
-----------------------------------------------------------------------------
(* What becomes of the process when a step of it ends.                     *)
Exit(c) ==
  /\ pc' = "exited"
  /\ code' = c
  /\ UNCHANGED <<args, todo, file, measure, lists, writer>>

Go(to) ==
  /\ pc' = to
  /\ UNCHANGED <<args, todo, file, lists, code>>

NoStage == n' = 0 /\ enc' = "none"

(* Variant: the report goes on naming the output.                          *)
FailNaming(outcome) ==
  /\ Go("failing")
  /\ said' = [outcome |-> outcome, output |-> named]
  /\ UNCHANGED <<measure, named, written, report>>

(* ReportWriter.fail, called for every exception: an output that was being *)
(* written is not an output.                                               *)
Fail(outcome) ==
  /\ Go("failing")
  /\ said' = [outcome |-> outcome, output |-> FALSE]
  /\ UNCHANGED <<measure, named, written, report>>

(* An exception: `run` reports it, and `batch` ends unless it is one of    *)
(* the three it catches.                                                   *)
Raised(outcome) ==
  IF args.cmd = "run" THEN Fail(outcome) ELSE Exit("error")

Caught ==
  IF args.cmd = "run"
    THEN Fail("error")
    ELSE /\ pc' = "next"
         /\ failures' = failures \cup {file}
         /\ UNCHANGED <<args, todo, file, measure, blocked, writer, code>>
-----------------------------------------------------------------------------
Free == pc \in {"idle", "exited"}

(* cmd_run.  Each command has a report of its own.                         *)
Run(f, a) ==
  /\ Free
  /\ a.cmd = "run"
  /\ args' = a
  /\ pc' = "resolving"
  /\ todo' = {}
  /\ file' = f
  /\ named' = FALSE /\ said' = NoReport /\ written' = FALSE /\ report' = NoReport
  /\ box' = NoArea /\ attempt' = 0 /\ cov' = NoCov
  /\ failures' = {} /\ blocked' = {}
  /\ code' = "none"
  /\ made' = FALSE
  /\ UNCHANGED <<out, stage>>

(* cmd_batch: what has an output is skipped.                               *)
Batch(a) ==
  /\ Free
  /\ a.cmd = "batch"
  /\ args' = a
  /\ pc' = "starting"
  /\ todo' = {f \in Files : out[f] = NoOutput \/ a.force}
  /\ file' = NoFile
  /\ named' = FALSE /\ said' = NoReport /\ written' = FALSE /\ report' = NoReport
  /\ box' = NoArea /\ attempt' = 0 /\ cov' = NoCov
  /\ failures' = {} /\ blocked' = {}
  /\ code' = "none"
  /\ made' = FALSE
  /\ UNCHANGED <<out, stage>>

(* The box for the folder and the engine: what is raised here ends the     *)
(* batch.                                                                  *)
Begin ==
  /\ pc = "starting"
  /\ IF todo = {} THEN Exit("0")
                  ELSE \/ Go("next") /\ UNCHANGED <<measure, writer>>
                       \/ Exit("error")
  /\ UNCHANGED <<out, stage, made>>

(* Variant: the files that were skipped do not count.                      *)
ExitCodeOfFailures == IF failures = {} THEN "0" ELSE "1"

ExitCode == IF failures \cup blocked = {} THEN "0" ELSE "1"

Pick ==
  /\ pc = "next"
  /\ IF todo = {}
       THEN Exit(ExitCode) /\ UNCHANGED made
       ELSE \E f \in todo :
              /\ file' = f
              /\ todo' = todo \ {f}
              /\ pc' = "resolving"
              /\ box' = NoArea /\ attempt' = 0 /\ cov' = NoCov
              /\ made' = FALSE
              /\ UNCHANGED <<args, lists, writer, code>>
  /\ UNCHANGED <<out, stage>>

(* The gate a run is held to: a preview shows the box whatever it says.    *)
Gate == IF args.preview THEN "warn" ELSE args.gate

(* probe and _resolve_region; a run then names its output.                 *)
Resolve(b) ==
  /\ pc = "resolving"
  /\ box' = b
  /\ named' = (args.cmd = "run")
  /\ Go(IF Gate = "off" THEN "opening" ELSE "measuring")
  /\ UNCHANGED <<out, attempt, cov, stage, said, written, report, made>>

(* A file that cannot be read, or no mark found in it.                     *)
Unreadable ==
  /\ pc \in {"resolving", "measuring"}
  /\ Caught
  /\ UNCHANGED <<out, stage, made>>
-----------------------------------------------------------------------------
(* _grow_to_cover.                                                         *)
Rounds == IF args.grow THEN GrowRounds ELSE 1

Measure ==
  /\ pc = "measuring"
  /\ \/ \E verdict \in {"ok", "inconclusive"} :
          cov' = [of |-> box, verdict |-> verdict, suggested |-> NoArea]
     \/ \E a \in Areas :
          /\ a >= box
          /\ cov' = [of |-> box, verdict |-> "under", suggested |-> a]
  /\ Go("judging")
  /\ UNCHANGED <<out, box, attempt, stage, writer, made>>

(* The check has found more of the mark, and not half of the background.   *)
Believable == cov.suggested \in {a \in Areas : a # box /\ a <= GrowLimit * box}

(* Variant: the box grows after the last measurement too.                  *)
SettledUnmeasured == ~args.grow \/ cov.verdict # "under" \/ ~Believable

(* The box is not grown any more.                                          *)
Settled ==
  ~args.grow \/ cov.verdict # "under" \/ attempt = Rounds - 1 \/ ~Believable

Settle ==
  /\ pc = "judging"
  /\ Settled
  /\ Go("gating")
  /\ UNCHANGED <<out, measure, stage, writer, made>>

Grow ==
  /\ pc = "judging"
  /\ ~Settled
  /\ box' = cov.suggested
  /\ attempt' = attempt + 1
  /\ Go(IF attempt' < Rounds THEN "measuring" ELSE "gating")
  /\ UNCHANGED <<out, cov, stage, writer, made>>

(* _run_coverage_gate: a run stops at a box that is short, and at one that *)
(* nothing can be said of.  A batch skips the one and processes the other. *)
Accepts ==
  \/ Gate = "warn"
  \/ cov.verdict = "ok"
  \/ cov.verdict = "inconclusive" /\ args.cmd = "batch"

Accept ==
  /\ pc = "gating"
  /\ Accepts
  /\ Go("opening")
  /\ UNCHANGED <<out, measure, stage, writer, made>>

Reject ==
  /\ pc = "gating"
  /\ ~Accepts
  /\ IF args.cmd = "run"
       THEN Fail(IF cov.verdict = "under" THEN "coverage_under"
                                          ELSE "coverage_inconclusive")
       ELSE /\ pc' = "next"
            /\ blocked' = blocked \cup {file}
            /\ UNCHANGED <<args, todo, file, measure, failures, writer, code>>
  /\ UNCHANGED <<out, stage, made>>
-----------------------------------------------------------------------------
(* --preview-only: nothing is processed.                                   *)
Preview ==
  /\ pc = "opening"
  /\ args.preview
  /\ said' = [outcome |-> "ok", output |-> named]
  /\ Go("finishing")
  /\ UNCHANGED <<out, measure, stage, named, written, report, made>>

(* run_inpaint: a decoder, an encoder into a staged file.                  *)
Open ==
  /\ pc = "opening"
  /\ ~args.preview
  /\ args.engine = "inpaint"
  /\ n' = 0 /\ enc' = "running"
  /\ Go("framing")
  /\ UNCHANGED <<out, measure, writer, made>>

Frame ==
  /\ pc = "framing"
  /\ n < Actual
  /\ enc = "running"
  /\ n' = n + 1
  /\ UNCHANGED <<out, args, pc, todo, file, measure, enc, lists, writer, code, made>>

(* The write fails: the encoder has gone, and so does the staged file.     *)
FrameBreaks ==
  /\ pc = "framing"
  /\ n < Actual
  /\ enc = "dead"
  /\ Caught
  /\ NoStage
  /\ UNCHANGED <<out, made>>

(* The pipe of the decoder ends; its exit code is not asked for.           *)
FramesEnd ==
  /\ pc = "framing"
  /\ n = Actual \/ "short" \in Env
  /\ Go("closing")
  /\ UNCHANGED <<out, measure, stage, writer, made>>

EncoderDies ==
  /\ "dead" \in Env
  /\ enc = "running"
  /\ enc' = "dead"
  /\ UNCHANGED <<out, args, pc, todo, file, measure, n, lists, writer, code, made>>

(* The staged file takes its place.                                        *)
Publish(whole) ==
  /\ out' = [out EXCEPT ![file] = [whole |-> whole, box |-> box]]
  /\ made' = TRUE
  /\ Go(IF args.cmd = "run" THEN "verifying" ELSE "next")
  /\ UNCHANGED <<measure, writer>>

(* Variant: that there are frames is enough.                               *)
EncodedSome == n > 0

(* There are frames, and the encoder exited with 0.                        *)
Encoded == n > 0 /\ enc = "running"

Close ==
  /\ pc = "closing"
  /\ IF Encoded THEN Publish(n = Actual /\ enc = "running")
                ELSE Caught /\ UNCHANGED <<out, made>>
  /\ NoStage

(* run_fast: one ffmpeg does it all, or fails.                             *)
Fast ==
  /\ pc = "opening"
  /\ ~args.preview
  /\ args.engine = "fast"
  /\ \/ Publish(TRUE)
     \/ Caught /\ UNCHANGED <<out, made>>
  /\ UNCHANGED stage

(* Anything else raises: a bad box, the lock, the model, the verification. *)
Raise ==
  /\ "raise" \in Env
  /\ pc \in {"resolving", "opening", "framing", "verifying"}
  /\ Raised("error")
  /\ NoStage
  /\ UNCHANGED <<out, made>>

(* The checks, or none at all (--no-verify).                               *)
Verify ==
  /\ pc = "verifying"
  /\ said' \in {[outcome |-> "ok", output |-> TRUE],
               [outcome |-> "verify_failed", output |-> FALSE]}
  /\ Go("finishing")
  /\ UNCHANGED <<out, measure, stage, named, written, report, made>>
-----------------------------------------------------------------------------
(* ReportWriter._finish and _write: what has been written is not written   *)
(* again, and the file is replaced as a whole, or not at all: an OSError   *)
(* is not passed on, and the flush of cmd_run finds nothing left to do.    *)
Finish ==
  /\ pc \in {"finishing", "failing"}
  /\ written' = TRUE
  /\ Go("writing")
  /\ UNCHANGED <<out, measure, stage, named, said, report, made>>

Replace ==
  /\ pc = "writing"
  /\ \/ report' = said
     \/ "unwritable" \in Env /\ report' = report
  /\ pc' = "exited"
  /\ code' = CASE said.outcome = "ok" -> "0"
               [] said.outcome = "verify_failed" -> "1"
               [] OTHER -> "error"
  /\ UNCHANGED <<out, args, todo, file, measure, stage, lists, named, said, written,
                 made>>
-----------------------------------------------------------------------------
Reporting == pc \in {"failing", "writing"}

(* Variant: nothing turns the signal into an exception.                    *)
SignalKills ==
  /\ "signal" \in Env
  /\ ~Free
  /\ Exit("error")
  /\ NoStage
  /\ UNCHANGED <<out, made>>

(* _install_signal_handlers: a signal is an exception of the main thread.  *)
(* In the handler of another one it leads to flush(), and in flush() and   *)
(* anywhere in _write() out of the command.                                *)
Signal ==
  /\ "signal" \in Env
  /\ ~Free
  /\ Reporting => "late" \in Env
  /\ CASE pc = "writing" -> Exit("error")
       [] pc = "failing" ->
            /\ said' = [outcome |-> "error", output |-> named]
            /\ Go("finishing")
            /\ UNCHANGED <<measure, named, written, report>>
       [] OTHER -> Raised("interrupted")
  /\ NoStage
  /\ UNCHANGED <<out, made>>

Kill ==
  /\ "kill" \in Env
  /\ ~Free
  /\ pc' = "idle"
  /\ NoStage
  /\ UNCHANGED <<out, args, todo, file, measure, lists, writer, code, made>>
-----------------------------------------------------------------------------
Next ==
  \/ \E a \in Args : Batch(a) \/ \E f \in Files : Run(f, a)
  \/ Begin \/ Pick
  \/ \E b \in Areas : Resolve(b)
  \/ Unreadable
  \/ Measure \/ Settle \/ Grow \/ Accept \/ Reject
  \/ Preview \/ Open \/ Frame \/ FrameBreaks \/ FramesEnd \/ EncoderDies
  \/ Close \/ Fast \/ Raise \/ Verify
  \/ Finish \/ Replace
  \/ Signal \/ Kill

Spec == Init /\ [][Next]_vars
-----------------------------------------------------------------------------
(* pipeline.py: an interrupted or failed run leaves no truncated file that *)
(* a later batch would skip: what has its final name has every frame.      *)
WholeOutputs == \A f \in Files : out[f] # NoOutput => out[f].whole

(* _grow_to_cover, _run_coverage_gate: the verdict a box is processed      *)
(* under was measured on this very box, and under a strict gate it says    *)
(* that the box covers the mark, or in a batch that nobody can tell.       *)
Judged ==
  pc \in {"opening", "framing", "closing", "verifying"} /\ Gate # "off" =>
    /\ cov # NoCov /\ cov.of = box
    /\ Gate = "strict" =>
         cov.verdict \in IF args.cmd = "run" THEN {"ok"} ELSE {"ok", "inconclusive"}

(* ReportWriter: a report that names an output is about one this command   *)
(* published, whole and made with its box; `ok` means that and nothing     *)
(* else.  (A preview publishes nothing and its report names an output all  *)
(* the same.)                                                              *)
ReportTrue ==
  report # NoReport /\ ~args.preview =>
    /\ report.output <=> report.outcome = "ok"
    /\ report.output => made /\ out[file] = [whole |-> TRUE, box |-> box]

(* tests/test_report.py: a report is written on every exit path, also      *)
(* those that raise and those that a signal takes.  (Where it can be       *)
(* written, and no signal comes while it is: ReportWriter does not try     *)
(* again.)                                                                 *)
Reported == pc = "exited" /\ args.cmd = "run" => report # NoReport

(* cmd_batch: a batch that ends by itself has an output for every video,   *)
(* but for those it lists, and says by its exit code whether there are     *)
(* any.                                                                    *)
Accounted ==
  pc = "exited" /\ args.cmd = "batch" /\ code # "error" =>
    /\ code = "0" => failures \cup blocked = {}
    /\ \A f \in Files : f \in failures \cup blocked \/ out[f] # NoOutput
=============================================================================

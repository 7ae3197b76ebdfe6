------------------------------- MODULE PartsDir -------------------------------
(***************************************************************************)
(* The parts directory of a ProPainter run (video.py): how a run that may  *)
(* be killed at any point composites a video part by part, how the next    *)
(* one resumes from the parts it finds, and how they become one file.      *)
(*                                                                         *)
(* Runs on one output come one after the other (OutputLock), so there is   *)
(* one run at a time; what interleaves with its steps is its death.        *)
(***************************************************************************)
EXTENDS Naturals, FiniteSets

CONSTANTS
  Settings,    \* what a run may be asked for: the fingerprints
  Counts,      \* the frame counts probe may report, 0 when unknown
  Actual,      \* the frames of the source
  Decoded,     \* how many of them a decoder may deliver: fewer when it dies
  PartFrames,  \* opts.part_frames
  Resumes,     \* the values --resume may have
  MaxFaults,   \* bound on kills and failures of ffmpeg, the model or the disk
  NoMade, NoPart

ASSUME PartsAssumption ==
  /\ Counts \subseteq Nat
  /\ Actual \in Nat \ {0}
  /\ Decoded \subseteq 1 .. Actual
  /\ PartFrames \in Nat \ {0}
  /\ Resumes \subseteq BOOLEAN
  /\ MaxFaults \in Nat

Least(a, b) == IF a <= b THEN a ELSE b

PartCount(frames) == (frames + PartFrames - 1) \div PartFrames

(* Frames of part k in a video of that many frames.                        *)
Share(k, frames) ==
  IF k * PartFrames < frames THEN Least(PartFrames, frames - k * PartFrames) ELSE 0

Indices == 0 .. PartCount(Actual)

(* What decides the pixels: the settings that go into the fingerprint and  *)
(* the settings the shot boundaries were detected with.                    *)
Made == [fp: Settings, cuts: Settings]

ASSUME NoMadeAssumption == NoMade \notin Made

(* A part: the frame it starts at, its readable length (0: none, as of a   *)
(* file that is still open or was cut short), and how it was made.         *)
Part == [first: Nat, len: 0 .. PartFrames, made: Made]

ASSUME NoPartAssumption == NoPart \notin Part

VARIABLES
  counted,   \* probe's frame count of the source
  manifest,  \* manifest.json, NoMade when it is missing or unreadable
  parts,     \* parts[k]: part-<k>.mp4
  dst,       \* the published output: the parts it was joined from
  pc,        \* where the run is
  made,      \* what the run makes parts with
  keep,      \* whether its manifest matched: prior is not None
  until,     \* the frame at which the pipe of its decoder ends
  index,     \* _PartSink.index
  count,     \* _PartSink._count
  tmp,       \* the joined file before os.replace
  faults     \* faults so far

opts == <<counted, made, keep, until>>
sink == <<index, count>>
vars == <<opts, sink, manifest, parts, dst, pc, tmp, faults>>

PCs == {"idle", "clearing", "noting", "writing", "trimming", "composing",
        "feeding", "joining", "publishing", "removing"}

TypeOK ==
  /\ counted \in Counts
  /\ manifest \in Made \cup {NoMade}
  /\ parts \in [Indices -> Part \cup {NoPart}]
  /\ pc \in PCs
  /\ made \in Made \cup {NoMade}
  /\ keep \in BOOLEAN
  /\ until \in 1 .. Actual
  /\ index \in Nat
  /\ count \in 0 .. PartFrames
  /\ faults \in 0 .. MaxFaults
  /\ pc # "idle" => made \in Made

Init ==
  /\ counted \in Counts
  /\ manifest = NoMade
  /\ parts = [k \in Indices |-> NoPart]
  /\ dst = <<>>
  /\ pc = "idle"
  /\ made = NoMade
  /\ keep = FALSE
  /\ until = Actual
  /\ index = 0
  /\ count = 0
  /\ tmp = <<>>
  /\ faults = 0
-----------------------------------------------------------------------------
(* The end of a run, good or bad: what is not on disk is gone.             *)
Exit == /\ pc' = "idle"
        /\ made' = NoMade
        /\ keep' = FALSE
        /\ until' = Actual
        /\ index' = 0
        /\ count' = 0
        /\ tmp' = <<>>

(* The manifest that was found is about these very settings.               *)
Matches(found, s) == found # NoMade /\ found.fp = s

(* Variant: the decoder is given probe's count of frames as its limit.     *)
PipeEndsAtCount == {IF counted = 0 THEN Actual ELSE Least(counted, Actual)}

(* Where the pipe of a decoder may end: it is given no count, and reads on *)
(* to the end of the source unless it dies.                                *)
PipeEnds == Decoded

(* The manifest is read, the shot boundaries are taken from it if there is *)
(* one, and only then the fingerprints are compared.                       *)
Start(s, resume) ==
  LET found == IF resume THEN manifest ELSE NoMade
  IN  /\ pc = "idle"
      /\ made' = [fp |-> s, cuts |-> IF found = NoMade THEN s ELSE found.cuts]
      /\ keep' = Matches(found, s)
      /\ until' \in PipeEnds
      /\ pc' = IF Matches(found, s) THEN "noting" ELSE "clearing"
      /\ UNCHANGED <<sink, counted, manifest, parts, dst, tmp, faults>>

(* Nothing to resume: the parts go, in the order the directory lists them. *)
Clear(k) ==
  /\ pc = "clearing"
  /\ parts[k] # NoPart
  /\ parts' = [parts EXCEPT ![k] = NoPart]
  /\ UNCHANGED <<opts, sink, manifest, dst, pc, tmp, faults>>

(* Variant: the parts of other settings are left where they are.           *)
ClearedEarly ==
  /\ pc = "clearing"
  /\ pc' = "noting"
  /\ UNCHANGED <<opts, sink, manifest, parts, dst, tmp, faults>>

Cleared ==
  /\ pc = "clearing"
  /\ \A k \in Indices : parts[k] = NoPart
  /\ pc' = "noting"
  /\ UNCHANGED <<opts, sink, manifest, parts, dst, tmp, faults>>

(* write_text opens the file for writing, which empties it ...             *)
Truncate ==
  /\ pc = "noting"
  /\ manifest' = NoMade
  /\ pc' = "writing"
  /\ UNCHANGED <<opts, sink, parts, dst, tmp, faults>>

(* ... and then writes it.                                                 *)
Note ==
  /\ pc = "writing"
  /\ manifest' = made
  /\ pc' = IF keep THEN "trimming" ELSE "composing"
  /\ UNCHANGED <<opts, sink, parts, dst, tmp, faults>>
-----------------------------------------------------------------------------
(* Variant: whatever part is there is taken to be whole.                   *)
ExistsIsComplete(k) == Share(k, counted) > 0 /\ parts[k] # NoPart

(* A part of the right length for its place.                               *)
Complete(k) ==
  /\ Share(k, counted) > 0
  /\ parts[k] # NoPart
  /\ parts[k].len = Share(k, counted)

(* The unbroken prefix of complete parts; everything else is stale.        *)
Usable == {k \in Indices : \A i \in 0 .. k : Complete(i)}

Stale == {k \in Indices \ Usable : parts[k] # NoPart}

(* _usable_parts removes the stale parts in order ...                      *)
Trim(k) ==
  /\ pc = "trimming"
  /\ k \in Stale
  /\ \A i \in Stale : k <= i
  /\ parts' = [parts EXCEPT ![k] = NoPart]
  /\ UNCHANGED <<opts, sink, manifest, dst, pc, tmp, faults>>

(* ... and the run starts at the first frame that has no part.             *)
Trimmed ==
  /\ pc = "trimming"
  /\ Stale = {}
  /\ index' = Least(Cardinality(Usable) * PartFrames, counted)
  /\ pc' = "composing"
  /\ UNCHANGED <<opts, manifest, parts, dst, count, tmp, faults>>
-----------------------------------------------------------------------------
(* The part that is open.                                                  *)
Current == (index - count) \div PartFrames

(* How many frames its ffmpeg will take (variant: one too few).            *)
CapShort(k) ==
  IF Share(k, counted) = 0 THEN PartFrames ELSE Share(k, counted) - 1

Cap(k) == IF Share(k, counted) = 0 THEN PartFrames ELSE Share(k, counted)

(* _PartSink.write opens a part whenever the frame is not of the last one. *)
Open ==
  LET k == index \div PartFrames
  IN  /\ pc = "composing"
      /\ index < until
      /\ parts' = [parts EXCEPT ![k] = [first |-> index, len |-> 0, made |-> made]]
      /\ count' = 0
      /\ pc' = "feeding"
      /\ UNCHANGED <<opts, manifest, dst, index, tmp, faults>>

(* The open part takes no more: the next frame is of another part, or      *)
(* there is none.                                                          *)
Full == index >= until \/ index \div PartFrames # Current

Feed ==
  /\ pc = "feeding"
  /\ count = 0 \/ ~Full
  /\ index' = index + 1
  /\ count' = count + 1
  /\ UNCHANGED <<opts, manifest, parts, dst, pc, tmp, faults>>

(* The part holds what was fed into it.                                    *)
Close ==
  /\ pc = "feeding"
  /\ count > 0 /\ Full
  /\ count <= Cap(Current)
  /\ parts' = [parts EXCEPT ![Current].len = count]
  /\ count' = 0
  /\ pc' = "composing"
  /\ UNCHANGED <<opts, manifest, dst, index, tmp, faults>>

(* ffmpeg stopped at its cap (-frames:v): a broken pipe or, at the latest, *)
(* the wrong number of frames in the part.  The part goes, the run fails.  *)
CloseRefused ==
  /\ pc = "feeding"
  /\ count > 0 /\ Full
  /\ count > Cap(Current)
  /\ parts' = [parts EXCEPT ![Current] = NoPart]
  /\ Exit
  /\ UNCHANGED <<counted, manifest, dst, faults>>

(* The model, the compositing ffmpeg or a thread fails, or the run is      *)
(* interrupted: the open part is abandoned, the finished ones stay.        *)
Fail ==
  /\ pc \in {"composing", "feeding"}
  /\ faults < MaxFaults
  /\ faults' = faults + 1
  /\ parts' = IF pc = "feeding" THEN [parts EXCEPT ![Current] = NoPart] ELSE parts
  /\ Exit
  /\ UNCHANGED <<counted, manifest, dst>>

(* The pipe of the decoder has ended, whatever probe counted.  It is not   *)
(* asked why: a decoder that died ends the video like one that is through. *)
Composed ==
  /\ pc = "composing"
  /\ index >= until
  /\ pc' = "joining"
  /\ UNCHANGED <<opts, sink, manifest, parts, dst, tmp, faults>>
-----------------------------------------------------------------------------
Present == {k \in Indices : parts[k] # NoPart}

Contiguous == Present # {} /\ Present = 0 .. Cardinality(Present) - 1

Joined == [i \in 1 .. Cardinality(Present) |-> parts[i - 1]]

(* The frames of a video: which of which part.                             *)
Frames(video) == {f \in (DOMAIN video) \X (1 .. PartFrames) : f[2] <= video[f[1]].len}

Counted(video) == Cardinality(Frames(video))

(* As many frames as were decoded are in the parts; then _join_parts: no   *)
(* gap, and every frame that was written is in the file.                   *)
Join ==
  /\ pc = "joining"
  /\ index = until
  /\ Contiguous
  /\ Counted(Joined) = index
  /\ tmp' = Joined
  /\ pc' = "publishing"
  /\ UNCHANGED <<opts, sink, manifest, parts, dst, faults>>

(* Refused: the parts stay as they are.                                    *)
JoinRefused ==
  /\ pc = "joining"
  /\ index # until \/ ~Contiguous \/ Counted(Joined) # index
  /\ Exit
  /\ UNCHANGED <<counted, manifest, parts, dst, faults>>

Publish ==
  /\ pc = "publishing"
  /\ dst' = tmp
  /\ pc' = "removing"
  /\ UNCHANGED <<opts, sink, manifest, parts, tmp, faults>>

(* shutil.rmtree with ignore_errors: file by file, and whatever it cannot  *)
(* remove stays.                                                           *)
Remove ==
  /\ pc = "removing"
  /\ \/ manifest' = NoMade /\ UNCHANGED parts
     \/ \E k \in Present : parts' = [parts EXCEPT ![k] = NoPart] /\ UNCHANGED manifest
  /\ UNCHANGED <<opts, sink, dst, pc, tmp, faults>>

Removed ==
  /\ pc = "removing"
  /\ Exit
  /\ UNCHANGED <<counted, manifest, parts, dst, faults>>

(* The process or the pod dies.  The ffmpeg of the open part sees the end  *)
(* of its input and finishes the file with what it got, or dies as well.   *)
Kill ==
  /\ pc # "idle"
  /\ faults < MaxFaults
  /\ faults' = faults + 1
  /\ IF pc = "feeding"
       THEN \E n \in 0 .. Least(count, Cap(Current)) :
              parts' = [parts EXCEPT ![Current].len = n]
       ELSE UNCHANGED parts
  /\ Exit
  /\ UNCHANGED <<counted, manifest, dst>>
-----------------------------------------------------------------------------
RunStep ==
  \/ \E k \in Indices : Clear(k) \/ Trim(k)
  \/ Cleared \/ Truncate \/ Note \/ Trimmed
  \/ Open \/ Feed \/ Close \/ CloseRefused \/ Composed
  \/ Join \/ JoinRefused \/ Publish \/ Removed

Next ==
  \/ \E s \in Settings, resume \in Resumes : Start(s, resume)
  \/ RunStep
  \/ Remove \/ Fail \/ Kill

Spec == Init /\ [][Next]_vars

(* A run proceeds, and somebody runs the same command again.               *)
FairSpec ==
  /\ Spec
  /\ WF_vars(RunStep)
  /\ \A s \in Settings, resume \in Resumes : WF_vars(Start(s, resume))
-----------------------------------------------------------------------------
(* _join_parts: what is published is the whole video, its parts in order,  *)
(* each holding the frames of its place and none of them short, whatever   *)
(* runs were killed before, wherever they were killed, and also when probe *)
(* counts the frames wrong -- as long as every decoder delivers what it    *)
(* was asked for.                                                          *)
WholeVideo == dst # <<>> =>
  /\ DOMAIN dst = 1 .. PartCount(Actual)
  /\ \A i \in DOMAIN dst : /\ dst[i].first = (i - 1) * PartFrames
                           /\ dst[i].len = Share(i - 1, Actual)

(* _fingerprint: a published video is made one way from its first frame to *)
(* its last, whatever settings the runs that made its parts were given.    *)
OneMaking == \A i, j \in DOMAIN dst : dst[i].made = dst[j].made

(* build_manifest: a manifest that can be read describes every part beside *)
(* it, at every moment a run may die.                                      *)
Described == \A k \in Indices :
  manifest # NoMade /\ parts[k] # NoPart => parts[k].made = manifest

(* The counts that do not end inside a part: with another one the last     *)
(* part is given more frames than its ffmpeg will take, and may be taken   *)
(* for complete when it is not.                                            *)
CountFits == counted = 0 \/ counted >= Actual \/ counted % PartFrames = 0

(* _PartSink: a part that is complete when a matching run resumes from it  *)
(* is finished for good, until the video is published.                     *)
ResumeKeeps == [][\A k \in Usable :
  CountFits /\ keep /\ pc \notin {"idle", "removing"} => parts'[k] = parts[k]]_vars

(* Running the same command again and again publishes a video in the end.  *)
Finishes == CountFits => <>(dst # <<>>)
=============================================================================

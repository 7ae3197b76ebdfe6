------------------------------ MODULE PatchEngine ------------------------------
(***************************************************************************)
(* The engines that repair a video frame by frame (backends.py), over the  *)
(* videos of one command: which box and tile each gets (cli.py,            *)
(* region.py), which engine object repairs it, and what that object        *)
(* remembers from one frame and one video to the next: the patch of        *)
(* CachingBackend, the fitted map of UnblendBackend.                       *)
(*                                                                         *)
(* The pixels around the hole are one level, and two frames differ by the  *)
(* difference of their levels; a patch is the frame it was made from.      *)
(***************************************************************************)
EXTENDS TileRegion

CONSTANTS
  Videos,      \* their number
  Frames,      \* of each
  Sizes,       \* the frame sizes there are
  Boxes,       \* what may be given, detected or suggested, before it is clamped
  Levels,
  Hold, Tolerance,       \* --patch-hold, --cache-tolerance
  Env,                   \* which commands and engines a run is about
  NoBox, NoPreset, NoRegion, NoPatch, NoEngine

(* "each": a box and an engine per video, which is also what `run` does.   *)
(* "preset": one preset, given or detected on the first video, and one     *)
(* engine for the folder.  "box": the same with --box.  "unblend": the     *)
(* engine may be the one that solves for what is under the mark.  "grow":  *)
(* the coverage check may suggest a larger box.                            *)
Commands == {"each", "preset", "box"}

ASSUME EngineAssumption ==
  /\ {Videos, Frames, Hold} \subseteq Nat \ {0}
  /\ Sizes \subseteq Nat \ {0} /\ Boxes \subseteq [x : Int, w : Int]
  /\ Levels \subseteq Nat /\ Tolerance \in Nat
  /\ Env \subseteq Commands \cup {"unblend", "grow"}

VARIABLES
  size,      \* size[i]: of video i
  how,       \* the command
  kind,      \* the engine: "inpaint" or "unblend"
  given,     \* what the command was given, or found on the first video
  engine,
  pc,
  video, box, knobs, region,
  n,         \* frames written
  used       \* history: the last frame's level, and the patch it got

command == <<size, how, kind, given>>
place   == <<box, knobs, region>>
vars == <<command, engine, pc, video, place, n, used>>

Patch == [video : 1 .. Videos, frame : 1 .. Frames, level : Levels]

ASSUME NoPatchAssumption == NoPatch \notin Patch

TypeOK ==
  /\ size \in [1 .. Videos -> Sizes]
  /\ how \in Commands /\ kind \in {"inpaint", "unblend"}
  /\ pc \in {"idle", "resolved", "judged", "framing", "exited", "failed"}
  /\ video \in 0 .. Videos /\ n \in 0 .. Frames
  /\ engine # NoEngine =>
       /\ engine.patch \in Patch \cup {NoPatch}
       /\ engine.around \in [level : Levels, extent : Nat] \cup {NoPatch}
       /\ engine.age \in 0 .. Videos * Frames
       /\ engine.patch = NoPatch <=> engine.age = 0
  /\ region # NoRegion =>   \* within the frame, and not empty
       LET t == region.tile
           h == region.hole
       IN  0 <= t.lo /\ t.lo <= h.lo /\ h.lo < h.hi /\ h.hi <= t.hi /\ t.hi <= size[video]

In(b, s) == b.x >= 0 /\ b.x + b.w <= s

Init ==
  /\ size \in [1 .. Videos -> Sizes]
  /\ how \in Env \cap Commands
  /\ kind \in {"inpaint"} \cup (Env \cap {"unblend"})
  /\ given = NoPreset /\ engine = NoEngine
  /\ pc = "idle" /\ video = 0
  /\ box = NoBox /\ knobs = NoPreset /\ region = NoRegion
  /\ n = 0 /\ used = NoPatch
-----------------------------------------------------------------------------
(* _resolve_region and the loop of cmd_batch: the knobs and the box of     *)
(* video i, of size s.                                                     *)
KnobsOf(i, g) == IF how = "preset" THEN ScaledPx(g, size[i]) ELSE g
BoxOf(i, g) == IF how = "preset" THEN BoxFor(g, size[i]) ELSE Clamp(g, size[i])

(* make_backend: an un-blend map is fitted to one tile of one video; no    *)
(* patch is remembered yet.                                                *)
Made(i, b, k) ==
  [fit   |-> IF kind = "unblend" THEN [video |-> i, tile |-> Tile(b, size[i], k)] ELSE NoRegion,
   patch |-> NoPatch, around |-> NoPatch, age |-> 0]

(* The command begins.  For a folder with one box the engine is made here, *)
(* for the box as the first video has it.                                  *)
Begin ==
  /\ pc = "idle" /\ given = NoPreset /\ how # "each"
  /\ \E s \in Sizes, b \in Boxes :
       /\ how = "preset" => In(b, s)
       /\ given' = FromBox(b, s)
       /\ engine' = Made(1, BoxOf(1, given'), KnobsOf(1, given'))
  /\ UNCHANGED <<size, how, kind, pc, video, place, n, used>>

(* The next video gets its box: the command's, or what is detected on it.  *)
Resolve ==
  /\ pc = "idle" /\ video < Videos
  /\ how = "each" \/ given # NoPreset
  /\ video' = video + 1
  /\ IF how = "each"
       THEN \E b \in Boxes : box' = Clamp(b, size[video'])
                             /\ knobs' = FromBox(box', size[video'])
       ELSE box' = BoxOf(video', given) /\ knobs' = KnobsOf(video', given)
  /\ pc' = "resolved"
  /\ UNCHANGED <<command, engine, region, n, used>>

(* The coverage check: the box stays, or a suggestion that has it inside   *)
(* takes its place.                                                        *)
Judge ==
  /\ pc = "resolved"
  /\ \/ box' = box
     \/ /\ "grow" \in Env
        /\ \E b \in Boxes : /\ In(b, size[video])
                            /\ b.x <= box.x /\ b.x + b.w >= box.x + box.w
                            /\ box' = b
  /\ pc' = "judged"
  /\ UNCHANGED <<command, engine, video, knobs, region, n, used>>

(* The engine of the video: a new one, unless the folder shares one.       *)
EngineFor == IF how = "each" THEN Made(video, box, knobs) ELSE engine

(* run_inpaint starts: the region is built, the frames follow.             *)
Start ==
  /\ pc = "judged"
  /\ engine' = EngineFor
  /\ region' = Region(box, size[video], knobs)
  /\ n' = 0
  /\ pc' = "framing"
  /\ UNCHANGED <<command, video, box, knobs, used>>
-----------------------------------------------------------------------------
Applicable ==
  kind = "unblend" =>
    engine.fit.tile.hi - engine.fit.tile.lo = region.tile.hi - region.tile.lo

(* Whether anything is remembered at all: for un-blend, the strokes it     *)
(* cannot solve for are inpainted, and cached only when asked.             *)
Remembers == Hold > 1 \/ (kind = "inpaint" /\ Tolerance > 0)

Extent == (region.tile.hi - region.tile.lo) - (region.hole.hi - region.hole.lo)

Apart(a, b) == Max({a - b, b - a})

Around(level) == [level |-> level, extent |-> Extent]

Reusable(level) ==
  /\ Remembers /\ engine.patch # NoPatch
  /\ engine.around.extent = Extent
  /\ engine.age < Hold \/ Apart(level, engine.around.level) <= Tolerance

(* Variant: what the next frame is compared with is this one.              *)
ReuseDrifting(level) ==
  /\ Reusable(level)
  /\ engine' = [engine EXCEPT !.age = @ + 1, !.around = Around(level)]
  /\ used' = [level |-> level, patch |-> engine.patch]

Reuse(level) ==
  /\ Reusable(level)
  /\ engine' = [engine EXCEPT !.age = @ + 1]
  /\ used' = [level |-> level, patch |-> engine.patch]

Repair(level) ==
  /\ ~ Reusable(level)
  /\ LET fresh == [video |-> video, frame |-> n + 1, level |-> level]
     IN  /\ engine' = IF Remembers
                        THEN [engine EXCEPT !.patch = fresh, !.around = Around(level), !.age = 1]
                        ELSE engine
         /\ used' = [level |-> level, patch |-> fresh]

(* Backend.inpaint on the next frame.                                      *)
Frame ==
  /\ pc = "framing" /\ n < Frames /\ Applicable
  /\ n' = n + 1
  /\ \E level \in Levels : Reuse(level) \/ Repair(level)
  /\ UNCHANGED <<command, pc, video, place>>

(* A map of another extent cannot be applied: an exception that ends the   *)
(* command.                                                                *)
Misfit ==
  /\ pc = "framing" /\ ~ Applicable
  /\ pc' = "failed"
  /\ UNCHANGED <<command, engine, video, place, n, used>>

Finish ==
  /\ pc = "framing" /\ n = Frames
  /\ pc' = IF video = Videos THEN "exited" ELSE "idle"
  /\ box' = NoBox /\ knobs' = NoPreset /\ region' = NoRegion
  /\ n' = 0 /\ used' = NoPatch
  /\ UNCHANGED <<command, engine, video>>

Next == Begin \/ Resolve \/ Judge \/ Start \/ Frame \/ Misfit \/ Finish

Spec == Init /\ [][Next]_vars
-----------------------------------------------------------------------------
(* The tile is not cut back: the frame is whole blocks, or the margin ends *)
(* before the last piece of one.                                           *)
Uncut(b, s, k) == s % AlignPx = 0 \/ b.x + b.w + k.margin <= s - (s % AlignPx)

(* Whatever is lost in the rounding of its place and extent at another     *)
(* size, a mark is repaired to the last pixel a preset says it has: the    *)
(* repair has its full weight over the box and its dilation (box_for,      *)
(* scaled_px, build_region).  A tile that is cut back at the end of the    *)
(* frame may miss the last pixel.                                          *)
MarkRepairedAlways ==
  pc = "framing" /\ how = "preset" =>
    /\ Max({region.tile.lo, box.x - knobs.dilate}) * given.of <= given.x * size[video]
    /\ Min({region.tile.hi, box.x + box.w + knobs.dilate}) * given.of
         >= (given.x + given.w) * size[video]

MarkRepaired ==
  pc = "framing" /\ Uncut(box, size[video], knobs) => MarkRepairedAlways

(* However the tile is aligned, it keeps the box: _align_span gives up     *)
(* context, never coverage.                                                *)
BoxRepaired ==
  pc = "framing" =>
    region.hole.lo <= box.x /\ region.hole.hi >= Min({size[video], box.x + box.w})

(* The soft edge of the mark is repaired too: the tile goes as far as the  *)
(* box is dilated, unless the frame ends before (build_region).            *)
FringeRepaired ==
  pc = "framing" =>
    /\ region.tile.lo <= Max({0, box.x - knobs.dilate})
    /\ region.tile.hi >= Min({size[video], box.x + box.w + knobs.dilate})

(* No seam: where the tile ends and the frame does not, the blend has      *)
(* faded to nothing.  A tile that is cut back ends in a hard edge.         *)
FadesOutAlways ==
  pc = "framing" =>
    LET reach == knobs.dilate + 2 * knobs.feather
    IN  /\ region.tile.lo <= Max({0, box.x - reach})
        /\ region.tile.hi >= Min({size[video], box.x + box.w + reach})

FadesOut == pc = "framing" /\ Uncut(box, size[video], knobs) => FadesOutAlways

(* The knobs of a preset are scaled with the frame, its box is rounded and *)
(* the tile is aligned, and all the same the box is repaired, and but for  *)
(* a tile that is cut back the whole mark is, and leaves no seam.          *)
Repaired == MarkRepaired /\ BoxRepaired /\ FadesOut

(* A patch is put over a frame whose surroundings are those it was made    *)
(* from, or over one of the Hold - 1 frames of its own video that follow   *)
(* the one it was made from (CachingBackend).                              *)
PatchFits ==
  pc = "framing" /\ n > 0 =>
    \/ Apart(used.level, used.patch.level) <= Tolerance
    \/ used.patch.video = video /\ n - used.patch.frame < Hold

(* An un-blend map is applied to the tile it was fitted to, so to the same *)
(* pixels under the same mark (make_backend, UnblendBackend).              *)
MapFits ==
  pc = "framing" /\ kind = "unblend" => engine.fit.tile = region.tile

(* What an engine remembers is of use on the frame it is used on, however  *)
(* the frames change and the boxes grow, where each video has its own: an  *)
(* engine that serves a folder carries its patch and its map over to the   *)
(* next video.                                                             *)
OwnMemory == how = "each" => PatchFits /\ MapFits
=============================================================================

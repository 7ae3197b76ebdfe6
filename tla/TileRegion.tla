------------------------------ MODULE TileRegion ------------------------------
(***************************************************************************)
(* region.py: the box around a mark, the preset that carries it to videos  *)
(* of other sizes, and the tile that is cut out and repaired.              *)
(*                                                                         *)
(* One axis of the frame: build_region treats the two alike, and a preset  *)
(* is taken to meet videos of its own proportions.                         *)
(***************************************************************************)
EXTENDS Integers, FiniteSetsExt

CONSTANTS Dilate, Feather, Margin   \* DEFAULT_DILATE_PX and the others

AlignPx == 8    \* ALIGN_PX

ASSUME KnobsAssumption == {Dilate, Feather, Margin} \subseteq Nat

(* The defaults are 5, 12 and 64: the tile goes twice as far around the    *)
(* box as the repair does with its soft edge.                              *)
ASSUME MarginAssumption == Dilate > 0 /\ Margin >= 2 * (Dilate + 2 * Feather)

(* Python's round of a quotient: half goes to the even neighbour.          *)
Round(a, b) ==
  LET down == a \div b
      rest == 2 * (a % b)
  IN  IF rest < b \/ (rest = b /\ down % 2 = 0) THEN down ELSE down + 1

(* Box.clamp. *)
Clamp(box, size) ==
  LET x == Max({0, Min({box.x, size - 1})})
  IN  [x |-> x, w |-> Max({1, Min({box.w, size - x})})]

(* A preset keeps the box over the size of the frame it was found in, and  *)
(* how far the hole and the tile go beyond it.                             *)
FromBox(box, size) ==
  [x |-> box.x, w |-> box.w, of |-> size,
   dilate |-> Dilate, feather |-> Feather, margin |-> Margin]

BoxFor(preset, size) ==
  Clamp([x |-> Round(preset.x * size, preset.of),
         w |-> Max({1, Round(preset.w * size, preset.of)})], size)

(* Variant: a scaled dilation may come to nothing.                         *)
ScaledToNothing(preset, size) ==
  LET scaled(px) == Round(px * size, preset.of)
  IN  IF 50 * Max({size - preset.of, preset.of - size}) < preset.of
        THEN preset
        ELSE [preset EXCEPT !.dilate = scaled(@), !.feather = Max({1, scaled(@)}),
                            !.margin = Max({8, scaled(@)})]

(* Preset.scaled_px: within two percent nothing is scaled.                 *)
ScaledPx(preset, size) ==
  LET scaled(px) == Round(px * size, preset.of)
  IN  IF 50 * Max({size - preset.of, preset.of - size}) < preset.of
        THEN preset
        ELSE [preset EXCEPT !.dilate = Max({1, scaled(@)}), !.feather = Max({1, scaled(@)}),
                            !.margin = Max({8, scaled(@)})]

(* Variant: an end the frame does not allow falls back in any case.        *)
AlignSpanAlways(lo, hi, limit, cover) ==
  LET end == hi + ((-hi) % AlignPx)
  IN  [lo |-> lo - (lo % AlignPx),
       hi |-> IF end <= limit THEN end ELSE limit - (limit % AlignPx)]

(* _align_span: outward to the next multiple, or back to the last one      *)
(* the frame has, or else as it is.                                        *)
AlignSpan(lo, hi, limit, cover) ==
  LET start == lo - (lo % AlignPx)
      end   == hi + ((-hi) % AlignPx)
      back  == limit - (limit % AlignPx)
  IN  [lo |-> start,
       hi |-> IF end <= limit THEN end
              ELSE IF back >= cover /\ back > start THEN back ELSE limit]

(* build_region: the tile, and the hole that is handed to the engine: the  *)
(* box widened by the dilation and then by the feather, as far as the tile *)
(* goes.  The blur fades over another feather around it.                   *)
Tile(box, size, knobs) ==
  AlignSpan(Max({0, box.x - knobs.margin}),
            Min({size, box.x + box.w + knobs.margin}), size, box.x + box.w)

Hole(box, tile, knobs) ==
  LET by == knobs.dilate + knobs.feather
  IN  [lo |-> Max({tile.lo, box.x - by}), hi |-> Min({tile.hi, box.x + box.w + by})]

Region(box, size, knobs) ==
  LET tile == Tile(box, size, knobs)
  IN  [tile |-> tile, hole |-> Hole(box, tile, knobs)]
=============================================================================

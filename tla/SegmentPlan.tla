------------------------------ MODULE SegmentPlan ------------------------------
(***************************************************************************)
(* video._segment_plan and the halving of _inpaint_or_split: which frames  *)
(* the model is given together, and which of its answers are kept.         *)
(***************************************************************************)
EXTENDS Integers, Sequences, SequencesExt

Least(a, b) == IF a <= b THEN a ELSE b
Greatest(a, b) == IF a >= b THEN a ELSE b

(* The boundaries that are kept, looked at in order: one too close to the  *)
(* last one kept is dropped.                                               *)
Kept(cuts, total, minShot) ==
  LET kept[s \in 0 .. total] ==
        IF s = 0 THEN <<0>>
        ELSE LET bounds == kept[s - 1]
             IN  IF s \in cuts /\ s < total /\ s - Last(bounds) >= minShot
                   THEN Append(bounds, s) ELSE bounds
  IN  kept[total]

(* Where shots begin and end: the end of the video takes the place of the  *)
(* last boundary if that is too close to it.                               *)
Bounds(cuts, total, minShot) ==
  LET kept == Kept(cuts, total, minShot)
  IN  IF Last(kept) = total
        THEN kept
        ELSE IF total - Last(kept) < minShot /\ Len(kept) > 1
               THEN Append(Front(kept), total)
               ELSE Append(kept, total)

(* Variant: the context may reach back into the shot before.               *)
SegmentAcrossCut(a, b, s, segment, overlap) ==
  LET e == Least(b, s + segment)
  IN  [first |-> s, end |-> e, left |-> Least(overlap, s),
       right |-> Least(overlap, b - e)]

(* The segment that starts at s in the shot from a to b: the frames that   *)
(* are its own, and the context it may take on each side.                  *)
SegmentAt(a, b, s, segment, overlap) ==
  LET e == Least(b, s + segment)
  IN  [first |-> s, end |-> e, left |-> Least(overlap, s - a),
       right |-> Least(overlap, b - e)]

Shot(a, b, segment, overlap) ==
  [k \in 1 .. ((b - a + segment - 1) \div segment) |->
     SegmentAt(a, b, a + (k - 1) * segment, segment, overlap)]

Segments(cuts, total, segment, overlap, minShot) ==
  LET bounds == Bounds(cuts, total, minShot)
  IN  FlattenSeq([i \in 1 .. Len(bounds) - 1 |->
                    Shot(bounds[i], bounds[i + 1], segment, overlap)])

(* The first n and the last n of a sequence.                               *)
FirstOf(s, n) == SubSeq(s, 1, Least(n, Len(s)))
LastOf(s, n) == SubSeq(s, Greatest(0, Len(s) - n) + 1, Len(s))

(* A block that does not fit is repaired in two halves, each with some of  *)
(* the other as context, which is dropped again.                           *)
Halved(block, context) ==
  LET half   == Len(block) \div 2
      ctx    == Least(context, half)
      first  == FirstOf(block, half + ctx)
      second == LastOf(block, Len(block) - half + ctx)
  IN  FirstOf(first, half) \o LastOf(second, Len(second) - ctx)
=============================================================================

-------------------------- MODULE PatchEngine_proofs --------------------------
(***************************************************************************)
(* Theorems about PatchEngine, for any videos, frame sizes, boxes, levels  *)
(* and knobs (within MarginAssumption): the repair covers the box, and,    *)
(* unless its tile is cut back at the end of the frame, the mark, and      *)
(* fades out; what an engine of one video remembers fits the frame it is   *)
(* used on.                                                                *)
(***************************************************************************)
EXTENDS PatchEngine, TLAPS

LEMMA MaxOfTwo ==
  ASSUME NEW a \in Int, NEW b \in Int
  PROVE  Max({a, b}) = IF a >= b THEN a ELSE b
<1> DEFINE m == IF a >= b THEN a ELSE b
<1>1. m \in {a, b} /\ \A y \in {a, b} : m >= y
  OBVIOUS
<1>2. \A x \in {a, b} : (\A y \in {a, b} : x >= y) => x = m
  OBVIOUS
<1>3. Max({a, b}) = CHOOSE x \in {a, b} : \A y \in {a, b} : x >= y
  BY DEF Max
<1>4. QED
  BY <1>1, <1>2, <1>3

LEMMA MinOfTwo ==
  ASSUME NEW a \in Int, NEW b \in Int
  PROVE  Min({a, b}) = IF a <= b THEN a ELSE b
<1> DEFINE m == IF a <= b THEN a ELSE b
<1>1. m \in {a, b} /\ \A y \in {a, b} : m <= y
  OBVIOUS
<1>2. \A x \in {a, b} : (\A y \in {a, b} : x <= y) => x = m
  OBVIOUS
<1>3. Min({a, b}) = CHOOSE x \in {a, b} : \A y \in {a, b} : x <= y
  BY DEF Min
<1>4. QED
  BY <1>1, <1>2, <1>3

LEMMA Monotone ==
  ASSUME NEW a \in Int, NEW b \in Int, NEW c \in Nat, a <= b
  PROVE  a * c <= b * c
OBVIOUS

(* Python's round is off by a half at most.                                *)
LEMMA RoundBounds ==
  ASSUME NEW a \in Int, NEW b \in Nat \ {0}
  PROVE  /\ Round(a, b) \in Int
         /\ 2 * a - b <= 2 * (Round(a, b) * b)
         /\ 2 * (Round(a, b) * b) <= 2 * a + b
<1> DEFINE q == a \div b
           r == a % b
<1>1. q \in Int /\ r \in 0 .. b - 1 /\ a = b * q + r
  OBVIOUS
<1>2. Round(a, b) = q \/ Round(a, b) = q + 1
  BY DEF Round
<1>3. CASE Round(a, b) = q
  <2>1. 2 * r <= b
    BY <1>1, <1>3 DEF Round
  <2>2. QED
    BY <1>1, <1>3, <2>1
<1>4. CASE Round(a, b) = q + 1
  <2>1. 2 * r >= b
    BY <1>1, <1>4 DEF Round
  <2>2. (q + 1) * b = b * q + b
    BY <1>1
  <2>3. QED
    BY <1>1, <1>4, <2>1, <2>2
<1>5. QED
  BY <1>2, <1>3, <1>4
-----------------------------------------------------------------------------
(* A box in a frame of this size, and not empty.                           *)
Within(b, s) == b \in [x : Nat, w : Nat \ {0}] /\ b.x + b.w <= s

(* Box.clamp keeps the box in the frame: it gives up what is before the    *)
(* frame and what is beyond it, and no more.                               *)
LEMMA ClampWithin ==
  ASSUME NEW b \in [x : Int, w : Int], NEW s \in Nat \ {0}
  PROVE  /\ Within(Clamp(b, s), s)
         /\ b.x >= 0 => Clamp(b, s).x <= b.x
         /\ \/ Clamp(b, s).x + Clamp(b, s).w = s
            \/ Clamp(b, s).x + Clamp(b, s).w >= b.x + b.w
<1> DEFINE low == IF b.x <= s - 1 THEN b.x ELSE s - 1
           x == IF 0 >= low THEN 0 ELSE low
           v == IF b.w <= s - x THEN b.w ELSE s - x
           w == IF 1 >= v THEN 1 ELSE v
<1>1. b.x \in Int /\ b.w \in Int /\ low \in Int /\ x \in 0 .. s - 1 /\ v \in Int /\ w \in Nat
  OBVIOUS
<1>2. Min({b.x, s - 1}) = low /\ Max({0, low}) = x
  BY <1>1, MinOfTwo, MaxOfTwo
<1>3. Min({b.w, s - x}) = v /\ Max({1, v}) = w
  BY <1>1, MinOfTwo, MaxOfTwo
<1>4. Clamp(b, s) = [x |-> x, w |-> w]
  BY <1>2, <1>3 DEF Clamp
<1>5. QED
  BY <1>1, <1>4 DEF Within

(* _align_span never gives up what it must cover, nor the frame; and in a  *)
(* frame of whole blocks, or far from its end, it gives up nothing.        *)
LEMMA AlignCovers ==
  ASSUME NEW lo \in Nat, NEW hi \in Nat, NEW limit \in Nat, NEW cover \in Nat,
         lo < cover, cover <= hi, hi <= limit
  PROVE  LET a == AlignSpan(lo, hi, limit, cover)
         IN  /\ a.lo \in Nat /\ a.hi \in Nat
             /\ a.lo <= lo /\ cover <= a.hi /\ a.hi <= limit
             /\ limit % AlignPx = 0 \/ hi <= limit - (limit % AlignPx) => hi <= a.hi
BY DEF AlignSpan, AlignPx

KnobsOK(k) == k.dilate \in Nat /\ k.feather \in Nat /\ k.margin \in Nat

(* build_region: the tile and the hole lie around the box and within the   *)
(* frame, the tile as far as the margin goes where it can.                 *)
LEMMA RegionAround ==
  ASSUME NEW b, NEW s \in Nat \ {0}, NEW k, Within(b, s), KnobsOK(k)
  PROVE  LET t == Region(b, s, k).tile
             h == Region(b, s, k).hole
         IN  /\ {t.lo, t.hi, h.lo, h.hi} \subseteq Nat
             /\ t.lo <= h.lo /\ h.lo <= b.x
             /\ b.x + b.w <= h.hi /\ h.hi <= t.hi /\ t.hi <= s
             /\ t.lo = 0 \/ t.lo <= b.x - k.margin
             /\ Uncut(b, s, k) => t.hi = s \/ t.hi >= b.x + b.w + k.margin
             /\ Region(b, s, k).tile = Tile(b, s, k)
<1> DEFINE by == k.dilate + k.feather
           lo == IF 0 >= b.x - k.margin THEN 0 ELSE b.x - k.margin
           hi == IF s <= b.x + b.w + k.margin THEN s ELSE b.x + b.w + k.margin
           t  == AlignSpan(lo, hi, s, b.x + b.w)
<1>1. b.x \in Nat /\ b.w \in Nat /\ b.w > 0 /\ b.x + b.w <= s /\ by \in Nat /\ k.margin \in Nat
  BY DEF Within, KnobsOK
<1>2. lo \in Nat /\ hi \in Nat /\ lo < b.x + b.w /\ b.x + b.w <= hi /\ hi <= s
  BY <1>1
<1>3. Max({0, b.x - k.margin}) = lo /\ Min({s, b.x + b.w + k.margin}) = hi
  BY <1>1, MaxOfTwo, MinOfTwo
<1>4. Tile(b, s, k) = t
  BY <1>3 DEF Tile
<1>5. /\ t.lo \in Nat /\ t.hi \in Nat /\ t.lo <= lo /\ b.x + b.w <= t.hi /\ t.hi <= s
      /\ s % AlignPx = 0 \/ hi <= s - (s % AlignPx) => hi <= t.hi
  <2> HIDE DEF lo, hi
  <2> QED
    BY <1>1, <1>2, AlignCovers
<1> HIDE DEF t
<1>6. Uncut(b, s, k) => s % AlignPx = 0 \/ hi <= s - (s % AlignPx)
  BY <1>1 DEF Uncut, AlignPx
<1>7. /\ Max({t.lo, b.x - by}) = IF t.lo >= b.x - by THEN t.lo ELSE b.x - by
      /\ Min({t.hi, b.x + b.w + by}) = IF t.hi <= b.x + b.w + by THEN t.hi ELSE b.x + b.w + by
  BY <1>1, <1>5, MaxOfTwo, MinOfTwo
<1>8. /\ Region(b, s, k).tile = t
      /\ Region(b, s, k).hole.lo = Max({t.lo, b.x - by})
      /\ Region(b, s, k).hole.hi = Min({t.hi, b.x + b.w + by})
  BY <1>4 DEF Region, Hole
<1>9. QED
  BY <1>1, <1>4, <1>5, <1>6, <1>7, <1>8
-----------------------------------------------------------------------------
(* What the knobs are for: the repair goes at least one pixel beyond the   *)
(* box, and the margin holds the dilation and the soft edge.               *)
KnobsHold(k) ==
  /\ KnobsOK(k) /\ k.dilate > 0
  /\ k.dilate + 2 * k.feather <= k.margin

Preset(g) ==
  /\ g.x \in Int /\ g.w \in Int /\ g.of \in Nat \ {0}
  /\ g = FromBox([x |-> g.x, w |-> g.w], g.of)

LEMMA FromBoxHolds ==
  ASSUME NEW b, NEW s
  PROVE  KnobsHold(FromBox(b, s))
BY KnobsAssumption, MarginAssumption DEF FromBox, KnobsHold, KnobsOK

(* Rounding what a half divides: the products are compared, not the        *)
(* quotients.                                                              *)
LEMMA MarginOutgrows ==
  ASSUME NEW of \in Nat \ {0}, NEW d \in Int, NEW f \in Int, NEW m \in Int,
         NEW D \in Nat, NEW F \in Nat, NEW M \in Nat, M >= 2 * (D + 2 * F),
         2 * (d * of) <= 2 * D + 2 * of, 2 * (f * of) <= 2 * F + 2 * of,
         2 * M - of <= 2 * (m * of), 8 <= m
  PROVE  d + 2 * f <= m
<1> DEFINE z == d + 2 * f
<1>1. SUFFICES ASSUME m + 1 <= z PROVE FALSE
  OBVIOUS
<1>2. z * of = d * of + 2 * (f * of) /\ z \in Int
  OBVIOUS
<1>3. 2 * (z * of) <= M + 6 * of
  BY <1>2
<1>4. (m + 1) * of <= z * of /\ (m + 1) * of = m * of + of
  BY <1>1, <1>2, Monotone
<1>5. 8 * of <= m * of
  BY Monotone
<1>6. QED
  BY <1>3, <1>4, <1>5

(* A preset of another size: what is scaled still holds.                   *)
LEMMA ScaledHolds ==
  ASSUME NEW g, Preset(g), NEW s \in Nat \ {0}
  PROVE  KnobsHold(ScaledPx(g, s))
<1> DEFINE rd == Round(Dilate * s, g.of)
           rf == Round(Feather * s, g.of)
           rm == Round(Margin * s, g.of)
           d == IF 1 >= rd THEN 1 ELSE rd
           f == IF 1 >= rf THEN 1 ELSE rf
           m == IF 8 >= rm THEN 8 ELSE rm
           k == ScaledPx(g, s)
<1>1. Dilate \in Nat /\ Feather \in Nat /\ Margin \in Nat /\ g.of \in Nat \ {0}
  BY KnobsAssumption DEF Preset
<1>2. Dilate * s \in Nat /\ Feather * s \in Nat /\ Margin * s \in Nat
  BY <1>1
<1>3. /\ rd \in Int /\ rf \in Int /\ rm \in Int
      /\ 2 * (rd * g.of) <= 2 * (Dilate * s) + g.of
      /\ 2 * (rf * g.of) <= 2 * (Feather * s) + g.of
      /\ 2 * (Margin * s) - g.of <= 2 * (rm * g.of)
  <2> DEFINE u == Dilate * s
             v == Feather * s
             w == Margin * s
  <2> HIDE DEF u, v, w
  <2>1. u \in Int /\ v \in Int /\ w \in Int
    BY <1>2 DEF u, v, w
  <2>2. /\ Round(u, g.of) \in Int /\ 2 * (Round(u, g.of) * g.of) <= 2 * u + g.of
        /\ Round(v, g.of) \in Int /\ 2 * (Round(v, g.of) * g.of) <= 2 * v + g.of
        /\ Round(w, g.of) \in Int /\ 2 * w - g.of <= 2 * (Round(w, g.of) * g.of)
    BY <1>1, <2>1, RoundBounds
  <2>3. QED
    BY <2>2 DEF u, v, w
<1> HIDE DEF rd, rf, rm
<1>4. Max({1, rd}) = d /\ Max({1, rf}) = f /\ Max({8, rm}) = m
  BY <1>3, MaxOfTwo
<1>5. CASE k = g
  BY <1>5, FromBoxHolds DEF Preset
<1>6. CASE k.dilate = d /\ k.feather = f /\ k.margin = m
  <2>1. 2 * (d * g.of) <= 2 * (Dilate * s) + 2 * g.of
    <3>1. CASE d = 1
      BY <3>1, <1>1, <1>2
    <3>2. CASE d = rd
      BY <3>2, <1>1, <1>3
    <3>3. QED
      BY <3>1, <3>2
  <2>2. 2 * (f * g.of) <= 2 * (Feather * s) + 2 * g.of
    <3>1. CASE f = 1
      BY <3>1, <1>1, <1>2
    <3>2. CASE f = rf
      BY <3>2, <1>1, <1>3
    <3>3. QED
      BY <3>1, <3>2
  <2>3. 2 * (Margin * s) - g.of <= 2 * (m * g.of)
    <3>1. rm <= m /\ m \in Int
      BY <1>3
    <3>2. rm * g.of <= m * g.of
      BY <3>1, <1>1, <1>3, Monotone
    <3>3. QED
      BY <3>1, <3>2, <1>1, <1>2, <1>3
  <2>4. Margin * s >= 2 * (Dilate * s + 2 * (Feather * s))
    <3>1. 2 * (Dilate + 2 * Feather) * s <= Margin * s
      BY <1>1, MarginAssumption, Monotone
    <3>2. 2 * (Dilate + 2 * Feather) * s = 2 * (Dilate * s + 2 * (Feather * s))
      BY <1>1
    <3>3. QED
      BY <3>1, <3>2
  <2>5. d \in Int /\ d >= 1 /\ f \in Int /\ f >= 1 /\ m \in Int /\ m >= 8
    BY <1>3
  <2> HIDE DEF d, f, m
  <2>6. d + 2 * f <= m
    BY <1>1, <1>2, <2>1, <2>2, <2>3, <2>4, <2>5, MarginOutgrows
  <2>7. QED
    BY <1>6, <2>5, <2>6 DEF KnobsHold, KnobsOK
<1>7. k = g \/ (k.dilate = d /\ k.feather = f /\ k.margin = m)
  <2>1. /\ g.dilate = Dilate /\ g.feather = Feather /\ g.margin = Margin
        /\ g = [x |-> g.x, w |-> g.w, of |-> g.of,
                dilate |-> Dilate, feather |-> Feather, margin |-> Margin]
    BY DEF Preset, FromBox
  <2>2. k = g \/ k = [g EXCEPT !.dilate = Max({1, rd}), !.feather = Max({1, rf}),
                               !.margin = Max({8, rm})]
    BY <2>1 DEF ScaledPx, rd, rf, rm
  <2>3. QED
    BY <2>1, <2>2, <1>4
<1>8. QED
  BY <1>5, <1>6, <1>7

(* A mark at another size: its place is off by half a pixel at most, its   *)
(* end by one, and both fall within the frame.                             *)
Marks(b, g, s) ==
  /\ 2 * (b.x * g.of) <= 2 * (g.x * s) + g.of
  /\ (g.x + g.w) * s <= (b.x + b.w + 1) * g.of

LEMMA BoxForMarks ==
  ASSUME NEW g, Preset(g), 0 <= g.x, g.x + g.w <= g.of, NEW s \in Nat \ {0}
  PROVE  Within(BoxFor(g, s), s) /\ Marks(BoxFor(g, s), g, s)
<1> DEFINE rx == Round(g.x * s, g.of)
           rw == Round(g.w * s, g.of)
           w  == IF 1 >= rw THEN 1 ELSE rw
           b  == [x |-> rx, w |-> w]
           c  == Clamp(b, s)
<1>1. g.x \in Int /\ g.w \in Int /\ g.of \in Nat \ {0} /\ g.x * s \in Int /\ g.w * s \in Int
  BY DEF Preset
<1>2. /\ rx \in Int /\ rw \in Int
      /\ 2 * (g.x * s) - g.of <= 2 * (rx * g.of) /\ 2 * (rx * g.of) <= 2 * (g.x * s) + g.of
      /\ 2 * (g.w * s) - g.of <= 2 * (rw * g.of)
  <2> DEFINE u == g.x * s
             v == g.w * s
  <2> HIDE DEF u, v
  <2>1. u \in Int /\ v \in Int
    BY <1>1 DEF u, v
  <2>2. /\ Round(u, g.of) \in Int /\ Round(v, g.of) \in Int
        /\ 2 * u - g.of <= 2 * (Round(u, g.of) * g.of)
        /\ 2 * (Round(u, g.of) * g.of) <= 2 * u + g.of
        /\ 2 * v - g.of <= 2 * (Round(v, g.of) * g.of)
    BY <1>1, <2>1, RoundBounds
  <2>3. QED
    BY <2>2 DEF u, v
<1> HIDE DEF rx, rw
<1>3. rx >= 0
  <2> SUFFICES ASSUME rx <= -1 PROVE FALSE
    BY <1>2
  <2>1. rx * g.of <= (-1) * g.of
    BY <1>1, <1>2, Monotone
  <2> DEFINE u == g.x * s
             v == rx * g.of
  <2>2. g.of \in Nat /\ g.of > 0 /\ 0 <= u /\ v <= -g.of /\ u \in Int /\ v \in Int /\ 2 * u - g.of <= 2 * v
    BY <1>1, <1>2, <2>1
  <2> HIDE DEF u, v
  <2>3. QED
    BY <2>2
<1>4. Max({1, rw}) = w /\ w \in Int
  BY <1>2, MaxOfTwo
<1>5. BoxFor(g, s) = c
  BY <1>4 DEF BoxFor, rx, rw
<1>6. /\ Within(c, s) /\ c.x <= rx
      /\ c.x + c.w = s \/ c.x + c.w >= rx + w
  BY <1>2, <1>3, <1>4, ClampWithin
<1> HIDE DEF c
<1>7. c.x \in Nat /\ c.w \in Nat
  BY <1>6 DEF Within
<1>8. 2 * (c.x * g.of) <= 2 * (g.x * s) + g.of
  <2>1. c.x * g.of <= rx * g.of
    BY <1>1, <1>2, <1>6, <1>7, Monotone
  <2>2. QED
    BY <1>1, <1>2, <1>7, <2>1
<1>9. (g.x + g.w) * s <= (c.x + c.w + 1) * g.of
  <2>1. CASE c.x + c.w = s
    <3>1. (g.x + g.w) * s <= g.of * s
      BY <1>1, Monotone
    <3>2. s * g.of <= (s + 1) * g.of
      BY <1>1, Monotone
    <3>3. (s + 1) * g.of = (c.x + c.w + 1) * g.of
      BY <2>1
    <3>4. s * g.of = g.of * s /\ s * g.of \in Int /\ (g.x + g.w) * s \in Int
      BY <1>1
    <3>5. QED
      BY <1>1, <3>1, <3>2, <3>3, <3>4
  <2>2. CASE c.x + c.w >= rx + w
    <3>1. rx + rw + 1 <= c.x + c.w + 1
      BY <1>2, <1>4, <1>7, <2>2
    <3>2. (rx + rw + 1) * g.of <= (c.x + c.w + 1) * g.of
      BY <1>1, <1>2, <1>7, <3>1, Monotone
    <3>3. (rx + rw + 1) * g.of = rx * g.of + rw * g.of + g.of
      BY <1>1, <1>2
    <3>4. (g.x + g.w) * s = g.x * s + g.w * s
      BY <1>1
    <3> DEFINE u == g.x * s
               v == g.w * s
               y == rx * g.of
               z == rw * g.of
               e == (c.x + c.w + 1) * g.of
    <3>5. /\ u \in Int /\ v \in Int /\ y \in Int /\ z \in Int /\ e \in Int
          /\ 2 * u - g.of <= 2 * y /\ 2 * v - g.of <= 2 * z /\ y + z + g.of <= e
      BY <1>1, <1>2, <1>7, <3>2, <3>3
    <3>6. (g.x + g.w) * s = u + v
      BY <3>4
    <3> HIDE DEF u, v, y, z, e
    <3>7. u + v <= e
      BY <1>1, <3>5
    <3>8. QED
      BY <3>6, <3>7 DEF e
  <2>3. QED
    BY <1>6, <2>1, <2>2
<1>10. QED
  BY <1>5, <1>6, <1>8, <1>9 DEF Marks
-----------------------------------------------------------------------------
(* The states in which the video at hand has its box.                      *)
Placed == {"resolved", "judged", "framing", "failed"}
Cut    == {"framing", "failed"}

Types ==
  /\ size \in [1 .. Videos -> Sizes]
  /\ how \in Commands /\ kind \in {"inpaint", "unblend"}
  /\ pc \in {"idle", "exited"} \cup Placed
  /\ video \in 0 .. Videos /\ n \in 0 .. Frames
  /\ pc \notin Cut => n = 0

(* What a folder is given is one box, in the frame it was found in if it   *)
(* is to be carried to others.                                             *)
Commanded ==
  how # "each" /\ given # NoPreset =>
    /\ Preset(given)
    /\ how = "preset" => 0 <= given.x /\ given.x + given.w <= given.of

Boxed ==
  pc \in Placed =>
    /\ video > 0
    /\ how # "each" => given # NoPreset
    /\ Within(box, size[video]) /\ KnobsHold(knobs)
    /\ how = "preset" => Marks(box, given, size[video])

Regioned ==
  /\ pc \in Cut => region = Region(box, size[video], knobs)
  /\ pc \notin Cut => region = NoRegion

(* An engine, whosever it is: what it remembers is a patch of a frame it   *)
(* was used on, and its age counts those frames.                           *)
Memory(e) ==
  /\ e = [fit |-> e.fit, patch |-> e.patch, around |-> e.around, age |-> e.age]
  /\ e.patch \in Patch \cup {NoPatch}
  /\ e.around \in [level : Levels, extent : Nat] \cup {NoPatch}
  /\ e.age \in Nat /\ (e.patch = NoPatch <=> e.age = 0)

FramesDone == (IF pc \in Placed THEN video - 1 ELSE video) * Frames + n

Remembered ==
  engine # NoEngine \/ pc \in Cut \/ (how # "each" /\ given # NoPreset) =>
    Memory(engine) /\ engine.age <= FramesDone

(* The engine of one video: its map is of the tile at hand, its patch of   *)
(* this video, as many frames ago as it has been used.                     *)
Own ==
  how = "each" /\ pc = "framing" =>
    /\ kind = "unblend" => engine.fit.tile = region.tile
    /\ engine.patch # NoPatch =>
         /\ Remembers
         /\ engine.patch.video = video
         /\ engine.patch.frame + engine.age = n + 1
         /\ engine.around.level = engine.patch.level
    /\ PatchFits

IInv == Types /\ Commanded /\ Boxed /\ Regioned /\ Remembered /\ Own
-----------------------------------------------------------------------------
LEMMA InitInv == Init => IInv
<1> SUFFICES ASSUME Init PROVE IInv
  OBVIOUS
<1>1. Types
  BY EngineAssumption DEF Init, Types, Placed, Commands
<1>2. QED
  BY <1>1 DEF Init, IInv, Commanded, Boxed, Regioned, Remembered, Own, Placed, Cut

LEMMA SizeFacts ==
  ASSUME Types, video > 0
  PROVE  size[video] \in Nat \ {0}
<1>1. video \in 1 .. Videos
  BY EngineAssumption DEF Types
<1>2. size[video] \in Sizes
  BY <1>1 DEF Types
<1>3. QED
  BY <1>2, EngineAssumption

(* What is done of the videos before stays done.                           *)
LEMMA DoneNat ==
  ASSUME Types, pc \in Placed => video > 0
  PROVE  FramesDone \in Nat
<1>1. CASE pc \in Placed
  BY <1>1, EngineAssumption DEF Types, FramesDone
<1>2. CASE pc \notin Placed
  BY <1>2, EngineAssumption DEF Types, FramesDone
<1>3. QED
  BY <1>1, <1>2

(* A fresh engine remembers nothing.                                       *)
LEMMA MadeFresh ==
  ASSUME NEW i, NEW b, NEW k
  PROVE  /\ Memory(Made(i, b, k)) /\ Made(i, b, k).age = 0
         /\ Made(i, b, k).patch = NoPatch
         /\ kind = "unblend" => Made(i, b, k).fit.tile = Tile(b, size[i], k)
BY DEF Made, Memory

LEMMA BeginInv ==
  ASSUME IInv, Begin
  PROVE  IInv'
<1>1. PICK s \in Sizes, b \in Boxes :
        /\ how = "preset" => In(b, s)
        /\ given' = FromBox(b, s)
        /\ engine' = Made(1, BoxOf(1, given'), KnobsOf(1, given'))
  BY DEF Begin
<1>2. /\ pc = "idle" /\ how # "each"
      /\ UNCHANGED <<size, how, kind, pc, video, place, n, used>>
  BY DEF Begin
<1>3. Preset(given') /\ (how = "preset" => 0 <= given'.x /\ given'.x + given'.w <= given'.of)
  BY <1>1, EngineAssumption DEF Preset, FromBox, In
<1>4. Types' /\ Boxed' /\ Regioned' /\ Commanded' /\ Own'
  BY <1>2, <1>3
     DEF IInv, Types, Boxed, Regioned, Commanded, Own, Placed, Cut, place
<1>5. FramesDone' \in Nat
  BY <1>2, DoneNat DEF IInv, Boxed, FramesDone
<1>6. Memory(engine') /\ engine'.age = 0
  BY <1>1, MadeFresh
<1>7. Remembered'
  BY <1>5, <1>6 DEF Remembered, Memory
<1>8. QED
  BY <1>4, <1>7 DEF IInv

LEMMA ResolveInv ==
  ASSUME IInv, Resolve
  PROVE  IInv'
<1>1. /\ pc = "idle" /\ video < Videos /\ (how = "each" \/ given # NoPreset)
      /\ video' = video + 1 /\ pc' = "resolved"
      /\ UNCHANGED <<size, how, kind, given, engine, region, n, used>>
  BY DEF Resolve, command
<1>2. Types' /\ Regioned' /\ Commanded' /\ Own' /\ video' > 0
  BY <1>1, EngineAssumption DEF IInv, Types, Regioned, Commanded, Own, Placed, Cut
<1> DEFINE s == size[video']
<1>3. s \in Nat \ {0} /\ size' = size
  <2>1. video' \in 1 .. Videos /\ size' = size
    BY <1>1, <1>2, EngineAssumption DEF Types
  <2>2. size[video'] \in Sizes
    BY <2>1 DEF IInv, Types
  <2>3. QED
    BY <2>1, <2>2, EngineAssumption
<1>4. /\ Within(box', s) /\ KnobsHold(knobs')
      /\ how = "preset" => Marks(box', given, s)
  <2>1. CASE how = "each"
    <3>1. PICK b \in Boxes : box' = Clamp(b, s) /\ knobs' = FromBox(box', s)
      BY <2>1 DEF Resolve
    <3>2. b \in [x : Int, w : Int]
      BY EngineAssumption
    <3>3. QED
      BY <2>1, <3>1, <3>2, <1>3, ClampWithin, FromBoxHolds
  <2>2. CASE how = "preset"
    <3>1. box' = BoxFor(given, s) /\ knobs' = ScaledPx(given, s)
      BY <2>2 DEF Resolve, BoxOf, KnobsOf
    <3>2. Preset(given) /\ 0 <= given.x /\ given.x + given.w <= given.of
      BY <1>1, <2>2 DEF IInv, Commanded
    <3>3. QED
      BY <3>1, <3>2, <1>3, BoxForMarks, ScaledHolds
  <2>3. CASE how = "box"
    <3>1. box' = Clamp(given, s) /\ knobs' = given
      BY <2>3 DEF Resolve, BoxOf, KnobsOf
    <3>2. Preset(given)
      BY <1>1, <2>3 DEF IInv, Commanded
    <3>3. Clamp(given, s) = Clamp([x |-> given.x, w |-> given.w], s)
      BY DEF Clamp
    <3>4. Within(Clamp([x |-> given.x, w |-> given.w], s), s)
      BY <3>2, <1>3, ClampWithin DEF Preset
    <3>5. KnobsHold(given)
      BY <3>2, FromBoxHolds DEF Preset
    <3>6. QED
      BY <2>3, <3>1, <3>3, <3>4, <3>5
  <2>4. QED
    BY <2>1, <2>2, <2>3 DEF IInv, Types, Commands
<1>5. Boxed'
  BY <1>1, <1>2, <1>3, <1>4 DEF Boxed
<1>6. Remembered'
  <2>1. FramesDone' = FramesDone
    BY <1>1 DEF IInv, Types, FramesDone, Placed
  <2>2. QED
    BY <1>1, <2>1 DEF IInv, Remembered, Cut, Memory
<1>7. QED
  BY <1>2, <1>5, <1>6 DEF IInv

(* A box that has the old one inside still has the mark inside.            *)
LEMMA MarksGrow ==
  ASSUME NEW b, NEW c, NEW g, NEW s \in Nat, Preset(g), Within(b, s), Within(c, s),
         c.x <= b.x, b.x + b.w <= c.x + c.w, Marks(b, g, s)
  PROVE  Marks(c, g, s)
<1>1. /\ b.x \in Nat /\ b.w \in Nat /\ c.x \in Nat /\ c.w \in Nat
      /\ g.x \in Int /\ g.w \in Int /\ g.of \in Nat
  BY DEF Within, Preset
<1>2. c.x * g.of <= b.x * g.of
  BY <1>1, Monotone
<1>3. b.x + b.w + 1 <= c.x + c.w + 1
  BY <1>1
<1>4. (b.x + b.w + 1) * g.of <= (c.x + c.w + 1) * g.of
  BY <1>1, <1>3, Monotone
<1> DEFINE u == c.x * g.of
           v == b.x * g.of
           w == g.x * s
           y == (g.x + g.w) * s
           d == (b.x + b.w + 1) * g.of
           e == (c.x + c.w + 1) * g.of
<1>5. /\ u \in Int /\ v \in Int /\ w \in Int /\ y \in Int /\ d \in Int /\ e \in Int
      /\ u <= v /\ 2 * v <= 2 * w + g.of /\ y <= d /\ d <= e
  BY <1>1, <1>2, <1>4 DEF Marks
<1> HIDE DEF u, v, w, y, d, e
<1>6. 2 * u <= 2 * w + g.of /\ y <= e
  BY <1>1, <1>5
<1>7. QED
  BY <1>6 DEF Marks, u, w, y, e

LEMMA JudgeInv ==
  ASSUME IInv, Judge
  PROVE  IInv'
<1>1. /\ pc = "resolved" /\ pc' = "judged"
      /\ UNCHANGED <<size, how, kind, given, engine, video, knobs, region, n, used>>
  BY DEF Judge, command
<1>2. Types' /\ Regioned' /\ Commanded' /\ Own'
  BY <1>1 DEF IInv, Types, Regioned, Commanded, Own, Placed, Cut
<1>3. /\ video > 0 /\ (how # "each" => given # NoPreset)
      /\ Within(box, size[video]) /\ KnobsHold(knobs)
      /\ how = "preset" => Marks(box, given, size[video])
  BY <1>1 DEF IInv, Boxed, Placed
<1>4. size[video] \in Nat \ {0}
  BY <1>3, SizeFacts DEF IInv
<1>5. /\ Within(box', size[video])
      /\ how = "preset" => Marks(box', given, size[video])
  <2>1. CASE box' = box
    BY <2>1, <1>3
  <2>2. CASE \E b \in Boxes : /\ In(b, size[video])
                            /\ b.x <= box.x /\ b.x + b.w >= box.x + box.w
                            /\ box' = b
    <3>1. PICK b \in Boxes : /\ In(b, size[video])
                            /\ b.x <= box.x /\ b.x + b.w >= box.x + box.w
                            /\ box' = b
      BY <2>2
    <3>2. b \in [x : Int, w : Int]
      BY EngineAssumption
    <3>3. Within(b, size[video])
      BY <1>3, <1>4, <3>1, <3>2 DEF In, Within
    <3>4. ASSUME how = "preset" PROVE Marks(b, given, size[video])
      <4>1. Preset(given)
        BY <1>3, <3>4 DEF IInv, Commanded
      <4>2. QED
        BY <1>3, <1>4, <3>1, <3>3, <3>4, <4>1, MarksGrow
    <3>5. QED
      BY <3>1, <3>3, <3>4
  <2>3. QED
    BY <2>1, <2>2 DEF Judge
<1>6. Boxed'
  BY <1>1, <1>3, <1>5 DEF Boxed
<1>7. Remembered'
  BY <1>1 DEF IInv, Remembered, Cut, Memory, FramesDone, Placed
<1>8. QED
  BY <1>2, <1>6, <1>7 DEF IInv

LEMMA StartInv ==
  ASSUME IInv, Start
  PROVE  IInv'
<1>1. /\ pc = "judged" /\ pc' = "framing" /\ n' = 0
      /\ engine' = EngineFor /\ region' = Region(box, size[video], knobs)
      /\ UNCHANGED <<size, how, kind, given, video, box, knobs, used>>
  BY DEF Start, command
<1>2. Types' /\ Commanded' /\ Boxed' /\ Regioned' /\ video > 0 /\ n = 0
  BY <1>1, EngineAssumption
     DEF IInv, Types, Commanded, Boxed, Regioned, Placed, Cut
<1>3. FramesDone' = FramesDone /\ FramesDone \in Nat
  BY <1>1, <1>2, DoneNat DEF IInv, FramesDone, Placed
<1>4. CASE how = "each"
  <2>1. engine' = Made(video, box, knobs)
    BY <1>1, <1>4 DEF EngineFor
  <2>2. Remembered'
    BY <2>1, <1>3, MadeFresh DEF Remembered, Memory
  <2>3. region'.tile = Tile(box, size[video], knobs)
    BY <1>1 DEF Region
  <2>4. Own'
    BY <1>1, <2>1, <2>3, MadeFresh DEF Own, PatchFits
  <2>5. QED
    BY <1>2, <2>2, <2>4 DEF IInv
<1>5. CASE how # "each"
  <2>1. engine' = engine /\ given # NoPreset
    BY <1>1, <1>5 DEF EngineFor, IInv, Boxed, Placed
  <2>2. Memory(engine) /\ engine.age <= FramesDone
    BY <1>5, <2>1 DEF IInv, Remembered
  <2>3. Remembered'
    BY <1>3, <2>1, <2>2 DEF Remembered, Memory
  <2>4. Own'
    BY <1>1, <1>5 DEF Own
  <2>5. QED
    BY <1>2, <2>3, <2>4 DEF IInv
<1>6. QED
  BY <1>4, <1>5

LEMMA ExtentNat ==
  ASSUME IInv, pc \in Cut
  PROVE  Extent \in Nat
<1>1. /\ size[video] \in Nat \ {0} /\ Within(box, size[video]) /\ KnobsOK(knobs)
      /\ region = Region(box, size[video], knobs)
  BY SizeFacts DEF IInv, Boxed, Regioned, Placed, Cut, KnobsHold
<1>2. LET t == region.tile
          h == region.hole
      IN  /\ {t.lo, t.hi, h.lo, h.hi} \subseteq Nat
          /\ t.lo <= h.lo /\ h.hi <= t.hi
  BY <1>1, RegionAround
<1>3. QED
  BY <1>2 DEF Extent

(* A frame repaired anew: the patch is that of the frame itself.           *)
LEMMA RepairMemory ==
  ASSUME IInv, pc = "framing", n < Frames, NEW level \in Levels, Repair(level), n' = n + 1
  PROVE  /\ Memory(engine') /\ engine'.age <= FramesDone + 1 /\ engine'.fit = engine.fit
         /\ Apart(used'.level, used'.patch.level) <= Tolerance
         /\ how = "each" /\ engine'.patch # NoPatch =>
              /\ Remembers
              /\ engine'.patch.video = video /\ engine'.patch.frame + engine'.age = n + 2
              /\ engine'.around.level = engine'.patch.level
<1> DEFINE fresh == [video |-> video, frame |-> n + 1, level |-> level]
<1>1. /\ Memory(engine) /\ engine.age <= FramesDone /\ engine.age \in Nat /\ FramesDone \in Nat
      /\ video > 0 /\ video \in Nat /\ n \in Nat /\ level \in Nat
  BY DoneNat, EngineAssumption DEF IInv, Types, Boxed, Remembered, Memory, Placed, Cut
<1>2. fresh \in Patch
  BY <1>1, EngineAssumption DEF IInv, Types, Patch
<1>3. Around(level) \in [level : Levels, extent : Nat]
  BY ExtentNat DEF Around, Cut
<1>4. /\ used' = [level |-> level, patch |-> fresh]
      /\ engine' = IF Remembers
                     THEN [engine EXCEPT !.patch = fresh, !.around = Around(level), !.age = 1]
                     ELSE engine
  BY DEF Repair
<1>5. Apart(used'.level, used'.patch.level) <= Tolerance
  <2>1. Max({level - level, level - level}) = 0
    BY <1>1, MaxOfTwo
  <2>2. QED
    BY <1>4, <2>1, EngineAssumption DEF Apart
<1>6. CASE Remembers
  <2>1. engine' = [fit |-> engine.fit, patch |-> fresh, around |-> Around(level), age |-> 1]
    BY <1>1, <1>4, <1>6 DEF Memory
  <2>2. fresh # NoPatch
    BY <1>2, NoPatchAssumption
  <2>3. Memory(engine')
    BY <1>2, <1>3, <2>1, <2>2 DEF Memory
  <2>4. /\ engine'.patch.video = video /\ engine'.patch.frame = n + 1 /\ engine'.age = 1
        /\ engine'.patch.level = level /\ engine'.around.level = level /\ engine'.fit = engine.fit
    BY <2>1 DEF Around
  <2>5. engine'.patch.frame + engine'.age = n + 2 /\ engine'.age <= FramesDone + 1
    BY <1>1, <2>4
  <2>6. QED
    BY <1>5, <1>6, <2>3, <2>4, <2>5
<1>7. CASE ~ Remembers
  <2>1. engine' = engine
    BY <1>4, <1>7
  <2>2. how = "each" => engine.patch = NoPatch
    BY <1>7 DEF IInv, Own
  <2>3. QED
    BY <1>1, <1>5, <2>1, <2>2
<1>8. QED
  BY <1>6, <1>7

(* A frame that reuses the patch: its surroundings are alike, or the patch *)
(* is of this video and not too old.                                       *)
LEMMA ReuseMemory ==
  ASSUME IInv, pc = "framing", n < Frames, NEW level \in Levels, Reuse(level), n' = n + 1
  PROVE  /\ Memory(engine') /\ engine'.age <= FramesDone + 1 /\ engine'.fit = engine.fit
         /\ how = "each" =>
              /\ Remembers
              /\ engine'.patch.video = video /\ engine'.patch.frame + engine'.age = n + 2
              /\ engine'.around.level = engine'.patch.level
              /\ \/ Apart(used'.level, used'.patch.level) <= Tolerance
                 \/ used'.patch.video = video /\ n' - used'.patch.frame < Hold
<1>1. /\ Memory(engine) /\ engine.age <= FramesDone /\ engine.age \in Nat /\ FramesDone \in Nat
      /\ n \in Nat /\ Hold \in Nat
  BY DoneNat, EngineAssumption DEF IInv, Types, Boxed, Remembered, Memory, Placed, Cut
<1>2. /\ engine.patch # NoPatch
      /\ engine.age < Hold \/ Apart(level, engine.around.level) <= Tolerance
      /\ engine' = [engine EXCEPT !.age = @ + 1]
      /\ used' = [level |-> level, patch |-> engine.patch]
  BY DEF Reuse, Reusable
<1>3. engine' = [fit |-> engine.fit, patch |-> engine.patch,
                 around |-> engine.around, age |-> engine.age + 1]
  BY <1>1, <1>2 DEF Memory
<1>4. Memory(engine') /\ engine'.age <= FramesDone + 1 /\ engine'.fit = engine.fit
  BY <1>1, <1>2, <1>3 DEF Memory
<1>5. ASSUME how = "each"
      PROVE  /\ Remembers
             /\ engine'.patch.video = video /\ engine'.patch.frame + engine'.age = n + 2
             /\ engine'.around.level = engine'.patch.level
             /\ \/ Apart(used'.level, used'.patch.level) <= Tolerance
                \/ used'.patch.video = video /\ n' - used'.patch.frame < Hold
  <2>1. /\ Remembers
        /\ engine.patch.video = video /\ engine.patch.frame + engine.age = n + 1
        /\ engine.around.level = engine.patch.level
    BY <1>2, <1>5 DEF IInv, Own
  <2>2. engine.patch.frame \in Nat
    BY <1>1, <1>2, EngineAssumption DEF Memory, Patch
  <2>3. engine.age < Hold => n' - engine.patch.frame < Hold
    BY <1>1, <2>1, <2>2
  <2>4. QED
    BY <1>1, <1>2, <1>3, <2>1, <2>2, <2>3
<1>6. QED
  BY <1>4, <1>5

LEMMA FrameInv ==
  ASSUME IInv, Frame
  PROVE  IInv'
<1>1. PICK level \in Levels : Reuse(level) \/ Repair(level)
  BY DEF Frame
<1>2. /\ pc = "framing" /\ n < Frames /\ n' = n + 1
      /\ UNCHANGED <<size, how, kind, given, pc, video, box, knobs, region>>
  BY DEF Frame, command, place
<1>3. Types' /\ Commanded' /\ Boxed' /\ Regioned' /\ n' > 0
  BY <1>2, EngineAssumption DEF IInv, Types, Commanded, Boxed, Regioned, Placed, Cut
<1>4. FramesDone' = FramesDone + 1
  <2>1. FramesDone = (video - 1) * Frames + n /\ FramesDone' = (video - 1) * Frames + n'
    BY <1>2 DEF FramesDone, Placed
  <2>2. (video - 1) * Frames \in Int /\ n \in Int
    BY EngineAssumption DEF IInv, Types
  <2>3. QED
    BY <1>2, <2>1, <2>2
<1>5. /\ Memory(engine') /\ engine'.age <= FramesDone + 1 /\ engine'.fit = engine.fit
      /\ how = "each" =>
           /\ engine'.patch # NoPatch =>
                /\ Remembers
                /\ engine'.patch.video = video /\ engine'.patch.frame + engine'.age = n + 2
                /\ engine'.around.level = engine'.patch.level
           /\ \/ Apart(used'.level, used'.patch.level) <= Tolerance
              \/ used'.patch.video = video /\ n' - used'.patch.frame < Hold
  BY <1>1, <1>2, RepairMemory, ReuseMemory
<1>6. Remembered'
  BY <1>4, <1>5 DEF Remembered, Memory
<1>7. PatchFits' \/ how # "each"
  BY <1>2, <1>5 DEF PatchFits
<1>8. n' + 1 = n + 2
  BY <1>2 DEF IInv, Types
<1>9. Own'
  BY <1>2, <1>5, <1>7, <1>8 DEF IInv, Own, Remembers
<1>10. QED
  BY <1>3, <1>6, <1>9 DEF IInv

LEMMA MisfitInv ==
  ASSUME IInv, Misfit
  PROVE  IInv'
<1>1. /\ pc = "framing" /\ pc' = "failed"
      /\ UNCHANGED <<size, how, kind, given, engine, video, box, knobs, region, n, used>>
  BY DEF Misfit, command, place
<1>2. Remembered'
  BY <1>1 DEF IInv, Remembered, Memory, FramesDone, Placed, Cut
<1>3. QED
  BY <1>1, <1>2
     DEF IInv, Types, Commanded, Boxed, Regioned, Own, Placed, Cut

LEMMA FinishInv ==
  ASSUME IInv, Finish
  PROVE  IInv'
<1>1. /\ pc = "framing" /\ n = Frames /\ pc' \in {"exited", "idle"}
      /\ region' = NoRegion /\ n' = 0
      /\ UNCHANGED <<size, how, kind, given, engine, video>>
  BY DEF Finish, command
<1>2. Types' /\ Commanded' /\ Boxed' /\ Regioned' /\ Own'
  BY <1>1, EngineAssumption DEF IInv, Types, Commanded, Boxed, Regioned, Own, Placed, Cut
<1>3. FramesDone' = FramesDone
  <2>1. FramesDone = (video - 1) * Frames + Frames /\ FramesDone' = video * Frames + 0
    BY <1>1 DEF FramesDone, Placed
  <2>2. video \in Int /\ Frames \in Int
    BY EngineAssumption DEF IInv, Types
  <2>3. QED
    BY <2>1, <2>2
<1>4. Remembered'
  BY <1>1, <1>3 DEF IInv, Remembered, Memory, Cut
<1>5. QED
  BY <1>2, <1>4 DEF IInv

LEMMA StepInv == IInv /\ [Next]_vars => IInv'
<1> SUFFICES ASSUME IInv, [Next]_vars PROVE IInv'
  OBVIOUS
<1>1. CASE UNCHANGED vars
  BY <1>1 DEF vars, command, place, IInv, Types, Commanded, Boxed, Regioned, Remembered, Own,
              Memory, FramesDone, PatchFits, Remembers
<1>2. QED
  BY <1>1, BeginInv, ResolveInv, JudgeInv, StartInv, FrameInv, MisfitInv, FinishInv DEF Next

THEOREM InvCorrect == Spec => []IInv
BY InitInv, StepInv, PTL DEF Spec

(* The variables have their types: the tile of every video lies in its     *)
(* frame with the hole in it, and no patch is used more often than frames  *)
(* have been written.                                                      *)
THEOREM TypeCorrect == Spec => []TypeOK
<1>1. IInv => TypeOK
  <2> SUFFICES ASSUME IInv PROVE TypeOK
    OBVIOUS
  <2>1. ASSUME engine # NoEngine
        PROVE  /\ engine.patch \in Patch \cup {NoPatch}
               /\ engine.around \in [level : Levels, extent : Nat] \cup {NoPatch}
               /\ engine.age \in 0 .. Videos * Frames
               /\ engine.patch = NoPatch <=> engine.age = 0
    <3>1. Memory(engine) /\ engine.age <= FramesDone
      BY <2>1 DEF IInv, Remembered
    <3>2. FramesDone <= Videos * Frames
      <4>1. video \in 0 .. Videos /\ n \in 0 .. Frames /\ Videos \in Nat /\ Frames \in Nat
        BY EngineAssumption DEF IInv, Types
      <4>2. CASE pc \in Placed
        <5>1. FramesDone = (video - 1) * Frames + n
          BY <4>2 DEF FramesDone
        <5>2. (video - 1) * Frames + Frames = video * Frames
          BY <4>1
        <5>3. video * Frames <= Videos * Frames
          BY <4>1, Monotone
        <5>4. (video - 1) * Frames \in Int /\ video * Frames \in Int /\ Videos * Frames \in Int
          BY <4>1
        <5>5. QED
          BY <4>1, <5>1, <5>2, <5>3, <5>4
      <4>3. CASE pc \notin Placed
        <5>1. FramesDone = video * Frames
          BY <4>1, <4>3 DEF FramesDone, IInv, Types, Placed, Cut
        <5>2. QED
          BY <4>1, <5>1, Monotone
      <4>4. QED
        BY <4>2, <4>3
    <3>3. Videos * Frames \in Nat /\ FramesDone \in Nat
      BY DoneNat, EngineAssumption DEF IInv, Boxed
    <3>4. QED
      BY <3>1, <3>2, <3>3 DEF Memory
  <2>2. ASSUME region # NoRegion
        PROVE  LET t == region.tile
                   h == region.hole
               IN  0 <= t.lo /\ t.lo <= h.lo /\ h.lo < h.hi /\ h.hi <= t.hi /\ t.hi <= size[video]
    <3>1. /\ size[video] \in Nat \ {0} /\ Within(box, size[video]) /\ KnobsOK(knobs)
          /\ region = Region(box, size[video], knobs)
      BY <2>2, SizeFacts DEF IInv, Boxed, Regioned, Placed, Cut, KnobsHold
    <3>2. box.x \in Nat /\ box.w \in Nat \ {0}
      BY <3>1 DEF Within
    <3>3. QED
      BY <3>1, <3>2, RegionAround
  <2>3. pc \in {"idle", "resolved", "judged", "framing", "exited", "failed"}
    BY DEF IInv, Types, Placed
  <2>4. QED
    BY <2>1, <2>2, <2>3 DEF TypeOK, IInv, Types
<1>2. QED
  BY <1>1, InvCorrect, PTL

(* What an engine remembers of its own video fits the frame it is used on. *)
THEOREM OwnMemoryCorrect == Spec => []OwnMemory
<1>1. IInv => OwnMemory
  BY DEF IInv, Own, OwnMemory, PatchFits, MapFits
<1>2. QED
  BY <1>1, InvCorrect, PTL
-----------------------------------------------------------------------------
LEMMA FramingFacts ==
  ASSUME IInv, pc = "framing"
  PROVE  LET t == region.tile
             h == region.hole
             s == size[video]
         IN  /\ s \in Nat \ {0} /\ Within(box, s) /\ KnobsHold(knobs)
             /\ {t.lo, t.hi, h.lo, h.hi} \subseteq Nat
             /\ h.lo <= box.x /\ box.x + box.w <= h.hi /\ t.hi <= s
             /\ t.lo = 0 \/ t.lo <= box.x - knobs.margin
             /\ Uncut(box, s, knobs) => t.hi = s \/ t.hi >= box.x + box.w + knobs.margin
<1>1. /\ size[video] \in Nat \ {0} /\ Within(box, size[video]) /\ KnobsHold(knobs)
      /\ region = Region(box, size[video], knobs)
  BY SizeFacts DEF IInv, Boxed, Regioned, Placed, Cut
<1>2. KnobsOK(knobs)
  BY <1>1 DEF KnobsHold
<1>3. QED
  BY <1>1, <1>2, RegionAround

LEMMA BoxIsRepaired ==
  ASSUME IInv PROVE BoxRepaired
<1> SUFFICES ASSUME pc = "framing"
             PROVE  region.hole.lo <= box.x /\ region.hole.hi >= Min({size[video], box.x + box.w})
  BY DEF BoxRepaired
<1>1. box.x + box.w \in Nat /\ size[video] \in Nat /\ box.x + box.w <= size[video]
  BY FramingFacts DEF Within
<1>2. Min({size[video], box.x + box.w}) <= box.x + box.w
  BY <1>1, MinOfTwo
<1>3. Min({size[video], box.x + box.w}) \in Int /\ region.hole.hi \in Nat
  BY <1>1, MinOfTwo, FramingFacts
<1>4. QED
  BY <1>1, <1>2, <1>3, FramingFacts

LEMMA RepairFadesOut ==
  ASSUME IInv PROVE FadesOut
<1> DEFINE reach == knobs.dilate + 2 * knobs.feather
           s == size[video]
<1> SUFFICES ASSUME pc = "framing", Uncut(box, s, knobs)
             PROVE  /\ region.tile.lo <= Max({0, box.x - reach})
                    /\ region.tile.hi >= Min({s, box.x + box.w + reach})
  BY DEF FadesOut, FadesOutAlways
<1>1. /\ s \in Nat /\ box.x \in Nat /\ box.w \in Nat /\ reach \in Nat /\ knobs.margin \in Nat
      /\ reach <= knobs.margin /\ region.tile.lo \in Nat /\ region.tile.hi \in Nat
      /\ region.tile.lo = 0 \/ region.tile.lo <= box.x - knobs.margin
      /\ region.tile.hi = s \/ region.tile.hi >= box.x + box.w + knobs.margin
  BY FramingFacts DEF Within, KnobsHold, KnobsOK
<1> HIDE DEF reach
<1>2. /\ Max({0, box.x - reach}) = IF 0 >= box.x - reach THEN 0 ELSE box.x - reach
      /\ Min({s, box.x + box.w + reach}) = IF s <= box.x + box.w + reach THEN s ELSE box.x + box.w + reach
  BY <1>1, MaxOfTwo, MinOfTwo
<1>3. QED
  BY <1>1, <1>2

LEMMA MarkIsRepaired ==
  ASSUME IInv PROVE MarkRepaired
<1> DEFINE s == size[video]
           l == Max({region.tile.lo, box.x - knobs.dilate})
           r == Min({region.tile.hi, box.x + box.w + knobs.dilate})
           of == given.of
<1> SUFFICES ASSUME pc = "framing", how = "preset", Uncut(box, s, knobs)
             PROVE  l * of <= given.x * s /\ (given.x + given.w) * s <= r * of
  BY DEF MarkRepaired, MarkRepairedAlways
<1>1. /\ s \in Nat /\ box.x \in Nat /\ box.w \in Nat /\ region.tile.lo \in Nat /\ region.tile.hi \in Nat
      /\ knobs.dilate \in Nat /\ knobs.margin \in Nat /\ knobs.dilate >= 1 /\ knobs.margin >= 1
      /\ region.tile.lo = 0 \/ region.tile.lo <= box.x - knobs.margin
      /\ region.tile.hi = s \/ region.tile.hi >= box.x + box.w + knobs.margin
  BY FramingFacts DEF Within, KnobsHold, KnobsOK
<1>2. /\ given.x \in Nat /\ given.w \in Int /\ of \in Nat \ {0} /\ given.x + given.w <= of
      /\ Marks(box, given, s)
  BY DEF IInv, Commanded, Boxed, Placed, Preset, Commands
<1>3. /\ l = (IF region.tile.lo >= box.x - knobs.dilate THEN region.tile.lo ELSE box.x - knobs.dilate)
      /\ r = (IF region.tile.hi <= box.x + box.w + knobs.dilate
               THEN region.tile.hi ELSE box.x + box.w + knobs.dilate)
  BY <1>1, MaxOfTwo, MinOfTwo
<1>4. /\ l \in Int /\ r \in Int
      /\ l <= 0 \/ l <= box.x - 1
      /\ s <= r \/ box.x + box.w + 1 <= r
  BY <1>1, <1>3
<1> HIDE DEF l, r
<1>5. l * of <= given.x * s
  <2>1. CASE l <= 0
    <3>1. l * of <= 0 * of
      BY <1>2, <1>4, <2>1, Monotone
    <3>2. 0 * of = 0 /\ l * of \in Int /\ given.x * s \in Nat
      BY <1>1, <1>2, <1>4
    <3>3. QED
      BY <3>1, <3>2
  <2>2. CASE l <= box.x - 1
    <3> DEFINE u == l * of
               v == box.x * of
               w == given.x * s
    <3>1. l * of <= (box.x - 1) * of
      BY <1>1, <1>2, <1>4, <2>2, Monotone
    <3>2. (box.x - 1) * of = box.x * of - of
      BY <1>1, <1>2
    <3>3. /\ u \in Int /\ v \in Int /\ w \in Int /\ of \in Nat /\ of > 0
          /\ u <= v - of /\ 2 * v <= 2 * w + of
      BY <1>1, <1>2, <1>4, <3>1, <3>2 DEF Marks
    <3> HIDE DEF u, v, w
    <3>4. u <= w
      BY <3>3
    <3>5. QED
      BY <3>4 DEF u, w
  <2>3. QED
    BY <1>4, <2>1, <2>2
<1>6. (given.x + given.w) * s <= r * of
  <2>1. CASE s <= r
    <3>1. (given.x + given.w) * s <= of * s /\ s * of <= r * of
      BY <1>1, <1>2, <1>4, <2>1, Monotone
    <3>2. of * s = s * of /\ s * of \in Int /\ r * of \in Int /\ (given.x + given.w) * s \in Int
      BY <1>1, <1>2, <1>4
    <3>3. QED
      BY <3>1, <3>2
  <2>2. CASE box.x + box.w + 1 <= r
    <3>1. (box.x + box.w + 1) * of <= r * of
      BY <1>1, <1>2, <1>4, <2>2, Monotone
    <3>2. (given.x + given.w) * s <= (box.x + box.w + 1) * of
      BY <1>2 DEF Marks
    <3>3. (box.x + box.w + 1) * of \in Int /\ r * of \in Int /\ (given.x + given.w) * s \in Int
      BY <1>1, <1>2, <1>4
    <3>4. QED
      BY <3>1, <3>2, <3>3
  <2>3. QED
    BY <1>4, <2>1, <2>2
<1>7. QED
  BY <1>5, <1>6

(* Every box is repaired, at every size; and where the tile is not cut     *)
(* back at the end of the frame, every mark is repaired to the last pixel, *)
(* at every size a preset is carried to, and leaves no seam.               *)
THEOREM RepairedCorrect == Spec => []Repaired
<1>1. IInv => Repaired
  BY BoxIsRepaired, RepairFadesOut, MarkIsRepaired DEF Repaired
<1>2. QED
  BY <1>1, InvCorrect, PTL
=============================================================================

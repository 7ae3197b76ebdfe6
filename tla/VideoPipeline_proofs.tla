------------------------- MODULE VideoPipeline_proofs -------------------------
(***************************************************************************)
(* Theorems about SegmentPlan and VideoPipeline, for a video of any        *)
(* length, any cuts and parameters, and any failures the theorem allows.   *)
(***************************************************************************)
EXTENDS VideoPipeline, SequenceTheorems, FiniteSetTheorems, WellFoundedInduction, TLAPS

(***************************************************************************)
(* Recursion over the naturals, by least counterexample.                   *)
(***************************************************************************)
LEMMA LeastElement ==
  ASSUME NEW T, T \subseteq Nat, T # {}
  PROVE  \E x \in T : \A y \in T : x <= y
<1>1. \E x \in T : \A y \in T : ~(<<y, x>> \in OpToRel(<, Nat))
  BY WFMin, NatLessThanWellFounded
<1>2. PICK x \in T : \A y \in T : ~(<<y, x>> \in OpToRel(<, Nat))
  BY <1>1
<1>3. \A y \in T : ~(y < x)
  BY <1>2 DEF OpToRel
<1>4. QED
  BY <1>3

LEMMA Induction ==
  ASSUME NEW N \in Nat, NEW T, 0 \in T, \A n \in 0 .. N - 1 : n \in T => n + 1 \in T
  PROVE  0 .. N \subseteq T
<1> SUFFICES ASSUME (0 .. N) \ T # {} PROVE FALSE
  OBVIOUS
<1> DEFINE U == (0 .. N) \ T
<1>0. U \subseteq Nat /\ U # {}
  OBVIOUS
<1> HIDE DEF U
<1>a. PICK x \in U : \A y \in U : x <= y
  BY <1>0, LeastElement
<1> USE DEF U
<1>1. x \in (0 .. N) \ T /\ \A y \in (0 .. N) \ T : x <= y
  BY <1>a
<1>2. x - 1 \in 0 .. N - 1 /\ x - 1 \in T
  BY <1>1
<1>3. QED
  BY <1>1, <1>2

(* A sequence of steps defines a function.                                 *)
Recurses(f, N, S, base, step) ==
  /\ f \in [0 .. N -> S]
  /\ f[0] = base
  /\ \A k \in 1 .. N : f[k] = step[k][f[k - 1]]

LEMMA RecursiveFunction ==
  ASSUME NEW S, NEW N \in Nat, NEW base \in S, NEW step \in [1 .. N -> [S -> S]]
  PROVE  \E f : Recurses(f, N, S, base, step)
<1> DEFINE Defined(n) == \E f \in [0 .. n -> S] :
             f[0] = base /\ \A k \in 1 .. n : f[k] = step[k][f[k - 1]]
           T == {n \in 0 .. N : Defined(n)}
<1>1. 0 \in T
  <2> DEFINE g == [k \in 0 .. 0 |-> base]
  <2>1. g \in [0 .. 0 -> S] /\ g[0] = base
    OBVIOUS
  <2> HIDE DEF g
  <2>2. \A k \in 1 .. 0 : g[k] = step[k][g[k - 1]]
    OBVIOUS
  <2>3. Defined(0)
    BY <2>1, <2>2
  <2> HIDE DEF Defined
  <2>4. QED
    BY <2>3
<1>2. ASSUME NEW n \in 0 .. N - 1, n \in T
      PROVE  n + 1 \in T
  <2>1. PICK f \in [0 .. n -> S] : f[0] = base /\ \A k \in 1 .. n : f[k] = step[k][f[k - 1]]
    BY <1>2
  <2> DEFINE g == [k \in 0 .. n + 1 |-> IF k <= n THEN f[k] ELSE step[n + 1][f[n]]]
  <2>2. n + 1 \in 1 .. N /\ n \in Nat /\ f[n] \in S
    OBVIOUS
  <2>3. step[n + 1][f[n]] \in S
    BY <2>2
  <2>4. g \in [0 .. n + 1 -> S]
    BY <2>2, <2>3
  <2>5. g[0] = base
    BY <2>1, <2>2
  <2>6. ASSUME NEW k \in 1 .. n + 1 PROVE g[k] = step[k][g[k - 1]]
    <3>1. k - 1 \in 0 .. n /\ g[k - 1] = f[k - 1]
      BY <2>2
    <3>2. CASE k <= n
      BY <2>1, <2>2, <3>1, <3>2
    <3>3. CASE ~(k <= n)
      BY <2>2, <3>1, <3>3
    <3>4. QED
      BY <3>2, <3>3
  <2> HIDE DEF g
  <2>7. Defined(n + 1)
    BY <2>4, <2>5, <2>6
  <2> HIDE DEF Defined
  <2>8. QED
    BY <2>2, <2>7
<1> HIDE DEF T, Defined
<1>3. 0 .. N \subseteq T
  BY <1>1, <1>2, Induction
<1>4. Defined(N)
  BY <1>3 DEF T
<1>5. QED
  BY <1>4 DEF Recurses, Defined
-----------------------------------------------------------------------------
(***************************************************************************)
(* _segment_plan.                                                          *)
(***************************************************************************)
Ascending(b) == \A i, j \in 1 .. Len(b) : i < j => b[i] < b[j]

Alone(c, bounds, upto, minShot) ==
  \A d \in bounds \cup {0, upto} : d = c \/ d - c >= minShot \/ c - d >= minShot

(* What is kept of the boundaries up to frame n: they ascend from 0, and   *)
(* none that stands alone is missing.                                      *)
KeptUpTo(b, n, marks, upto, minShot) ==
  /\ b \in Seq(Nat) /\ Len(b) >= 1 /\ b[1] = 0
  /\ Ascending(b)
  /\ \A i \in 1 .. Len(b) : b[i] <= n /\ b[i] < upto /\ b[i] \in marks \cup {0}
  /\ \A c \in marks : c \in 1 .. n /\ c < upto /\ Alone(c, marks, upto, minShot)
                       => \E i \in 1 .. Len(b) : b[i] = c

(* What _segment_plan does with frame k.                                   *)
KeepAt(k, b, marks, upto, minShot) ==
  IF k \in marks /\ k < upto /\ k - Last(b) >= minShot THEN Append(b, k) ELSE b

LEMMA KeepStep ==
  ASSUME NEW marks, NEW upto \in Nat, NEW minShot \in Nat \ {0}, NEW n \in Nat,
         NEW b, KeptUpTo(b, n, marks, upto, minShot)
  PROVE  KeptUpTo(KeepAt(n + 1, b, marks, upto, minShot), n + 1, marks, upto, minShot)
<1> DEFINE e == KeepAt(n + 1, b, marks, upto, minShot)
<1>0. /\ (n + 1 \in marks /\ n + 1 < upto /\ (n + 1) - Last(b) >= minShot
             => e = Append(b, n + 1))
      /\ (~(n + 1 \in marks /\ n + 1 < upto /\ (n + 1) - Last(b) >= minShot) => e = b)
  BY Zenon DEF KeepAt
<1> HIDE DEF e
<1> SUFFICES KeptUpTo(e, n + 1, marks, upto, minShot)
  BY DEF e
<1>1. b \in Seq(Nat) /\ Len(b) \in Nat /\ Len(b) >= 1 /\ DOMAIN b = 1 .. Len(b)
  BY DEF KeptUpTo
<1>2. Last(b) = b[Len(b)] /\ b[Len(b)] \in Nat /\ b[Len(b)] <= n
  BY <1>1 DEF Last, KeptUpTo
<1>3. CASE n + 1 \in marks /\ n + 1 < upto /\ (n + 1) - Last(b) >= minShot
  <2>1. /\ e \in Seq(Nat) /\ Len(e) = Len(b) + 1 /\ e[Len(b) + 1] = n + 1
        /\ \A i \in 1 .. Len(b) : e[i] = b[i]
    <3>1. e = Append(b, n + 1)
      BY <1>0, <1>3, Zenon
    <3>2. QED
      BY <1>1, <3>1
  <2>2. Ascending(e)
    <3> SUFFICES ASSUME NEW i \in 1 .. Len(e), NEW j \in 1 .. Len(e), i < j
                 PROVE  e[i] < e[j]
      BY DEF Ascending
    <3>1. i \in 1 .. Len(b) /\ e[i] = b[i] /\ b[i] \in Nat /\ b[i] <= n
      BY <1>1, <2>1 DEF KeptUpTo
    <3>2. CASE j = Len(b) + 1
      BY <2>1, <3>1, <3>2
    <3>3. CASE j \in 1 .. Len(b)
      BY <2>1, <3>1, <3>3 DEF KeptUpTo, Ascending
    <3>4. QED
      BY <1>1, <2>1, <3>2, <3>3
  <2>3. \A i \in 1 .. Len(e) : e[i] <= n + 1 /\ e[i] < upto /\ e[i] \in marks \cup {0}
    <3> SUFFICES ASSUME NEW i \in 1 .. Len(e)
                 PROVE  e[i] <= n + 1 /\ e[i] < upto /\ e[i] \in marks \cup {0}
      OBVIOUS
    <3>1. CASE i = Len(b) + 1
      BY <1>3, <2>1, <3>1
    <3>2. CASE i \in 1 .. Len(b)
      <4>1. b[i] \in Nat /\ b[i] <= n /\ b[i] < upto /\ b[i] \in marks \cup {0}
        BY <1>1, <3>2 DEF KeptUpTo
      <4>2. QED
        BY <2>1, <3>2, <4>1
    <3>3. QED
      BY <1>1, <2>1, <3>1, <3>2
  <2>4. ASSUME NEW c \in marks, c \in 1 .. n + 1, c < upto,
               Alone(c, marks, upto, minShot)
        PROVE  \E i \in 1 .. Len(e) : e[i] = c
    <3>1. CASE c = n + 1
      BY <1>1, <2>1, <3>1
    <3>2. CASE c # n + 1
      <4>1. c \in 1 .. n
        BY <2>4, <3>2
      <4>2. PICK i \in 1 .. Len(b) : b[i] = c
        BY <2>4, <4>1 DEF KeptUpTo
      <4>3. QED
        BY <1>1, <2>1, <4>2
    <3>3. QED
      BY <3>1, <3>2
  <2>5. QED
    BY <1>1, <2>1, <2>2, <2>3, <2>4 DEF KeptUpTo
<1>4. CASE ~(n + 1 \in marks /\ n + 1 < upto /\ (n + 1) - Last(b) >= minShot)
  <2>1. e = b
    BY <1>0, <1>4
  <2>2. \A i \in 1 .. Len(e) : e[i] <= n + 1 /\ e[i] < upto /\ e[i] \in marks \cup {0}
    <3> SUFFICES ASSUME NEW i \in 1 .. Len(b)
                 PROVE  b[i] <= n + 1 /\ b[i] < upto /\ b[i] \in marks \cup {0}
      BY <2>1
    <3>1. b[i] \in Nat /\ b[i] <= n /\ b[i] < upto /\ b[i] \in marks \cup {0}
      BY <1>1 DEF KeptUpTo
    <3>2. QED
      BY <3>1
  <2>3. ASSUME NEW c \in marks, c \in 1 .. n + 1, c < upto,
               Alone(c, marks, upto, minShot)
        PROVE  \E i \in 1 .. Len(e) : e[i] = c
    <3>1. c # n + 1
      <4> SUFFICES ASSUME c = n + 1 PROVE FALSE
        OBVIOUS
      <4>1. Last(b) \in marks \cup {0}
        BY <1>1, <1>2 DEF KeptUpTo
      <4>2. \/ Last(b) = n + 1 \/ Last(b) - (n + 1) >= minShot
            \/ (n + 1) - Last(b) >= minShot
        BY <1>2, <2>3, <4>1 DEF Alone
      <4>3. QED
        BY <1>2, <1>4, <2>3, <4>2
    <3>2. c \in 1 .. n
      BY <2>3, <3>1
    <3>3. QED
      BY <2>1, <2>3, <3>2 DEF KeptUpTo
  <2>4. QED
    BY <2>1, <2>2, <2>3 DEF KeptUpTo
<1>5. QED
  BY <1>3, <1>4

LEMMA KeepAtType ==
  ASSUME NEW marks, NEW upto \in Nat, NEW minShot \in Nat \ {0}, NEW k \in Nat,
         NEW b \in Seq(Nat)
  PROVE  KeepAt(k, b, marks, upto, minShot) \in Seq(Nat)
<1>1. Append(b, k) \in Seq(Nat)
  OBVIOUS
<1>2. QED
  BY <1>1 DEF KeepAt

Keeps(f, marks, upto, minShot) ==
  /\ f \in [0 .. upto -> Seq(Nat)]
  /\ f[0] = <<0>>
  /\ \A k \in 1 .. upto : f[k] = KeepAt(k, f[k - 1], marks, upto, minShot)

LEMMA KeptExists ==
  ASSUME NEW marks, NEW upto \in Nat, NEW minShot \in Nat \ {0}
  PROVE  \E f : Keeps(f, marks, upto, minShot)
<1> DEFINE step == [k \in 1 .. upto |->
                     [b \in Seq(Nat) |-> KeepAt(k, b, marks, upto, minShot)]]
<1>1. step \in [1 .. upto -> [Seq(Nat) -> Seq(Nat)]]
  BY KeepAtType
<1>2. \A k \in 1 .. upto, b \in Seq(Nat) :
        step[k][b] = KeepAt(k, b, marks, upto, minShot)
  OBVIOUS
<1>3. <<0>> \in Seq(Nat)
  OBVIOUS
<1> HIDE DEF step
<1>a. PICK f : Recurses(f, upto, Seq(Nat), <<0>>, step)
  BY <1>1, <1>3, RecursiveFunction
<1>4. /\ f \in [0 .. upto -> Seq(Nat)]
      /\ f[0] = <<0>> /\ \A k \in 1 .. upto : f[k] = step[k][f[k - 1]]
  BY <1>a, Zenon DEF Recurses
<1>5. \A k \in 1 .. upto : f[k - 1] \in Seq(Nat)
  BY <1>4
<1>6. \A k \in 1 .. upto : f[k] = KeepAt(k, f[k - 1], marks, upto, minShot)
  BY <1>2, <1>4, <1>5
<1>7. QED
  BY <1>4, <1>6 DEF Keeps

LEMMA KeptSound ==
  ASSUME NEW marks, NEW upto \in Nat \ {0}, NEW minShot \in Nat \ {0}
  PROVE  KeptUpTo(Kept(marks, upto, minShot), upto, marks, upto, minShot)
<1> DEFINE Is(g) == g = [s \in 0 .. upto |->
                          IF s = 0 THEN <<0>>
                          ELSE KeepAt(s, g[s - 1], marks, upto, minShot)]
           kept == CHOOSE g : Is(g)
<1>0. upto \in Nat
  OBVIOUS
<1>1. Kept(marks, upto, minShot) = kept[upto]
  BY Zenon DEF Kept, KeepAt
<1>a. PICK f : Keeps(f, marks, upto, minShot)
  BY <1>0, KeptExists, Zenon
<1>2. /\ f \in [0 .. upto -> Seq(Nat)]
      /\ f[0] = <<0>>
      /\ \A k \in 1 .. upto : f[k] = KeepAt(k, f[k - 1], marks, upto, minShot)
  BY <1>a DEF Keeps
<1>3. Is(f)
  <2> DEFINE g == [s \in 0 .. upto |->
                    IF s = 0 THEN <<0>> ELSE KeepAt(s, f[s - 1], marks, upto, minShot)]
  <2>1. \A s \in 0 .. upto : s = 0 \/ s \in 1 .. upto
    OBVIOUS
  <2>3. \A s \in 0 .. upto : f[s] = IF s = 0 THEN <<0>>
                                   ELSE KeepAt(s, f[s - 1], marks, upto, minShot)
    BY <1>2, <2>1
  <2>2. f = g
    BY <1>2, <2>3
  <2>4. QED
    BY <2>2
<1>4. Is(kept)
  BY <1>3
<1> HIDE DEF kept
<1>5. kept[0] = <<0>>
  BY <1>4
<1>6. ASSUME NEW n \in 0 .. upto - 1
      PROVE  kept[n + 1] = KeepAt(n + 1, kept[n], marks, upto, minShot)
  <2>1. n + 1 \in 0 .. upto /\ n + 1 # 0 /\ (n + 1) - 1 = n
    OBVIOUS
  <2>2. kept[n + 1] = KeepAt(n + 1, kept[(n + 1) - 1], marks, upto, minShot)
    BY <1>4, <2>1
  <2>3. QED
    BY <2>1, <2>2
<1> HIDE DEF Is
<1> DEFINE T == {n \in 0 .. upto : KeptUpTo(kept[n], n, marks, upto, minShot)}
<1>7. 0 \in T
  <2> DEFINE z == <<0>>
  <2>1. z \in Seq(Nat) /\ Len(z) = 1 /\ z[1] = 0
    OBVIOUS
  <2>2. kept[0] = z
    BY <1>5
  <2> HIDE DEF z
  <2>3. Ascending(z) /\ \A i \in 1 .. Len(z) : z[i] = 0
    BY <2>1 DEF Ascending
  <2>4. KeptUpTo(z, 0, marks, upto, minShot)
    BY <2>1, <2>3 DEF KeptUpTo
  <2>5. QED
    BY <2>2, <2>4
<1>8. ASSUME NEW n \in 0 .. upto - 1, n \in T
      PROVE  n + 1 \in T
  <2>1. KeptUpTo(kept[n], n, marks, upto, minShot) /\ n \in Nat /\ n + 1 \in 0 .. upto
    BY <1>8
  <2>2. KeptUpTo(kept[n + 1], n + 1, marks, upto, minShot)
    BY <1>6, <2>1, KeepStep
  <2>3. QED
    BY <2>1, <2>2
<1> HIDE DEF T
<1>9. 0 .. upto \subseteq T
  BY <1>7, <1>8, Induction
<1>10. QED
  BY <1>1, <1>9 DEF T

(* Shots: they ascend from the first frame to the last, and a boundary     *)
(* that stands alone is where one begins.                                  *)
Shots(b, marks, upto, minShot) ==
  /\ b \in Seq(Nat) /\ Len(b) >= 2 /\ b[1] = 0 /\ b[Len(b)] = upto
  /\ Ascending(b)
  /\ \A c \in marks : c \in 1 .. upto - 1 /\ Alone(c, marks, upto, minShot)
                       => \E i \in 1 .. Len(b) : b[i] = c

LEMMA BoundsSound ==
  ASSUME NEW marks, NEW upto \in Nat \ {0}, NEW minShot \in Nat \ {0}
  PROVE  Shots(Bounds(marks, upto, minShot), marks, upto, minShot)
<1> DEFINE k == Kept(marks, upto, minShot)
           b == Bounds(marks, upto, minShot)
<1>1. KeptUpTo(k, upto, marks, upto, minShot)
  BY KeptSound
<1>2. b = IF Last(k) = upto THEN k
          ELSE IF upto - Last(k) < minShot /\ Len(k) > 1
                 THEN Append(Front(k), upto) ELSE Append(k, upto)
  BY Zenon DEF Bounds
<1> HIDE DEF k, b
<1> SUFFICES Shots(b, marks, upto, minShot)
  BY DEF b
<1>3. /\ k \in Seq(Nat) /\ Len(k) \in Nat /\ Len(k) >= 1 /\ k[1] = 0 /\ Ascending(k)
      /\ \A i \in 1 .. Len(k) : k[i] \in Nat /\ k[i] < upto /\ k[i] \in marks \cup {0}
  BY <1>1 DEF KeptUpTo
<1>4. Last(k) = k[Len(k)] /\ Last(k) \in Nat /\ Last(k) < upto
  BY <1>3 DEF Last
<1>5. CASE upto - Last(k) < minShot /\ Len(k) > 1
  <2> DEFINE f == Front(k)
  <2>1. b = Append(f, upto)
    BY <1>2, <1>4, <1>5
  <2>2. /\ f \in Seq(Nat) /\ Len(f) = Len(k) - 1
        /\ \A i \in 1 .. Len(k) - 1 : f[i] = k[i]
    BY <1>3, <1>5 DEF Front
  <2> HIDE DEF f
  <2>3. /\ b \in Seq(Nat) /\ Len(b) = Len(k) /\ b[Len(k)] = upto
        /\ \A i \in 1 .. Len(k) - 1 : b[i] = k[i]
    BY <1>3, <1>5, <2>1, <2>2
  <2>4. Ascending(b)
    <3> SUFFICES ASSUME NEW i \in 1 .. Len(b), NEW j \in 1 .. Len(b), i < j
                 PROVE  b[i] < b[j]
      BY DEF Ascending
    <3>1. i \in 1 .. Len(k) - 1 /\ b[i] = k[i] /\ k[i] < upto
      BY <1>3, <2>3
    <3>2. CASE j = Len(k)
      BY <2>3, <3>1, <3>2
    <3>3. CASE j \in 1 .. Len(k) - 1
      BY <1>3, <2>3, <3>1, <3>3 DEF Ascending
    <3>4. QED
      BY <1>3, <2>3, <3>2, <3>3
  <2>5. ASSUME NEW c \in marks, c \in 1 .. upto - 1, Alone(c, marks, upto, minShot)
        PROVE  \E i \in 1 .. Len(b) : b[i] = c
    <3>1. PICK i \in 1 .. Len(k) : k[i] = c
      BY <1>1, <2>5 DEF KeptUpTo
    <3>2. i # Len(k)
      <4>1. upto = c \/ upto - c >= minShot \/ c - upto >= minShot
        BY <2>5 DEF Alone
      <4>2. c # Last(k)
        BY <1>4, <1>5, <2>5, <4>1
      <4>3. QED
        BY <1>4, <3>1, <4>2
    <3>3. i \in 1 .. Len(k) - 1 /\ i \in 1 .. Len(b)
      BY <1>3, <2>3, <3>2
    <3>4. QED
      BY <2>3, <3>1, <3>3
  <2>6. b \in Seq(Nat) /\ Len(b) >= 2 /\ b[1] = 0 /\ b[Len(b)] = upto
    BY <1>3, <1>5, <2>3
  <2>7. QED
    BY <2>4, <2>5, <2>6 DEF Shots
<1>6. CASE ~(upto - Last(k) < minShot /\ Len(k) > 1)
  <2>1. b = Append(k, upto)
    BY <1>2, <1>4, <1>6
  <2>2. /\ b \in Seq(Nat) /\ Len(b) = Len(k) + 1 /\ b[Len(k) + 1] = upto
        /\ \A i \in 1 .. Len(k) : b[i] = k[i]
    BY <1>3, <2>1
  <2>3. Ascending(b)
    <3> SUFFICES ASSUME NEW i \in 1 .. Len(b), NEW j \in 1 .. Len(b), i < j
                 PROVE  b[i] < b[j]
      BY DEF Ascending
    <3>1. i \in 1 .. Len(k) /\ b[i] = k[i] /\ k[i] < upto
      BY <1>3, <2>2
    <3>2. CASE j = Len(k) + 1
      BY <2>2, <3>1, <3>2
    <3>3. CASE j \in 1 .. Len(k)
      BY <1>3, <2>2, <3>1, <3>3 DEF Ascending
    <3>4. QED
      BY <1>3, <2>2, <3>2, <3>3
  <2>4. ASSUME NEW c \in marks, c \in 1 .. upto - 1, Alone(c, marks, upto, minShot)
        PROVE  \E i \in 1 .. Len(b) : b[i] = c
    <3>1. PICK i \in 1 .. Len(k) : k[i] = c
      BY <1>1, <2>4 DEF KeptUpTo
    <3>2. QED
      BY <1>3, <2>2, <3>1
  <2>5. b \in Seq(Nat) /\ Len(b) >= 2 /\ b[1] = 0 /\ b[Len(b)] = upto
    BY <1>3, <2>2
  <2>6. QED
    BY <2>3, <2>4, <2>5 DEF Shots
<1>7. QED
  BY <1>5, <1>6
-----------------------------------------------------------------------------
SegmentSet == [first: Nat, end: Nat, left: Nat, right: Nat]

(* A segment is as long as it may be, and lies in one shot with its        *)
(* context.                                                                *)
Fits(s, b, segment, overlap) ==
  /\ s.end - s.first \in 1 .. segment
  /\ s.left <= overlap /\ s.left <= s.first /\ s.right <= overlap
  /\ \E m \in 1 .. Len(b) - 1 : b[m] <= s.first - s.left /\ s.end + s.right <= b[m + 1]

(* What comes before a segment holds its context.                          *)
Follows(s, t) == t.first = s.end /\ t.left <= s.left + (s.end - s.first)

Chain(p, from, to, b, segment, overlap) ==
  /\ p \in Seq(SegmentSet) /\ Len(p) >= 1
  /\ p[1].first = from /\ p[1].left = 0 /\ p[Len(p)].end = to
  /\ \A i \in 1 .. Len(p) : Fits(p[i], b, segment, overlap)
  /\ \A i \in 1 .. Len(p) - 1 : Follows(p[i], p[i + 1])

LEMMA CeilDiv ==
  ASSUME NEW n \in Nat \ {0}, NEW d \in Nat \ {0}, NEW K, K = (n + d - 1) \div d
  PROVE  K \in Nat /\ K >= 1 /\ (K - 1) * d < n /\ n <= K * d
<1>1. n + d - 1 \in Nat /\ K \in Int
  OBVIOUS
<1>2. d * K <= n + d - 1 /\ n + d - 1 < d * K + d
  BY <1>1, SMT
<1>3. QED
  BY <1>1, <1>2

LEMMA Times ==
  ASSUME NEW k \in Nat, NEW K \in Nat, NEW d \in Nat, k <= K
  PROVE  k * d \in Nat /\ k * d <= K * d /\ (k + 1) * d = k * d + d
OBVIOUS

LEMMA LeastFacts ==
  ASSUME NEW a \in Int, NEW c \in Int
  PROVE  /\ Least(a, c) \in {a, c} /\ Least(a, c) <= a /\ Least(a, c) <= c
         /\ Greatest(a, c) \in {a, c} /\ Greatest(a, c) >= a /\ Greatest(a, c) >= c
BY DEF Least, Greatest

LEMMA LeastShift ==
  ASSUME NEW a \in Int, NEW c \in Int, NEW d \in Int
  PROVE  Least(a, c) + d = Least(a + d, c + d)
BY DEF Least

LEMMA ConcatChain ==
  ASSUME NEW b, NEW segment \in Nat, NEW overlap \in Nat,
         NEW from, NEW mid, NEW to, NEW p, NEW q,
         Chain(p, from, mid, b, segment, overlap), Chain(q, mid, to, b, segment, overlap)
  PROVE  Chain(p \o q, from, to, b, segment, overlap)
<1> DEFINE r == p \o q
<1>1. /\ p \in Seq(SegmentSet) /\ Len(p) \in Nat /\ Len(p) >= 1
      /\ q \in Seq(SegmentSet) /\ Len(q) \in Nat /\ Len(q) >= 1
  BY DEF Chain
<1>2. /\ r \in Seq(SegmentSet) /\ Len(r) = Len(p) + Len(q)
      /\ \A i \in 1 .. Len(p) + Len(q) : r[i] = IF i <= Len(p) THEN p[i] ELSE q[i - Len(p)]
  BY <1>1, ConcatProperties
<1> HIDE DEF r
<1> SUFFICES Chain(r, from, to, b, segment, overlap)
  BY DEF r
<1>3. ASSUME NEW i \in 1 .. Len(p) PROVE r[i] = p[i]
  <2>1. i \in 1 .. Len(p) + Len(q) /\ i <= Len(p)
    BY <1>1
  <2>2. QED
    BY <1>2, <2>1
<1>4. ASSUME NEW i \in 1 .. Len(q) PROVE r[Len(p) + i] = q[i]
  <2>1. Len(p) + i \in 1 .. Len(p) + Len(q) /\ ~(Len(p) + i <= Len(p))
    BY <1>1
  <2>2. (Len(p) + i) - Len(p) = i
    BY <1>1
  <2>3. QED
    BY <1>2, <2>1, <2>2
<1>5. r[1] = p[1] /\ r[Len(r)] = q[Len(q)]
  <2>1. 1 \in 1 .. Len(p) /\ Len(q) \in 1 .. Len(q)
    BY <1>1
  <2>2. r[1] = p[1] /\ r[Len(p) + Len(q)] = q[Len(q)]
    BY <1>3, <1>4, <2>1
  <2>3. QED
    BY <1>2, <2>2
<1>6. \A i \in 1 .. Len(r) : Fits(r[i], b, segment, overlap)
  <2> SUFFICES ASSUME NEW i \in 1 .. Len(r) PROVE Fits(r[i], b, segment, overlap)
    OBVIOUS
  <2>1. CASE i \in 1 .. Len(p)
    BY <1>3, <2>1 DEF Chain
  <2>2. CASE i - Len(p) \in 1 .. Len(q)
    <3>1. r[i] = q[i - Len(p)]
      BY <1>1, <1>2, <2>2
    <3>2. QED
      BY <2>2, <3>1 DEF Chain
  <2>3. QED
    BY <1>1, <1>2, <2>1, <2>2
<1>7. \A i \in 1 .. Len(r) - 1 : Follows(r[i], r[i + 1])
  <2> SUFFICES ASSUME NEW i \in 1 .. Len(r) - 1 PROVE Follows(r[i], r[i + 1])
    OBVIOUS
  <2>1. CASE i \in 1 .. Len(p) - 1
    <3>1. r[i] = p[i] /\ r[i + 1] = p[i + 1]
      BY <1>1, <1>3, <2>1
    <3>2. QED
      BY <2>1, <3>1 DEF Chain
  <2>2. CASE i = Len(p)
    <3>1. r[i] = p[Len(p)] /\ r[i + 1] = q[1]
      BY <1>1, <1>3, <1>4, <2>2
    <3>2. p[Len(p)].end = mid /\ q[1].first = mid /\ q[1].left = 0
      BY DEF Chain
    <3>3. p[Len(p)] \in SegmentSet /\ Fits(p[Len(p)], b, segment, overlap)
      BY <1>1 DEF Chain
    <3>4. p[Len(p)].left \in Nat /\ p[Len(p)].end \in Nat /\ p[Len(p)].first \in Nat
      BY <3>3 DEF SegmentSet
    <3>5. p[Len(p)].end - p[Len(p)].first >= 1
      BY <3>3, <3>4 DEF Fits
    <3>6. 0 <= p[Len(p)].left + (p[Len(p)].end - p[Len(p)].first)
      BY <3>4, <3>5
    <3>7. QED
      BY <3>1, <3>2, <3>6 DEF Follows
  <2>3. CASE i - Len(p) \in 1 .. Len(q) - 1
    <3>1. r[i] = q[i - Len(p)] /\ r[i + 1] = q[(i - Len(p)) + 1]
      BY <1>1, <1>2, <2>3
    <3>2. QED
      BY <2>3, <3>1 DEF Chain
  <2>4. QED
    BY <1>1, <1>2, <2>1, <2>2, <2>3
<1>8. p[1].first = from /\ p[1].left = 0 /\ q[Len(q)].end = to
  BY DEF Chain
<1>9. QED
  BY <1>1, <1>2, <1>5, <1>6, <1>7, <1>8 DEF Chain

(* A segment that starts d frames into the shot from x to y.               *)
Lies(s, x, y, d, segment, overlap) ==
  /\ s \in SegmentSet
  /\ s.first = x + d /\ s.end = Least(y, x + d + segment) /\ s.left = Least(overlap, d)
  /\ s.end - s.first \in 1 .. segment
  /\ s.left <= overlap /\ s.left <= s.first /\ s.right <= overlap
  /\ x <= s.first - s.left /\ s.end + s.right <= y

LEMMA SegmentFacts ==
  ASSUME NEW segment \in Nat \ {0}, NEW overlap \in Nat,
         NEW x \in Nat, NEW y \in Nat, NEW d \in Nat, x + d < y
  PROVE  Lies(SegmentAt(x, y, x + d, segment, overlap), x, y, d, segment, overlap)
<1> DEFINE s == SegmentAt(x, y, x + d, segment, overlap)
           e == Least(y, x + d + segment)
           l == Least(overlap, d)
           r == Least(overlap, y - e)
<1>1. (x + d) - x = d
  OBVIOUS
<1>2. s = [first |-> x + d, end |-> e, left |-> l, right |-> r]
  BY <1>1 DEF SegmentAt
<1>3. e \in Nat /\ e <= y /\ e >= x + d + 1 /\ e <= x + d + segment
  BY DEF Least
<1> HIDE DEF e
<1>4. l \in Nat /\ l <= overlap /\ l <= d
  BY DEF Least
<1>5. r \in Nat /\ r <= overlap /\ r <= y - e
  BY <1>3 DEF Least
<1> HIDE DEF l, r
<1>6. x + d \in Nat
  OBVIOUS
<1> HIDE DEF s
<1>7. s.first = x + d /\ s.end = e /\ s.left = l /\ s.right = r /\ s \in SegmentSet
  BY <1>2, <1>3, <1>4, <1>5, <1>6 DEF SegmentSet
<1>8. QED
  BY <1>3, <1>4, <1>5, <1>7 DEF e, l, s, Lies

LEMMA Offsets ==
  ASSUME NEW n \in Nat \ {0}, NEW d \in Nat \ {0}, NEW K \in Nat, K >= 1,
         (K - 1) * d < n, n <= K * d, NEW k \in 1 .. K
  PROVE  /\ (k - 1) * d \in Nat /\ k * d \in Nat
         /\ k * d = (k - 1) * d + d /\ (k - 1) * d < n
         /\ k # K => k * d < n
<1>1. k \in Nat /\ k - 1 \in Nat /\ K - 1 \in Nat /\ k - 1 <= K - 1 /\ (k - 1) + 1 = k
  OBVIOUS
<1>2. (k - 1) * d \in Nat /\ (k - 1) * d <= (K - 1) * d /\ ((k - 1) + 1) * d = (k - 1) * d + d
  BY <1>1, Times
<1>3. k * d \in Nat /\ (K - 1) * d \in Nat
  BY <1>1
<1>4. k * d = (k - 1) * d + d
  BY <1>1, <1>2
<1>5. ASSUME k # K PROVE k * d <= (K - 1) * d
  <2>1. k <= K - 1
    BY <1>5
  <2>2. QED
    BY <1>1, <2>1, Times
<1>6. (k - 1) * d < n
  BY <1>2, <1>3
<1>7. k # K => k * d < n
  BY <1>3, <1>5
<1>8. QED
  BY <1>2, <1>3, <1>4, <1>6, <1>7

LEMMA ShotChain ==
  ASSUME NEW segment \in Nat \ {0}, NEW overlap \in Nat, NEW b,
         NEW x \in Nat, NEW y \in Nat, x < y,
         \E m \in 1 .. Len(b) - 1 : b[m] = x /\ b[m + 1] = y
  PROVE  Chain(Shot(x, y, segment, overlap), x, y, b, segment, overlap)
<1> DEFINE K == (y - x + segment - 1) \div segment
           p == Shot(x, y, segment, overlap)
           D(k) == k * segment
<1>1. /\ K \in Nat /\ K >= 1
      /\ \A k \in 1 .. K : /\ D(k - 1) \in Nat /\ D(k) = D(k - 1) + segment
                            /\ D(k - 1) < y - x /\ (k # K => D(k) < y - x)
      /\ y - x <= D(K) /\ D(0) = 0
  <2>1. y - x \in Nat \ {0} /\ y - x + segment - 1 = (y - x) + segment - 1
    OBVIOUS
  <2>2. K \in Nat /\ K >= 1 /\ (K - 1) * segment < y - x /\ y - x <= K * segment
    BY <2>1, CeilDiv
  <2> HIDE DEF K
  <2>3. 0 * segment = 0
    OBVIOUS
  <2>4. QED
    BY <2>1, <2>2, <2>3, Offsets
<1>2. p = [k \in 1 .. K |-> SegmentAt(x, y, x + D(k - 1), segment, overlap)]
  BY DEF Shot
<1> HIDE DEF K, p, D
<1>3. ASSUME NEW k \in 1 .. K
      PROVE  /\ p[k] \in SegmentSet
             /\ p[k].first = x + D(k - 1)
             /\ p[k].end = IF k = K THEN y ELSE x + D(k)
             /\ p[k].left = Least(overlap, D(k - 1))
             /\ p[k].end - p[k].first \in 1 .. segment
             /\ p[k].left <= overlap /\ p[k].left <= p[k].first /\ p[k].right <= overlap
             /\ x <= p[k].first - p[k].left /\ p[k].end + p[k].right <= y
  <2>1. PICK d \in Nat : d = D(k - 1)
    BY <1>1
  <2>2. d < y - x /\ D(k) = d + segment /\ (k # K => d + segment < y - x)
        /\ (k = K => y - x <= d + segment)
    BY <1>1, <2>1
  <2>3. x + d < y
    BY <2>2
  <2>4. p[k] = SegmentAt(x, y, x + d, segment, overlap)
    BY <1>2, <2>1
  <2>5. Least(y, x + d + segment) = IF k = K THEN y ELSE x + D(k)
    <3>1. x + D(k) = x + d + segment
      BY <2>2
    <3>2. CASE k = K
      BY <2>2, <3>2 DEF Least
    <3>3. CASE k # K
      BY <2>2, <3>1, <3>3 DEF Least
    <3>4. QED
      BY <3>2, <3>3
  <2>6. Lies(p[k], x, y, d, segment, overlap)
    BY <2>1, <2>3, <2>4, SegmentFacts
  <2>7. QED
    BY <2>1, <2>5, <2>6 DEF Lies
<1>4. p \in Seq(SegmentSet) /\ Len(p) = K
  BY <1>1, <1>2, <1>3
<1>5. \A k \in 1 .. K : Fits(p[k], b, segment, overlap)
  BY <1>3 DEF Fits
<1>6. ASSUME NEW k \in 1 .. K - 1 PROVE Follows(p[k], p[k + 1])
  <2>1. k \in 1 .. K /\ k + 1 \in 1 .. K /\ (k + 1) - 1 = k /\ k # K
    BY <1>1
  <2>2. PICK d \in Nat : d = D(k - 1)
    BY <1>1, <2>1
  <2>3. D(k) = d + segment
    BY <1>1, <2>1, <2>2
  <2>4. /\ p[k].first = x + d /\ p[k].end = x + (d + segment)
        /\ p[k + 1].first = x + (d + segment)
        /\ p[k].left = Least(overlap, d) /\ p[k + 1].left = Least(overlap, d + segment)
    BY <1>3, <2>1, <2>2, <2>3
  <2>5. /\ Least(overlap, d + segment) <= Least(overlap, d) + segment
        /\ (x + (d + segment)) - (x + d) = segment
    BY DEF Least
  <2>6. QED
    BY <2>4, <2>5 DEF Follows
<1>7. p[1].first = x /\ p[1].left = 0 /\ p[K].end = y
  <2>1. 1 \in 1 .. K /\ K \in 1 .. K /\ 1 - 1 = 0
    BY <1>1
  <2>2. Least(overlap, 0) = 0 /\ x + 0 = x
    BY DEF Least
  <2>3. QED
    BY <1>1, <1>3, <2>1, <2>2
<1>8. Chain(p, x, y, b, segment, overlap)
  BY <1>1, <1>4, <1>5, <1>6, <1>7 DEF Chain
<1>9. QED
  BY <1>8 DEF p

LEMMA FlattenChain ==
  ASSUME NEW b, NEW segment \in Nat, NEW overlap \in Nat, NEW at, NEW n \in Nat \ {0},
         NEW p, p = [i \in 1 .. n |-> p[i]],
         \A i \in 1 .. n : Chain(p[i], at[i], at[i + 1], b, segment, overlap)
  PROVE  Chain(FlattenSeq(p), at[1], at[n + 1], b, segment, overlap)
<1> DEFINE S == Seq(SegmentSet)
           Is(g) == g = [i \in 1 .. Len(p) |-> IF i = 1 THEN p[i] ELSE g[i - 1] \o p[i]]
           flat == CHOOSE g : Is(g)
<1>1. \A i \in 1 .. n : p[i] \in S
  BY DEF Chain
<1>2. p \in Seq(S) /\ Len(p) = n
  BY <1>1
<1>3. FlattenSeq(p) = flat[n]
  <2>1. Len(p) # 0
    BY <1>2
  <2>2. FlattenSeq(p) = flat[Len(p)]
    BY <2>1, Zenon DEF FlattenSeq
  <2>3. QED
    BY <1>2, <2>2
<1>4. \E g : Is(g)
  <2> DEFINE step == [k \in 1 .. n - 1 |-> [q \in S |-> q \o p[k + 1]]]
  <2>1. \A k \in 1 .. n - 1, q \in S : q \o p[k + 1] \in S
    BY <1>1
  <2>2. \A k \in 1 .. n - 1, q \in S : step[k][q] = q \o p[k + 1]
    OBVIOUS
  <2>3. n - 1 \in Nat /\ p[1] \in S /\ step \in [1 .. n - 1 -> [S -> S]]
    BY <1>1, <2>1
  <2> HIDE DEF step, S
  <2>4. PICK f : Recurses(f, n - 1, S, p[1], step)
    BY <2>3, RecursiveFunction
  <2>5. /\ \A k \in 0 .. n - 1 : f[k] \in S
        /\ f[0] = p[1] /\ \A k \in 1 .. n - 1 : f[k] = step[k][f[k - 1]]
    BY <2>4 DEF Recurses
  <2>6. ASSUME NEW k \in 1 .. n - 1 PROVE f[k] = f[k - 1] \o p[k + 1]
    <3>1. k - 1 \in 0 .. n - 1
      OBVIOUS
    <3>2. QED
      BY <2>2, <2>5, <3>1
  <2> DEFINE g == [i \in 1 .. n |-> f[i - 1]]
             h == [i \in 1 .. n |-> IF i = 1 THEN p[i] ELSE g[i - 1] \o p[i]]
  <2>7. ASSUME NEW i \in 1 .. n PROVE g[i] = h[i]
    <3>1. CASE i = 1
      BY <2>5, <3>1
    <3>2. CASE i # 1
      <4>1. i - 1 \in 1 .. n - 1 /\ i - 1 \in 1 .. n /\ (i - 1) + 1 = i
        BY <3>2
      <4>2. g[i - 1] = f[(i - 1) - 1] /\ g[i] = f[i - 1]
        BY <4>1
      <4>3. f[i - 1] = f[(i - 1) - 1] \o p[(i - 1) + 1]
        BY <2>6, <4>1
      <4>4. h[i] = g[i - 1] \o p[i]
        BY <3>2
      <4> HIDE DEF g, h
      <4>5. QED
        BY <4>1, <4>2, <4>3, <4>4
    <3>3. QED
      BY <3>1, <3>2
  <2>8. g = h
    <3> HIDE DEF S
    <3>1. g = [i \in 1 .. n |-> g[i]] /\ h = [i \in 1 .. n |-> h[i]]
      OBVIOUS
    <3> HIDE DEF g, h
    <3>2. QED
      BY <2>7, <3>1
  <2>9. Is(g)
    BY <1>2, <2>8
  <2>10. QED
    BY <2>9
<1>5. Is(flat)
  BY <1>4
<1> HIDE DEF flat
<1>6. flat[1] = p[1] /\ \A i \in 2 .. n : flat[i] = flat[i - 1] \o p[i]
  <2>1. flat = [i \in 1 .. n |-> IF i = 1 THEN p[i] ELSE flat[i - 1] \o p[i]]
    BY <1>2, <1>5
  <2>2. 1 \in 1 .. n /\ \A i \in 2 .. n : i \in 1 .. n /\ i # 1
    OBVIOUS
  <2>3. \A i \in 1 .. n : flat[i] = IF i = 1 THEN p[i] ELSE flat[i - 1] \o p[i]
    BY <2>1, Zenon
  <2>4. QED
    BY <2>2, <2>3
<1> HIDE DEF Is
<1> DEFINE T == {k \in 0 .. n - 1 : Chain(flat[k + 1], at[1], at[k + 2], b, segment, overlap)}
<1>7. 0 \in T
  BY <1>6
<1>8. ASSUME NEW k \in 0 .. n - 1 - 1, k \in T PROVE k + 1 \in T
  <2>1. /\ Chain(flat[k + 1], at[1], at[k + 2], b, segment, overlap)
        /\ k + 1 \in 0 .. n - 1 /\ k + 2 \in 2 .. n /\ k + 2 \in 1 .. n
        /\ (k + 2) - 1 = k + 1 /\ (k + 1) + 1 = k + 2 /\ (k + 1) + 2 = (k + 2) + 1
    BY <1>8
  <2>2. flat[k + 2] = flat[k + 1] \o p[k + 2]
    BY <1>6, <2>1
  <2>3. Chain(p[k + 2], at[k + 2], at[(k + 2) + 1], b, segment, overlap)
    BY <2>1
  <2>4. Chain(flat[k + 2], at[1], at[(k + 2) + 1], b, segment, overlap)
    BY <2>1, <2>2, <2>3, ConcatChain
  <2>5. QED
    BY <2>1, <2>4
<1> HIDE DEF T
<1>9. 0 .. n - 1 \subseteq T
  <2>1. n - 1 \in Nat
    OBVIOUS
  <2>2. QED
    BY <1>7, <1>8, <2>1, Induction
<1>10. QED
  <2>1. n - 1 \in T /\ (n - 1) + 1 = n /\ (n - 1) + 2 = n + 1
    BY <1>9
  <2>2. Chain(flat[n], at[1], at[n + 1], b, segment, overlap)
    BY <2>1 DEF T
  <2>3. QED
    BY <1>3, <2>2

(* The plan follows the shots from the first frame to the last.            *)
LEMMA SegmentsSound ==
  ASSUME NEW marks, NEW upto \in Nat \ {0}, NEW segment \in Nat \ {0},
         NEW overlap \in Nat, NEW minShot \in Nat \ {0}
  PROVE  Chain(Segments(marks, upto, segment, overlap, minShot), 0, upto,
               Bounds(marks, upto, minShot), segment, overlap)
<1> DEFINE b == Bounds(marks, upto, minShot)
           n == Len(b) - 1
           p == [i \in 1 .. n |-> Shot(b[i], b[i + 1], segment, overlap)]
<1>1. Segments(marks, upto, segment, overlap, minShot) = FlattenSeq(p)
  BY Zenon DEF Segments
<1>2. Shots(b, marks, upto, minShot)
  BY BoundsSound
<1> HIDE DEF b
<1>3. /\ b \in Seq(Nat) /\ Len(b) \in Nat /\ n \in Nat \ {0} /\ n + 1 = Len(b)
      /\ b[1] = 0 /\ b[Len(b)] = upto
  BY <1>2 DEF Shots
<1>4. ASSUME NEW i \in 1 .. n
      PROVE  Chain(p[i], b[i], b[i + 1], b, segment, overlap)
  <2>1. i \in 1 .. Len(b) /\ i + 1 \in 1 .. Len(b) /\ b[i] \in Nat /\ b[i + 1] \in Nat
    BY <1>3
  <2>2. b[i] < b[i + 1]
    BY <1>2, <2>1 DEF Shots, Ascending
  <2>3. Chain(Shot(b[i], b[i + 1], segment, overlap), b[i], b[i + 1], b, segment, overlap)
    BY <2>1, <2>2, ShotChain
  <2>4. QED
    BY <2>3
<1>5. p = [i \in 1 .. n |-> p[i]]
  OBVIOUS
<1> HIDE DEF p
<1>6. Chain(FlattenSeq(p), b[1], b[n + 1], b, segment, overlap)
  BY <1>3, <1>4, <1>5, FlattenChain
<1>7. QED
  BY <1>1, <1>3, <1>6 DEF b
-----------------------------------------------------------------------------
(***************************************************************************)
(* Frames that follow one another.                                         *)
(***************************************************************************)
Run(f, l) == [i \in 1 .. l |-> f + i - 1]

LEMMA RunType ==
  ASSUME NEW f \in Int, NEW l \in Nat
  PROVE  /\ Run(f, l) \in Seq(Int) /\ Len(Run(f, l)) = l
         /\ \A i \in 1 .. l : Run(f, l)[i] = f + i - 1
<1>1. \A i \in 1 .. l : f + i - 1 \in Int
  OBVIOUS
<1>2. QED
  BY <1>1 DEF Run

(* A sequence of those frames is that run.                                 *)
LEMMA RunIs ==
  ASSUME NEW f \in Int, NEW l \in Nat, NEW s \in Seq(Int), Len(s) = l,
         \A i \in 1 .. l : s[i] = f + i - 1
  PROVE  s = Run(f, l)
<1>1. s = [i \in 1 .. l |-> s[i]]
  OBVIOUS
<1>2. QED
  BY <1>1 DEF Run

LEMMA RunEmpty ==
  ASSUME NEW f \in Int
  PROVE  Run(f, 0) = <<>>
BY RunType

LEMMA RunAppend ==
  ASSUME NEW f \in Int, NEW l \in Nat
  PROVE  Append(Run(f, l), f + l) = Run(f, l + 1)
<1> DEFINE r == Run(f, l)
           s == Append(r, f + l)
<1>1. /\ r \in Seq(Int) /\ Len(r) = l
      /\ \A i \in 1 .. l : r[i] = f + i - 1
  BY RunType
<1> HIDE DEF r
<1>2. /\ s \in Seq(Int) /\ Len(s) = l + 1
      /\ \A i \in 1 .. l : s[i] = r[i]
      /\ s[l + 1] = f + l
  BY <1>1
<1> HIDE DEF s
<1>3. \A i \in 1 .. l + 1 : s[i] = f + i - 1
  BY <1>1, <1>2
<1>4. s = Run(f, l + 1)
  BY <1>2, <1>3, RunIs
<1>5. QED
  BY <1>4 DEF r, s

LEMMA RunTail ==
  ASSUME NEW f \in Int, NEW l \in Nat \ {0}
  PROVE  Run(f, l) # <<>> /\ Head(Run(f, l)) = f /\ Tail(Run(f, l)) = Run(f + 1, l - 1)
<1> DEFINE r == Run(f, l)
           s == Tail(r)
<1>1. r \in Seq(Int) /\ Len(r) = l /\ \A i \in 1 .. l : r[i] = f + i - 1
  BY RunType
<1> HIDE DEF r
<1>2. /\ r # <<>> /\ Head(r) = r[1] /\ s \in Seq(Int) /\ Len(s) = l - 1
      /\ \A i \in 1 .. l - 1 : s[i] = r[i + 1]
  BY <1>1
<1> HIDE DEF s
<1>3. \A i \in 1 .. l - 1 : s[i] = (f + 1) + i - 1
  BY <1>1, <1>2
<1>4. s = Run(f + 1, l - 1)
  BY <1>2, <1>3, RunIs
<1>5. Head(r) = f
  BY <1>1, <1>2
<1>6. QED
  BY <1>2, <1>4, <1>5 DEF r, s

LEMMA RunConcat ==
  ASSUME NEW f \in Int, NEW l \in Nat, NEW m \in Nat
  PROVE  Run(f, l) \o Run(f + l, m) = Run(f, l + m)
<1> DEFINE r == Run(f, l)
           t == Run(f + l, m)
           s == r \o t
<1>1. /\ r \in Seq(Int) /\ Len(r) = l /\ \A i \in 1 .. l : r[i] = f + i - 1
      /\ t \in Seq(Int) /\ Len(t) = m /\ \A i \in 1 .. m : t[i] = (f + l) + i - 1
  BY RunType
<1> HIDE DEF r, t
<1>2. /\ s \in Seq(Int) /\ Len(s) = l + m
      /\ \A i \in 1 .. l + m : s[i] = IF i <= l THEN r[i] ELSE t[i - l]
  <2>1. r \in Seq(Int) /\ t \in Seq(Int)
    BY <1>1
  <2>2. /\ s \in Seq(Int) /\ Len(s) = Len(r) + Len(t)
        /\ \A i \in 1 .. Len(r) + Len(t) : s[i] = IF i <= Len(r) THEN r[i] ELSE t[i - Len(r)]
    BY <2>1, ConcatProperties
  <2> HIDE DEF s
  <2>3. QED
    BY <1>1, <2>2
<1> HIDE DEF s
<1>3. ASSUME NEW i \in 1 .. l + m PROVE s[i] = f + i - 1
  <2>1. CASE i <= l
    BY <1>1, <1>2, <2>1
  <2>2. CASE ~(i <= l)
    <3>1. i - l \in 1 .. m
      BY <2>2
    <3>2. QED
      BY <1>1, <1>2, <2>2, <3>1
  <2>3. QED
    BY <2>1, <2>2
<1>4. s = Run(f, l + m)
  BY <1>2, <1>3, RunIs
<1>5. QED
  BY <1>4 DEF r, t, s

LEMMA RunSubSeq ==
  ASSUME NEW f \in Int, NEW l \in Nat, NEW a \in 1 .. l + 1, NEW z \in 0 .. l, a <= z + 1
  PROVE  SubSeq(Run(f, l), a, z) = Run(f + a - 1, z - a + 1)
<1> DEFINE r == Run(f, l)
           s == SubSeq(r, a, z)
<1>1. r \in Seq(Int) /\ Len(r) = l /\ \A i \in 1 .. l : r[i] = f + i - 1
  BY RunType
<1> HIDE DEF r
<1>2. \A i \in a .. z : r[i] \in Int
  BY <1>1
<1>3. /\ s \in Seq(Int) /\ Len(s) = IF a <= z THEN z - a + 1 ELSE 0
      /\ \A i \in 1 .. z - a + 1 : s[i] = r[a + i - 1]
  BY <1>2, SubSeqProperties
<1> HIDE DEF s
<1>4. Len(s) = z - a + 1 /\ z - a + 1 \in Nat /\ f + a - 1 \in Int
  BY <1>3
<1>5. ASSUME NEW i \in 1 .. z - a + 1 PROVE s[i] = (f + a - 1) + i - 1
  <2>1. a + i - 1 \in 1 .. l
    OBVIOUS
  <2>2. QED
    BY <1>1, <1>3, <2>1
<1>6. s = Run(f + a - 1, z - a + 1)
  BY <1>3, <1>4, <1>5, RunIs
<1>7. QED
  BY <1>6 DEF r, s

LEMMA RunFirstOf ==
  ASSUME NEW f \in Int, NEW l \in Nat, NEW n \in Nat
  PROVE  FirstOf(Run(f, l), n) = Run(f, Least(n, l))
<1> DEFINE k == Least(n, l)
<1>1. k \in 0 .. l /\ 1 \in 1 .. l + 1 /\ 1 <= k + 1
  BY DEF Least
<1>2. Len(Run(f, l)) = l
  BY RunType
<1> HIDE DEF k
<1>3. SubSeq(Run(f, l), 1, k) = Run(f + 1 - 1, k - 1 + 1)
  BY <1>1, RunSubSeq
<1>4. f + 1 - 1 = f /\ k - 1 + 1 = k
  BY <1>1
<1>5. QED
  BY <1>2, <1>3, <1>4 DEF FirstOf, k

LEMMA RunLastOf ==
  ASSUME NEW f \in Int, NEW l \in Nat, NEW n \in Nat
  PROVE  LastOf(Run(f, l), n) = Run(f + l - Least(n, l), Least(n, l))
<1> DEFINE g == Greatest(0, l - n)
           k == Least(n, l)
<1>1. g \in 0 .. l /\ k = l - g /\ k \in 0 .. l
  BY DEF Greatest, Least
<1>2. LastOf(Run(f, l), n) = SubSeq(Run(f, l), g + 1, l)
  BY RunType DEF LastOf
<1> HIDE DEF g, k
<1>a. g + 1 \in 1 .. l + 1 /\ l \in 0 .. l /\ g + 1 <= l + 1
  BY <1>1
<1>3. SubSeq(Run(f, l), g + 1, l) = Run(f + (g + 1) - 1, l - (g + 1) + 1)
  BY <1>a, RunSubSeq
<1>4. f + (g + 1) - 1 = f + l - k /\ l - (g + 1) + 1 = k
  BY <1>1
<1>5. QED
  BY <1>2, <1>3, <1>4 DEF k

(* _inpaint_or_split: what is dropped of the two halves is what each had   *)
(* of the other, and the frames come back as they went in.                 *)
THEOREM HalvedWhole ==
  ASSUME NEW f \in Int, NEW l \in Nat, NEW c \in Nat
  PROVE  Halved(Run(f, l), c) = Run(f, l)
<1> DEFINE h == l \div 2
           x == Least(c, h)
           r == Run(f, l)
           head == FirstOf(r, h + x)
           tail == LastOf(r, l - h + x)
<1>1. h \in Nat /\ h <= l /\ h + h <= l
  OBVIOUS
<1> HIDE DEF h
<1>2. x \in Nat /\ x <= h
  BY <1>1 DEF Least
<1> HIDE DEF x
<1>3. Len(r) = l
  BY RunType
<1>4. Halved(r, c) = FirstOf(head, h) \o LastOf(tail, Len(tail) - x)
  BY <1>3, Zenon DEF Halved, h, x
<1>5. head = Run(f, h + x)
  <2>1. h + x \in Nat /\ Least(h + x, l) = h + x
    BY <1>1, <1>2 DEF Least
  <2>2. QED
    BY <2>1, RunFirstOf
<1>6. FirstOf(head, h) = Run(f, h)
  <2>1. h + x \in Nat /\ Least(h, h + x) = h
    BY <1>1, <1>2 DEF Least
  <2>2. QED
    BY <1>1, <1>5, <2>1, RunFirstOf
<1>7. tail = Run(f + h - x, l - h + x)
  <2>1. l - h + x \in Nat /\ Least(l - h + x, l) = l - h + x
    BY <1>1, <1>2 DEF Least
  <2>2. f + l - (l - h + x) = f + h - x
    BY <1>1, <1>2
  <2>3. tail = Run(f + l - (l - h + x), l - h + x)
    BY <2>1, RunLastOf
  <2>4. QED
    BY <2>2, <2>3
<1>8. LastOf(tail, Len(tail) - x) = Run(f + h, l - h)
  <2> DEFINE g == f + h - x
             m == l - h + x
             n == l - h
  <2>1. g \in Int /\ m \in Nat /\ n \in Nat /\ m - x = n /\ Least(n, m) = n /\ g + m - n = f + h
    BY <1>1, <1>2 DEF Least
  <2> HIDE DEF g, m, n
  <2>2. tail = Run(g, m)
    BY <1>7 DEF g, m
  <2> HIDE DEF tail
  <2>3. Len(tail) = m
    BY <2>1, <2>2, RunType
  <2>4. LastOf(tail, n) = Run(g + m - n, n)
    BY <2>1, <2>2, RunLastOf
  <2>5. LastOf(tail, n) = Run(f + h, n)
    BY <2>1, <2>4
  <2>6. QED
    BY <2>1, <2>3, <2>5 DEF n
<1> HIDE DEF head, tail
<1>9. Run(f, h) \o Run(f + h, l - h) = Run(f, l)
  <2> DEFINE k == l - h
  <2>1. h \in Nat /\ k \in Nat /\ h + k = l
    BY <1>1
  <2> HIDE DEF h, k
  <2>2. Run(f, h) \o Run(f + h, k) = Run(f, h + k)
    BY <2>1, RunConcat
  <2>3. QED
    BY <2>1, <2>2 DEF k
<1>10. QED
  BY <1>4, <1>6, <1>8, <1>9
-----------------------------------------------------------------------------
(***************************************************************************)
(* The inductive invariant.                                                *)
(***************************************************************************)
PlanOf == /\ Shots(Bounds(cuts, Estimate, MinShot), cuts, Estimate, MinShot)
          /\ Chain(plan, 0, Estimate, Bounds(cuts, Estimate, MinShot), Segment, Overlap)

(* What the decoder has read and the main thread has not is in qIn, with   *)
(* the end after it once the decoder has told it.                          *)
Unfed == dec.pc \in {"reading", "closing", "failing"}

Fed ==
  /\ dec.next - read \in Nat
  /\ Unfed => ~eof /\ qIn = Run(read, dec.next - read)
  /\ ~Unfed /\ ~eof => qIn = Append(Run(read, dec.next - read), Done)
  /\ ~Unfed /\ eof => qIn = <<>> /\ dec.next = read

(* hist ends where buf begins, and buf where the frames that are read do.  *)
Gathered ==
  /\ buf = Run(pos, Greatest(0, read - pos))
  /\ hist = Run(Least(read, pos) - Len(hist), Len(hist))
  /\ pc = "loading" => read <= pos
  /\ pc # "loading" => read >= pos \/ eof

Gathering == {"loading", "filling", "inferring", "emitting"}

(* While segments are gathered the next one begins where buf does, and     *)
(* hist holds its context, unless the source has ended before it.          *)
Placed ==
  pc \in Gathering /\ Planned =>
    \/ /\ pos = plan[seg].first
       /\ IF pc = "loading" THEN Len(hist) + (pos - read) = plan[seg].left
                            ELSE Len(hist) >= plan[seg].left
    \/ eof /\ buf = <<>> /\ pc # "inferring"

Ready == pc = "inferring" => buf # <<>> /\ ~Short

(* What is sent and what is still to be emitted is what the segments       *)
(* before gave, from the first frame that is wanted.                       *)
Owed ==
  /\ pc \in Gathering => /\ Greatest(first, pos) - sent \in Nat
                         /\ todo = Run(sent, Greatest(first, pos) - sent)
  /\ pc # "emitting" => todo = <<>>

After == {"flushing", "checking", "closing", "abandoning", "joined", "failed"}
Given == sink.index + (IF enc.pc = "writing" THEN 1 ELSE 0)
Working == enc.pc \in {"waiting", "writing"}

(* What is sent and not given to an ffmpeg is in qOut, and the end after   *)
(* it once the main thread has sent it.                                    *)
Handed ==
  Working =>
    /\ sent - Given \in Nat
    /\ \/ qOut = Run(Given, sent - Given)
       \/ pc \in After /\ qOut = Append(Run(Given, sent - Given), Done)
    /\ enc.pc = "writing" => enc.item = sink.index

Told ==
  /\ enc.pc = "closing" => sink.proc = "none"
  /\ "wedged" \notin Env =>
       /\ sink.proc # "wedged"
       /\ pc \in After /\ Working => qOut = Append(Run(Given, sent - Given), Done)
       /\ pc \in {"checking", "abandoning"} => ~Working

Ended ==
  /\ pc \in {"closing", "joined"} => ~Alive /\ ~crash
  /\ pc = "checking" /\ ~stuck => ~Alive
  /\ pc \in {"ending", "flushing", "checking", "closing", "joined"} => crash \/ eof
  /\ pc \in Gathering => ~crash
  /\ pc = "joined" => sink.index = read

IInv ==
  /\ TypeOK /\ PlanOf
  /\ Fed /\ Gathered /\ Placed /\ Ready /\ Owed
  /\ Handed /\ Told /\ Ended
-----------------------------------------------------------------------------
LEMMA ConstantTypes ==
  /\ Actual \in Nat \ {0} /\ PartFrames \in Nat \ {0} /\ Segment \in Nat \ {0}
  /\ MinShot \in Nat \ {0} /\ MinSplit \in Nat \ {0}
  /\ Overlap \in Nat /\ SplitContext \in Nat /\ MaxFaults \in Nat
  /\ Done \notin Frames /\ NoFrame \notin Frames /\ NoPart \notin Nat
BY PipelineAssumption

LEMMA EstimateType ==
  ASSUME total \in Totals
  PROVE  Estimate \in Nat \ {0}
BY ConstantTypes, PipelineAssumption DEF Estimate

(* What the steps use of the plan.                                         *)
LEMMA PlanFacts ==
  ASSUME PlanOf
  PROVE  /\ plan \in Seq(SegmentSet) /\ Len(plan) \in Nat /\ Len(plan) >= 1
         /\ \A i \in 1 .. Len(plan) :
              /\ plan[i].first \in Nat /\ plan[i].end \in Nat
              /\ plan[i].left \in Nat /\ plan[i].right \in Nat
              /\ plan[i].end - plan[i].first \in 1 .. Segment
              /\ plan[i].left <= Overlap /\ plan[i].left <= plan[i].first
         /\ \A i \in 1 .. Len(plan) - 1 : Follows(plan[i], plan[i + 1])
<1>1. plan \in Seq(SegmentSet) /\ Len(plan) \in Nat /\ Len(plan) >= 1
  BY DEF PlanOf, Chain
<1>2. ASSUME NEW i \in 1 .. Len(plan)
      PROVE  /\ plan[i].first \in Nat /\ plan[i].end \in Nat
             /\ plan[i].left \in Nat /\ plan[i].right \in Nat
             /\ plan[i].end - plan[i].first \in 1 .. Segment
             /\ plan[i].left <= Overlap /\ plan[i].left <= plan[i].first
  <2>1. plan[i] \in SegmentSet
    BY <1>1
  <2>2. Fits(plan[i], Bounds(cuts, Estimate, MinShot), Segment, Overlap)
    BY DEF PlanOf, Chain
  <2>3. QED
    BY <2>1, <2>2 DEF SegmentSet, Fits
<1>3. \A i \in 1 .. Len(plan) - 1 : Follows(plan[i], plan[i + 1])
  BY DEF PlanOf, Chain
<1>4. QED
  BY <1>1, <1>2, <1>3

LEMMA SeekFacts ==
  ASSUME PlanOf, NEW from \in Nat, NEW k, k = Seek(plan, from)
  PROVE  /\ k.seg \in 1 .. Len(plan) + 1 /\ k.start \in Nat /\ k.pos \in Nat
         /\ k.start <= k.pos /\ k.pos <= from
         /\ k.seg <= Len(plan) => /\ k.pos = plan[k.seg].first
                                  /\ k.pos - k.start = plan[k.seg].left
         /\ k.seg > Len(plan) => k.start = k.pos
<1> DEFINE at == {i \in DOMAIN plan : plan[i].first <= from /\ from < plan[i].end}
<1>1. Len(plan) \in Nat /\ DOMAIN plan = 1 .. Len(plan)
  BY PlanFacts
<1>2. CASE at = {}
  <2>1. k = [seg |-> Len(plan) + 1, start |-> from, pos |-> from]
    BY <1>2 DEF Seek
  <2>2. k.seg = Len(plan) + 1 /\ k.start = from /\ k.pos = from
    BY <2>1
  <2>3. QED
    BY <1>1, <2>2
<1>3. CASE at # {}
  <2> DEFINE i == CHOOSE i \in at : TRUE
  <2>1. i \in at
    BY <1>3
  <2>2. k = [seg |-> i, start |-> plan[i].first - plan[i].left, pos |-> plan[i].first]
    BY <1>3 DEF Seek
  <2> HIDE DEF i
  <2>3. k.seg = i /\ k.start = plan[i].first - plan[i].left /\ k.pos = plan[i].first
    BY <2>2
  <2>4. i \in 1 .. Len(plan) /\ plan[i].first <= from
    BY <1>1, <2>1
  <2>5. plan[i].first \in Nat /\ plan[i].left \in Nat /\ plan[i].left <= plan[i].first
    BY <2>4, PlanFacts
  <2>6. QED
    BY <1>1, <2>3, <2>4, <2>5
<1>4. QED
  BY <1>2, <1>3

LEMMA DepthFacts ==
  ASSUME PlanOf
  PROVE  Depth \in Nat /\ Depth >= 1
<1> DEFINE ls == {plan[i].end - plan[i].first : i \in DOMAIN plan}
           U == {Segment - l : l \in ls}
           Longest(m) == m \in ls /\ \A n \in ls : n <= m
           m == CHOOSE m \in ls : \A n \in ls : n <= m
<1>1. DOMAIN plan = 1 .. Len(plan) /\ Len(plan) \in Nat /\ Len(plan) >= 1
  BY PlanFacts
<1>2. ls \subseteq 1 .. Segment
  BY <1>1, PlanFacts
<1>3. plan[1].end - plan[1].first \in ls
  BY <1>1
<1>a. Depth = m + 2 * Overlap
  BY Zenon DEF Depth
<1> HIDE DEF ls
<1>4. U \subseteq Nat /\ U # {}
  <2>1. \A l \in ls : Segment - l \in Nat
    BY <1>2, ConstantTypes
  <2>2. PICK l \in ls : TRUE
    BY <1>3
  <2>3. Segment - l \in U
    BY <2>2
  <2>4. QED
    BY <2>1, <2>3
<1> HIDE DEF U
<1>5. PICK u \in U : \A v \in U : u <= v
  BY <1>4, LeastElement
<1>6. PICK l \in ls : u = Segment - l
  BY <1>5 DEF U
<1>7. \A n \in ls : n <= l
  <2> SUFFICES ASSUME NEW n \in ls PROVE n <= l
    OBVIOUS
  <2>1. Segment - n \in U
    BY DEF U
  <2>2. Segment - l <= Segment - n
    BY <1>5, <1>6, <2>1
  <2>3. QED
    BY <1>2, <2>2, ConstantTypes
<1>8. m \in ls
  BY <1>6, <1>7
<1> HIDE DEF m
<1>9. QED
  BY <1>2, <1>8, <1>a, ConstantTypes

LEMMA SourceStep ==
  ASSUME [Next]_vars
  PROVE  UNCHANGED <<total, first, cuts, plan>>
<1>1. CASE UNCHANGED vars
  BY <1>1 DEF vars, source
<1>2. CASE DecodeStep \/ DecodeDies
  BY <1>2 DEF DecodeStep, Decode, DecodeEnds, DecodeDone, DecodeRaises, DecodeDies, source
<1>3. CASE Load \/ Loaded \/ Fill \/ FillRaises \/ Filled
  BY <1>3 DEF Load, Loaded, Fill, FillRaises, Filled, Take, Crash, source
<1>4. CASE Infer \/ InferRaises \/ Emit \/ EmitRaises \/ EmitDone
  BY <1>4 DEF Infer, InferRaises, Emit, EmitRaises, EmitDone, Crash, source
<1>5. CASE Sentinel \/ Flushed \/ Stalls \/ Check
  BY <1>5 DEF Sentinel, Flushed, Stalls, Check, source
<1>6. CASE CloseLast \/ CloseLastRaises \/ Abandon
  BY <1>6 DEF CloseLast, CloseLastRaises, Abandon, source
<1>7. CASE EncodeStep \/ ProcFails
  BY <1>7 DEF EncodeStep, EncodeTake, SwitchPart, SwitchRaises, SwitchTimesOut, OpenPart,
              Write, WriteRaises, ProcFails, source
<1>8. QED
  BY <1>1, <1>2, <1>3, <1>4, <1>5, <1>6, <1>7 DEF Next, MainStep

LEMMA PlanOfStep ==
  ASSUME PlanOf, [Next]_vars
  PROVE  PlanOf'
<1>1. UNCHANGED <<total, first, cuts, plan>>
  BY SourceStep
<1>2. Estimate' = Estimate
  BY <1>1 DEF Estimate
<1>3. QED
  BY <1>1, <1>2 DEF PlanOf

LEMMA InitPlan ==
  ASSUME Init
  PROVE  PlanOf
<1>1. plan = Segments(cuts, Estimate, Segment, Overlap, MinShot) /\ Estimate \in Nat \ {0}
  BY EstimateType DEF Init
<1>2. Shots(Bounds(cuts, Estimate, MinShot), cuts, Estimate, MinShot)
  BY <1>1, ConstantTypes, BoundsSound
<1>3. Chain(Segments(cuts, Estimate, Segment, Overlap, MinShot), 0, Estimate,
            Bounds(cuts, Estimate, MinShot), Segment, Overlap)
  BY <1>1, ConstantTypes, SegmentsSound
<1>4. QED
  BY <1>1, <1>2, <1>3 DEF PlanOf

LEMMA PlanOfSound ==
  ASSUME PlanOf, total \in Totals, cuts \in CutSets
  PROVE  PlanSound
<1> DEFINE b == Bounds(cuts, Estimate, MinShot)
<1>1. /\ plan \in Seq(SegmentSet) /\ Len(plan) \in Nat /\ Len(plan) >= 1
      /\ DOMAIN plan = 1 .. Len(plan)
      /\ Estimate \in Nat \ {0}
  BY PlanFacts, EstimateType
<1>2. PlanCovers
  <2>1. plan[1].first = 0 /\ plan[Len(plan)].end = Estimate
    BY DEF PlanOf, Chain
  <2>2. ASSUME NEW i \in 1 .. Len(plan)
        PROVE  /\ plan[i].end - plan[i].first \in 1 .. Segment
               /\ i > 1 => plan[i].first = plan[i - 1].end
    <3>1. plan[i].end - plan[i].first \in 1 .. Segment
      BY PlanFacts
    <3>2. ASSUME i > 1 PROVE plan[i].first = plan[i - 1].end
      <4>1. i - 1 \in 1 .. Len(plan) - 1 /\ (i - 1) + 1 = i
        BY <1>1, <3>2
      <4>2. Follows(plan[i - 1], plan[(i - 1) + 1])
        BY <4>1, PlanFacts
      <4>3. QED
        BY <4>1, <4>2 DEF Follows
    <3>3. QED
      BY <3>1, <3>2
  <2>3. QED
    BY <1>1, <2>1, <2>2 DEF PlanCovers
<1>3. ASSUME NEW i \in 1 .. Len(plan), NEW c \in cuts, Isolated(c),
             plan[i].first - plan[i].left < c, c < plan[i].end + plan[i].right
      PROVE  FALSE
  <2>1. c \in Nat
    BY ConstantTypes, PipelineAssumption DEF Frames
  <2>2. Shots(b, cuts, Estimate, MinShot) /\ Fits(plan[i], b, Segment, Overlap)
    BY DEF PlanOf, Chain
  <2> HIDE DEF b
  <2>3. PICK m \in 1 .. Len(b) - 1 : /\ b[m] <= plan[i].first - plan[i].left
                                     /\ plan[i].end + plan[i].right <= b[m + 1]
    BY <2>2 DEF Fits
  <2>4. /\ b \in Seq(Nat) /\ Len(b) \in Nat /\ b[Len(b)] = Estimate /\ Ascending(b)
        /\ m \in 1 .. Len(b) /\ m + 1 \in 1 .. Len(b) /\ b[m] \in Nat /\ b[m + 1] \in Nat
    <3>1. /\ b \in Seq(Nat) /\ Len(b) \in Nat /\ b[Len(b)] = Estimate
          /\ \A i1 \in 1 .. Len(b) : b[i1] \in Nat
      BY <2>2 DEF Shots
    <3>2. Ascending(b)
      BY <2>2 DEF Shots
    <3>3. m \in 1 .. Len(b) /\ m + 1 \in 1 .. Len(b)
      BY <3>1
    <3>4. QED
      BY <3>1, <3>2, <3>3
  <2>5. /\ plan[i].first \in Nat /\ plan[i].end \in Nat
        /\ plan[i].left \in Nat /\ plan[i].right \in Nat
    BY PlanFacts
  <2>6. b[m] < c /\ c < b[m + 1]
    <3>1. plan[i].first - plan[i].left < c /\ c < plan[i].end + plan[i].right
      BY <1>3
    <3> DEFINE s == plan[i].first - plan[i].left
               e == plan[i].end + plan[i].right
               x == b[m]
               y == b[m + 1]
    <3>2. s \in Int /\ e \in Int /\ x \in Int /\ y \in Int /\ c \in Int
      <4>1. s \in Int /\ e \in Int
        BY <2>5
      <4>2. x \in Nat /\ y \in Nat
        BY <2>4
      <4>3. QED
        BY <2>1, <4>1, <4>2
    <3>3. s < c /\ c < e /\ x <= s /\ e <= y
      BY <2>3, <3>1
    <3>4. x < c /\ c < y
      <4> HIDE DEF s, e, x, y
      <4>1. QED
        BY <3>2, <3>3
    <3>5. QED
      BY <3>4
  <2>7. b[m + 1] <= Estimate
    <3>1. CASE m + 1 = Len(b)
      BY <1>1, <2>4, <3>1
    <3>2. CASE m + 1 < Len(b)
      <4>1. Len(b) \in 1 .. Len(b)
        BY <2>4
      <4>2. b[m + 1] < b[Len(b)]
        BY <2>4, <3>2, <4>1 DEF Ascending
      <4>3. QED
        BY <1>1, <2>4, <4>2
    <3>3. QED
      BY <2>4, <3>1, <3>2
  <2>8. c \in 1 .. Estimate - 1 /\ Alone(c, cuts, Estimate, MinShot)
    <3>1. c \in 1 .. Estimate - 1
      BY <1>1, <2>1, <2>4, <2>6, <2>7
    <3>2. Alone(c, cuts, Estimate, MinShot)
      BY <1>3 DEF Isolated, Alone
    <3>3. QED
      BY <3>1, <3>2
  <2>9. PICK j \in 1 .. Len(b) : b[j] = c
    BY <2>2, <2>8 DEF Shots
  <2>10. ~(j <= m)
    <3>1. j < m => b[j] < b[m]
      BY <2>4 DEF Ascending
    <3>2. j < m => c < b[m]
      BY <2>9, <3>1
    <3> DEFINE x == b[m]
    <3>3. x < c /\ x \in Nat /\ j # m /\ (j < m => c < x)
      BY <2>1, <2>4, <2>6, <2>9, <3>2
    <3> HIDE DEF x
    <3>4. QED
      BY <2>1, <2>4, <3>3
  <2>11. ~(j >= m + 1)
    <3>1. m + 1 < j => b[m + 1] < b[j]
      BY <2>4 DEF Ascending
    <3>2. m + 1 < j => b[m + 1] < c
      BY <2>9, <3>1
    <3> DEFINE y == b[m + 1]
    <3>3. c < y /\ y \in Nat /\ j # m + 1 /\ (m + 1 < j => y < c)
      BY <2>1, <2>4, <2>6, <2>9, <3>2
    <3> HIDE DEF y
    <3>4. QED
      BY <2>1, <2>4, <3>3
  <2>12. QED
    BY <2>4, <2>10, <2>11
<1>4. OneShot
  BY <1>1, <1>3 DEF OneShot
<1>5. QED
  BY <1>2, <1>4 DEF PlanSound

(* The segments follow one another from the first frame to the last that   *)
(* is expected, none longer than was asked for, and the model never sees   *)
(* both sides of a cut that stands alone (_segment_plan), for any cuts,    *)
(* lengths and parameters.                                                 *)
THEOREM PlanSoundCorrect == Spec => []PlanSound
<1> DEFINE Inv == total \in Totals /\ cuts \in CutSets /\ PlanOf
<1>1. Init => Inv
  BY InitPlan DEF Init
<1>2. Inv /\ [Next]_vars => Inv'
  BY SourceStep, PlanOfStep
<1>3. Inv => PlanSound
  BY PlanOfSound
<1> HIDE DEF Inv
<1>4. QED
  BY <1>1, <1>2, <1>3, PTL DEF Spec
-----------------------------------------------------------------------------
LEMMA UsableType == total \in Totals => Usable \subseteq Nat
<1> SUFFICES ASSUME total \in Totals, NEW u \in Usable PROVE u \in Nat
  OBVIOUS
<1>1. total \in Nat
  BY PipelineAssumption
<1>2. PICK k \in 0 .. ((total + PartFrames - 1) \div PartFrames) : u = Least(k * PartFrames, total)
  BY DEF Usable
<1>3. k * PartFrames \in Nat
  BY ConstantTypes
<1>4. QED
  BY <1>1, <1>2, <1>3 DEF Least

LEMMA InitInv ==
  ASSUME Init
  PROVE  IInv
<1> DEFINE k == Seek(plan, first)
<1>1. PlanOf /\ total \in Totals /\ cuts \in CutSets
  BY InitPlan DEF Init
<1>2. first \in Nat /\ first <= Actual /\ first \in 0 .. Actual
  BY <1>1, UsableType, ConstantTypes DEF Init
<1>3. /\ k.seg \in 1 .. Len(plan) + 1 /\ k.start \in Nat /\ k.pos \in Nat
      /\ k.start <= k.pos /\ k.pos <= first
      /\ k.seg <= Len(plan) => /\ k.pos = plan[k.seg].first
                               /\ k.pos - k.start = plan[k.seg].left
      /\ k.seg > Len(plan) => k.start = k.pos
  BY <1>1, <1>2, SeekFacts
<1>4. dec.next = k.start /\ read = k.start /\ pos = k.pos /\ seg = k.seg
  BY DEF Init
<1> HIDE DEF k
<1>5. /\ read \in Nat /\ pos \in Nat /\ read <= pos /\ pos <= first /\ dec.next = read
      /\ seg \in 1 .. Len(plan) + 1
      /\ seg <= Len(plan) => pos = plan[seg].first /\ pos - read = plan[seg].left
  BY <1>3, <1>4
<1>6. /\ dec = [pc |-> "reading", next |-> read] /\ dec.pc = "reading"
      /\ qIn = <<>> /\ qOut = <<>> /\ pc = "loading"
      /\ hist = <<>> /\ buf = <<>> /\ todo = <<>> /\ sent = first
      /\ eof = FALSE /\ crash = FALSE /\ stuck = FALSE
      /\ enc = [pc |-> "waiting", item |-> NoFrame]
      /\ sink = [index |-> first, part |-> NoPart, proc |-> "none"]
      /\ faults = 0
  BY <1>4 DEF Init
<1>7. Depth \in Nat /\ Depth >= 1
  BY <1>1, DepthFacts
<1>8. TypeOK
  <2>1. Len(qIn) = 0 /\ Len(qOut) = 0 /\ <<>> \in Seq(Frames \cup {Done}) /\ <<>> \in Seq(Frames)
    BY <1>6
  <2>2. {read, pos, sent} \subseteq 0 .. Actual
    BY <1>2, <1>5, <1>6, ConstantTypes
  <2>3. dec \in [pc: DecPCs, next: 0 .. Actual]
    BY <1>6, <2>2 DEF DecPCs
  <2>4. enc \in [pc: EncPCs, item: Frames \cup {NoFrame}] /\ enc.item = NoFrame /\ enc.pc # "writing"
    BY <1>6 DEF EncPCs
  <2>5. /\ sink \in [index: 0 .. Actual, part: Nat \cup {NoPart}, proc: Procs]
        /\ sink.part = NoPart /\ sink.proc = "none"
    BY <1>2, <1>6 DEF Procs
  <2>6. faults \in 0 .. MaxFaults /\ pc \in MainPCs
    BY <1>6, ConstantTypes DEF MainPCs
  <2>7. {eof, crash, stuck} \subseteq BOOLEAN
    BY <1>6
  <2>8. QED
    BY <1>1, <1>2, <1>5, <1>6, <1>7, <2>1, <2>2, <2>3, <2>4, <2>5, <2>6, <2>7 DEF TypeOK
<1>9. Fed
  <2>1. dec.next - read = 0 /\ Run(read, 0) = <<>>
    BY <1>5, RunEmpty
  <2>2. QED
    BY <1>6, <2>1 DEF Fed, Unfed
<1>10. Gathered
  <2>1. Greatest(0, read - pos) = 0 /\ Least(read, pos) = read
    BY <1>5 DEF Greatest, Least
  <2>2. Run(pos, 0) = <<>> /\ Len(hist) = 0 /\ Run(read - 0, 0) = <<>>
    BY <1>5, <1>6, RunEmpty
  <2>3. QED
    BY <1>5, <1>6, <2>1, <2>2 DEF Gathered
<1>11. Placed /\ Ready
  <2>1. Len(hist) = 0
    BY <1>6
  <2>2. QED
    BY <1>1, <1>5, <1>6, <2>1, PlanFacts DEF Placed, Ready, Planned
<1>12. Owed
  <2>1. Greatest(first, pos) = first /\ Run(first, 0) = <<>> /\ first - first = 0
    BY <1>2, <1>5, RunEmpty DEF Greatest
  <2>2. QED
    BY <1>6, <2>1 DEF Owed
<1>13. Handed
  <2>1. Given = first /\ first - first = 0 /\ Run(first, 0) = <<>>
    BY <1>2, <1>6, RunEmpty DEF Given
  <2>2. QED
    BY <1>6, <2>1 DEF Handed
<1>14. Told /\ Ended
  BY <1>6 DEF Told, Ended, After, Gathering
<1>15. QED
  BY <1>1, <1>8, <1>9, <1>10, <1>11, <1>12, <1>13, <1>14 DEF IInv

LEMMA Types ==
  ASSUME TypeOK
  PROVE  /\ total \in Totals /\ cuts \in CutSets
         /\ first \in Nat /\ first <= Actual
         /\ dec \in [pc: DecPCs, next: 0 .. Actual]
         /\ dec.pc \in DecPCs /\ dec.next \in Nat /\ dec.next <= Actual
         /\ qIn \in Seq(Frames \cup {Done}) /\ qOut \in Seq(Frames \cup {Done})
         /\ Len(qIn) <= Depth /\ Len(qOut) <= Depth
         /\ pc \in MainPCs
         /\ hist \in Seq(Frames) /\ buf \in Seq(Frames) /\ todo \in Seq(Frames)
         /\ Len(hist) \in Nat /\ Len(buf) \in Nat
         /\ read \in Nat /\ read <= Actual /\ pos \in Nat /\ pos <= Actual
         /\ sent \in Nat /\ sent <= Actual
         /\ seg \in 1 .. Len(plan) + 1
         /\ eof \in BOOLEAN /\ crash \in BOOLEAN /\ stuck \in BOOLEAN
         /\ enc \in [pc: EncPCs, item: Frames \cup {NoFrame}] /\ enc.pc \in EncPCs
         /\ sink \in [index: 0 .. Actual, part: Nat \cup {NoPart}, proc: Procs]
         /\ sink.index \in Nat /\ sink.index <= Actual /\ sink.proc \in Procs
         /\ faults \in 0 .. MaxFaults
         /\ enc.item = NoFrame <=> enc.pc # "writing"
         /\ sink.part = NoPart <=> sink.proc = "none"
         /\ Actual \in Nat /\ Frames \subseteq Nat
<1>1. Actual \in Nat /\ Frames \subseteq Nat
  BY ConstantTypes DEF Frames
<1>2. /\ total \in Totals /\ cuts \in CutSets /\ first \in Nat /\ first <= Actual
      /\ qIn \in Seq(Frames \cup {Done}) /\ qOut \in Seq(Frames \cup {Done})
      /\ Len(qIn) <= Depth /\ Len(qOut) <= Depth
      /\ pc \in MainPCs
      /\ hist \in Seq(Frames) /\ buf \in Seq(Frames) /\ todo \in Seq(Frames)
      /\ Len(hist) \in Nat /\ Len(buf) \in Nat
      /\ read \in 0 .. Actual /\ pos \in 0 .. Actual /\ sent \in 0 .. Actual
      /\ seg \in 1 .. Len(plan) + 1
      /\ eof \in BOOLEAN /\ crash \in BOOLEAN /\ stuck \in BOOLEAN
      /\ faults \in 0 .. MaxFaults
      /\ enc.item = NoFrame <=> enc.pc # "writing"
      /\ sink.part = NoPart <=> sink.proc = "none"
  BY <1>1 DEF TypeOK
<1>3. dec \in [pc: DecPCs, next: 0 .. Actual] /\ dec.pc \in DecPCs /\ dec.next \in 0 .. Actual
  BY DEF TypeOK
<1>4. enc \in [pc: EncPCs, item: Frames \cup {NoFrame}] /\ enc.pc \in EncPCs
  BY DEF TypeOK
<1>5. /\ sink \in [index: 0 .. Actual, part: Nat \cup {NoPart}, proc: Procs]
      /\ sink.index \in 0 .. Actual /\ sink.proc \in Procs
  BY DEF TypeOK
<1>6. QED
  BY <1>1, <1>2, <1>3, <1>4, <1>5

(* The steps that touch what is between the decoder and the main thread.   *)
LEMMA InputStep ==
  ASSUME Next
  PROVE  \/ Decode \/ DecodeEnds \/ DecodeDies \/ DecodeDone \/ DecodeRaises \/ Load \/ Fill
         \/ UNCHANGED <<dec, qIn, read, eof>>
<1>1. CASE DecodeStep \/ DecodeDies
  BY <1>1 DEF DecodeStep
<1>2. CASE Loaded \/ FillRaises \/ Filled \/ Infer \/ InferRaises
  BY <1>2 DEF Loaded, FillRaises, Filled, Infer, InferRaises, Crash, gather
<1>3. CASE Emit \/ EmitRaises \/ EmitDone \/ Sentinel \/ Flushed \/ Stalls \/ Check
  BY <1>3 DEF Emit, EmitRaises, EmitDone, Sentinel, Flushed, Stalls, Check, Crash, gather
<1>4. CASE CloseLast \/ CloseLastRaises \/ Abandon \/ EncodeStep \/ ProcFails
  BY <1>4 DEF CloseLast, CloseLastRaises, Abandon, EncodeStep, EncodeTake, SwitchPart,
              SwitchRaises, SwitchTimesOut, OpenPart, Write, WriteRaises, ProcFails, gather
<1>5. QED
  BY <1>1, <1>2, <1>3, <1>4 DEF Next, MainStep

(* What next_frame finds: the frame that follows, or the end.              *)
LEMMA Taken ==
  ASSUME IInv, ~eof, qIn # <<>>
  PROVE  \/ /\ Head(qIn) = read /\ read \in Frames /\ read # Done /\ read < dec.next
            /\ Unfed => Tail(qIn) = Run(read + 1, dec.next - (read + 1))
            /\ ~Unfed => Tail(qIn) = Append(Run(read + 1, dec.next - (read + 1)), Done)
         \/ Head(qIn) = Done /\ ~Unfed /\ Tail(qIn) = <<>> /\ dec.next = read
<1> DEFINE n == dec.next - read
           r == Run(read, n)
<1>1. /\ n \in Nat /\ dec.next \in Nat /\ dec.next <= Actual /\ read \in Nat /\ Actual \in Nat
      /\ Unfed => qIn = r
      /\ ~Unfed => qIn = Append(r, Done)
  BY Types DEF IInv, Fed
<1> HIDE DEF n
<1>a. read \in Int /\ n \in Int
  BY <1>1
<1>2. r \in Seq(Int) /\ (n = 0 => r = <<>>)
  BY <1>1, <1>a, RunType, RunEmpty
<1>3. ASSUME n # 0
      PROVE  /\ r # <<>> /\ Head(r) = read /\ Tail(r) = Run(read + 1, dec.next - (read + 1))
             /\ read \in Frames /\ read # Done /\ read < dec.next
  <2>1. dec.next - (read + 1) = n - 1 /\ n \in Nat \ {0}
    BY <1>1, <1>3 DEF n
  <2>2. read \in Frames /\ read < dec.next
    BY <1>1, <1>3 DEF Frames, n
  <2>3. r # <<>> /\ Head(r) = read /\ Tail(r) = Run(read + 1, n - 1)
    BY <1>a, <2>1, RunTail, Zenon
  <2>4. QED
    BY <2>1, <2>2, <2>3, ConstantTypes
<1> HIDE DEF r
<1>4. /\ Head(Append(r, Done)) = IF r = <<>> THEN Done ELSE Head(r)
      /\ Tail(Append(r, Done)) = IF r = <<>> THEN <<>> ELSE Append(Tail(r), Done)
  BY <1>2, HeadTailAppend
<1>5. CASE n = 0
  <2>1. r = <<>> /\ ~Unfed
    BY <1>1, <1>2, <1>5
  <2>2. dec.next = read
    BY <1>1, <1>5 DEF n
  <2>3. QED
    BY <1>1, <1>4, <2>1, <2>2
<1>6. CASE n # 0
  BY <1>1, <1>3, <1>4, <1>6
<1>7. QED
  BY <1>5, <1>6

LEMMA FedStep ==
  ASSUME IInv, Next
  PROVE  Fed'
<1> DEFINE n == dec.next - read
<1>1. /\ n \in Nat /\ dec.next \in Nat /\ read \in Nat
      /\ dec \in [pc: DecPCs, next: 0 .. Actual] /\ eof \in BOOLEAN
  BY Types DEF IInv, Fed
<1>2. CASE Decode
  <2>1. /\ Unfed /\ Unfed' /\ dec'.next = dec.next + 1 /\ UNCHANGED <<read, eof>>
        /\ qIn' = Append(qIn, dec.next) /\ ~eof
    BY <1>1, <1>2 DEF Decode, Unfed, gather, IInv, Fed
  <2>2. qIn = Run(read, n) /\ dec.next = read + n
    BY <1>1, <2>1 DEF IInv, Fed
  <2> HIDE DEF n
  <2>a. read \in Int /\ n \in Nat
    BY <1>1
  <2>b. Append(Run(read, n), read + n) = Run(read, n + 1)
    BY <2>a, RunAppend
  <2>3. qIn' = Run(read, n + 1)
    BY <2>1, <2>2, <2>b
  <2>4. dec'.next - read' = n + 1
    BY <1>1, <2>1, <2>2
  <2>5. QED
    BY <1>1, <2>1, <2>3, <2>4 DEF Fed
<1>3. CASE DecodeEnds \/ DecodeDies
  <2>1. Unfed /\ Unfed' /\ dec'.next = dec.next /\ UNCHANGED <<read, eof, qIn>>
    BY <1>1, <1>3 DEF DecodeEnds, DecodeDies, Unfed, gather
  <2>2. QED
    BY <2>1 DEF IInv, Fed
<1>4. CASE DecodeDone
  <2>1. /\ Unfed /\ ~Unfed' /\ dec'.next = dec.next /\ UNCHANGED <<read, eof>>
        /\ qIn' = Append(qIn, Done)
    BY <1>1, <1>4 DEF DecodeDone, Unfed, gather
  <2>2. QED
    BY <2>1 DEF IInv, Fed
<1>5. CASE DecodeRaises
  <2>1. ~Unfed /\ ~Unfed' /\ dec'.next = dec.next /\ UNCHANGED <<read, eof, qIn>>
    BY <1>1, <1>5 DEF DecodeRaises, Unfed, gather
  <2>2. QED
    BY <2>1 DEF IInv, Fed
<1>6. CASE Load \/ Fill
  <2>1. /\ ~eof /\ qIn # <<>> /\ qIn' = Tail(qIn) /\ UNCHANGED dec
        /\ Head(qIn) = Done => eof' = TRUE /\ read' = read
        /\ Head(qIn) # Done => eof' = eof /\ read' = read + 1
    BY <1>6 DEF Load, Fill, Short, Take
  <2>2. Unfed' = Unfed
    BY <2>1 DEF Unfed
  <2>3. CASE Head(qIn) = read /\ read # Done
    <3>1. read' = read + 1 /\ ~eof' /\ dec'.next - read' \in Nat
      BY <1>1, <2>1, <2>3, Taken
    <3>2. QED
      BY <2>1, <2>2, <2>3, <3>1, Taken DEF Fed
  <2>4. CASE Head(qIn) = Done
    <3>1. eof' /\ read' = read /\ ~Unfed /\ qIn' = <<>> /\ dec.next = read
      BY <2>1, <2>4, Taken
    <3>2. QED
      BY <1>1, <2>1, <2>2, <3>1 DEF Fed
  <2>5. QED
    BY <2>1, <2>3, <2>4, Taken
<1>7. CASE UNCHANGED <<dec, qIn, read, eof>>
  BY <1>7 DEF IInv, Fed, Unfed
<1>8. QED
  BY <1>2, <1>3, <1>4, <1>5, <1>6, <1>7, InputStep
-----------------------------------------------------------------------------
(* What the model is given, and what becomes of its answer.                *)
OwnWant  == IF Planned THEN plan[seg].end - plan[seg].first ELSE Segment
LeftWant == IF Planned THEN plan[seg].left ELSE Overlap
RightWant == IF Planned THEN plan[seg].right ELSE Overlap

Own    == Least(OwnWant, read - pos)
Before == Least(LeftWant, Len(hist))
Beyond == Least(RightWant, (read - pos) - Own)

LEMMA Wants ==
  ASSUME IInv
  PROVE  /\ OwnWant \in 1 .. Segment /\ OwnWant \in Nat \ {0}
         /\ LeftWant \in Nat /\ LeftWant <= Overlap /\ RightWant \in Nat
         /\ Want = OwnWant + RightWant
<1>1. Segment \in Nat \ {0} /\ Overlap \in Nat
  BY ConstantTypes
<1>2. CASE Planned
  <2>1. seg \in 1 .. Len(plan)
    <3>1. seg \in 1 .. Len(plan) + 1 /\ seg <= Len(plan) /\ Len(plan) \in Nat
      BY <1>2, Types, PlanFacts DEF IInv, Planned
    <3>2. QED
      BY <3>1
  <2>2. /\ plan[seg].end - plan[seg].first \in 1 .. Segment
        /\ plan[seg].left \in Nat /\ plan[seg].left <= Overlap /\ plan[seg].right \in Nat
    BY <2>1, PlanFacts DEF IInv
  <2>3. /\ OwnWant = plan[seg].end - plan[seg].first /\ LeftWant = plan[seg].left
        /\ RightWant = plan[seg].right
        /\ Want = plan[seg].end - plan[seg].first + plan[seg].right
    BY <1>2 DEF OwnWant, LeftWant, RightWant, Want
  <2>4. QED
    BY <1>1, <2>2, <2>3
<1>3. CASE ~Planned
  BY <1>1, <1>3 DEF OwnWant, LeftWant, RightWant, Want
<1>4. QED
  BY <1>2, <1>3

LEMMA Inferring ==
  ASSUME IInv, pc = "inferring"
  PROVE  /\ read - pos \in Nat \ {0} /\ buf = Run(pos, read - pos)
         /\ hist = Run(pos - Len(hist), Len(hist))
         /\ Own \in Nat \ {0} /\ Own <= read - pos /\ Own <= OwnWant
         /\ Before \in Nat /\ Before <= Len(hist)
         /\ Beyond \in Nat
         /\ Body = Run(pos, Own) /\ Len(Body) = Own
         /\ Left = Run(pos - Before, Before) /\ Len(Left) = Before
         /\ Ahead = Run(pos + Own, Beyond)
         /\ Block = Run(pos - Before, Before + Own + Beyond)
<1> DEFINE n == read - pos
           h == Len(hist)
<1>1. /\ read \in Nat /\ pos \in Nat /\ h \in Nat
      /\ buf = Run(pos, Greatest(0, n))
      /\ hist = Run(Least(read, pos) - h, h)
      /\ buf # <<>>
  BY Types DEF IInv, Gathered, Ready
<1>2. n \in Nat \ {0} /\ Greatest(0, n) = n /\ Least(read, pos) = pos
  <2>1. Greatest(0, n) # 0
    BY <1>1, RunEmpty
  <2>2. QED
    BY <1>1, <2>1 DEF Greatest, Least
<1>3. buf = Run(pos, n) /\ hist = Run(pos - h, h) /\ Len(buf) = n /\ pos - h \in Int
  <2>1. buf = Run(pos, n) /\ hist = Run(pos - h, h) /\ pos - h \in Int
    BY <1>1, <1>2
  <2> HIDE DEF n
  <2>2. Len(buf) = n
    BY <1>1, <1>2, <2>1, RunType
  <2>3. QED
    BY <2>1, <2>2
<1>4. OwnWant \in Nat \ {0} /\ LeftWant \in Nat /\ RightWant \in Nat
  BY Wants
<1> HIDE DEF h
<1>5. /\ Own \in Nat \ {0} /\ Own <= n /\ Own <= OwnWant
      /\ Before \in Nat /\ Before <= h
  BY <1>1, <1>2, <1>4 DEF Own, Before, Least, h
<1>6. Beyond \in Nat
  BY <1>2, <1>4, <1>5 DEF Beyond, Least
<1>7. Body = Run(pos, Own) /\ Len(Body) = Own
  <2>1. Body = FirstOf(buf, OwnWant)
    BY DEF Body, OwnWant
  <2>2. FirstOf(Run(pos, n), OwnWant) = Run(pos, Own)
    BY <1>1, <1>2, <1>4, RunFirstOf DEF Own
  <2>3. QED
    BY <1>1, <1>3, <1>5, <2>1, <2>2, RunType
<1>8. Left = Run(pos - Before, Before) /\ Len(Left) = Before
  <2>1. Left = LastOf(hist, LeftWant)
    BY DEF Left, LeftWant
  <2>2. LastOf(Run(pos - h, h), LeftWant) = Run(pos - h + h - Before, Before)
    BY <1>1, <1>3, <1>4, RunLastOf DEF Before, h
  <2>3. pos - h + h - Before = pos - Before /\ pos - Before \in Int
    BY <1>1, <1>5
  <2>4. QED
    BY <1>3, <1>5, <2>1, <2>2, <2>3, RunType
<1>9. Ahead = Run(pos + Own, Beyond)
  <2> DEFINE m == n - Own
  <2>1. m \in Nat /\ Least(m, n) = m /\ pos + n - m = pos + Own /\ pos + Own \in Int
    BY <1>1, <1>2, <1>5 DEF Least
  <2>2. Ahead = FirstOf(LastOf(buf, m), RightWant)
    BY <1>3, <1>7 DEF Ahead, RightWant
  <2>3. Beyond = Least(RightWant, m)
    BY DEF Beyond
  <2> HIDE DEF m, n
  <2>4. LastOf(Run(pos, n), m) = Run(pos + n - m, m)
    BY <1>1, <1>2, <2>1, RunLastOf
  <2>5. FirstOf(Run(pos + Own, m), RightWant) = Run(pos + Own, Beyond)
    BY <1>4, <2>1, <2>3, RunFirstOf
  <2>6. QED
    BY <1>3, <2>1, <2>2, <2>4, <2>5
<1>10. Block = Run(pos - Before, Before + Own + Beyond)
  <2>1. /\ pos - Before \in Int /\ (pos - Before) + Before = pos
        /\ (pos - Before) + (Before + Own) = pos + Own /\ Before + Own \in Nat
    BY <1>1, <1>5
  <2> DEFINE f == pos - Before
  <2>2. Run(f, Before) \o Run(f + Before, Own) = Run(f, Before + Own)
    BY <1>5, <2>1, RunConcat
  <2>3. Run(f, Before + Own) \o Run(f + (Before + Own), Beyond)
          = Run(f, (Before + Own) + Beyond)
    BY <1>6, <2>1, RunConcat
  <2>4. QED
    BY <1>7, <1>8, <1>9, <2>1, <2>2, <2>3 DEF Block
<1>11. QED
  BY <1>2, <1>3, <1>5, <1>6, <1>7, <1>8, <1>9, <1>10 DEF h

LEMMA SameBlocksInv ==
  ASSUME IInv
  PROVE  SameBlocks
<1> SUFFICES ASSUME pc = "inferring", Planned
             PROVE  LET s == plan[seg]
                        end == IF eof THEN Least(s.end + s.right, read) ELSE s.end + s.right
                        start == s.first - s.left
                    IN  Block = [i \in 1 .. end - start |-> start + i - 1]
  BY DEF SameBlocks
<1> DEFINE s == plan[seg]
           end == IF eof THEN Least(s.end + s.right, read) ELSE s.end + s.right
           start == s.first - s.left
           w == s.end - s.first
           n == read - pos
<1>1. seg \in 1 .. Len(plan)
  <2>1. seg \in 1 .. Len(plan) + 1 /\ seg <= Len(plan) /\ Len(plan) \in Nat
    BY Types, PlanFacts DEF IInv, Planned
  <2>2. QED
    BY <2>1
<1>2. s.first \in Nat /\ s.end \in Nat /\ s.left \in Nat /\ s.right \in Nat /\ w >= 1
  BY <1>1, PlanFacts DEF IInv
<1>3. OwnWant = w /\ LeftWant = s.left /\ RightWant = s.right /\ Want = w + s.right
  BY Wants DEF OwnWant, LeftWant, RightWant
<1>4. pos = s.first /\ Len(hist) >= s.left
  BY DEF IInv, Placed, Gathering
<1>5. /\ n \in Nat \ {0} /\ Own = Least(w, n) /\ Before = Least(s.left, Len(hist))
      /\ Beyond = Least(s.right, n - Own) /\ Len(hist) \in Nat /\ Len(buf) = n
      /\ Block = Run(pos - Before, Before + Own + Beyond)
      /\ read \in Nat /\ pos \in Nat
  <2>1. n \in Nat \ {0} /\ buf = Run(pos, n) /\ read \in Nat /\ pos \in Nat
    BY Inferring, Types DEF IInv
  <2>2. Len(buf) = n
    <3> HIDE DEF n
    <3>1. pos \in Int /\ n \in Nat
      BY <2>1
    <3>2. QED
      BY <2>1, <3>1, RunType
  <2>3. QED
    BY <1>3, <2>1, <2>2, Inferring, Types DEF IInv, Own, Before, Beyond
<1>6. eof \/ n >= w + s.right
  BY <1>2, <1>3, <1>5 DEF IInv, Ready, Short
<1>7. Before = s.left
  BY <1>2, <1>4, <1>5 DEF Least
<1>8. Own + Beyond = IF eof THEN Least(w + s.right, n) ELSE w + s.right
  <2> HIDE DEF s, n, w
  <2>1. w \in Nat
    BY <1>2 DEF w
  <2>2. CASE w <= n
    <3>1. Own = w /\ n - w \in Nat /\ Beyond = Least(s.right, n - w)
      BY <1>5, <2>1, <2>2 DEF Least
    <3>2. QED
      BY <1>2, <1>5, <1>6, <2>1, <2>2, <3>1 DEF Least
  <2>3. CASE ~(w <= n)
    <3>1. Own = n /\ n - n = 0 /\ Beyond = Least(s.right, 0)
      BY <1>5, <2>1, <2>3 DEF Least
    <3>2. Beyond = 0
      BY <1>2, <3>1 DEF Least
    <3>3. QED
      BY <1>2, <1>5, <1>6, <2>1, <2>3, <3>1, <3>2 DEF Least
  <2>4. QED
    BY <2>2, <2>3
<1>9. Before + Own + Beyond = end - start /\ pos - Before = start
  <2>1. Own \in Nat /\ Beyond \in Nat /\ pos - Before = start
    BY <1>4, <1>7, Inferring
  <2>2. CASE eof
    <3>1. Own + Beyond = Least(w + s.right, n)
      BY <1>8, <2>2
    <3>2. end = Least(s.end + s.right, read)
      BY <2>2
    <3>3. /\ (w + s.right) + s.first = s.end + s.right /\ n + s.first = read
          /\ w + s.right \in Int /\ n \in Int /\ s.first \in Int /\ s.left \in Int
      <4> HIDE DEF s
      <4>1. n + s.first = read
        BY <1>2, <1>4, <1>5
      <4>2. (w + s.right) + s.first = s.end + s.right
        BY <1>2
      <4>3. QED
        BY <1>2, <1>5, <4>1, <4>2
    <3>4. Least(w + s.right, n) + s.first = Least((w + s.right) + s.first, n + s.first)
      <4> DEFINE u == w + s.right
                 v == s.first
      <4>1. u \in Int /\ n \in Int /\ v \in Int
        BY <3>3
      <4> HIDE DEF u, v, n
      <4>2. Least(u, n) + v = Least(u + v, n + v)
        BY <4>1, LeastShift
      <4>3. QED
        BY <4>2 DEF u, v
    <3> DEFINE x == Least(w + s.right, n)
    <3>5. x + s.first = end /\ x = Own + Beyond /\ start = s.first - s.left /\ Before = s.left
      BY <1>7, <3>1, <3>2, <3>3, <3>4
    <3> HIDE DEF x, end, start, s
    <3>6. QED
      BY <2>1, <3>3, <3>5
  <2>3. CASE ~eof
    <3>1. Own + Beyond = w + s.right /\ end = s.end + s.right
      BY <1>8, <2>3
    <3>2. QED
      BY <1>2, <1>7, <2>1, <3>1
  <2>4. QED
    BY <2>2, <2>3
<1>10. Block = Run(start, end - start)
  BY <1>5, <1>9
<1>11. QED
  BY <1>10 DEF Run

LEMMA Inferred ==
  ASSUME IInv, Infer
  PROVE  /\ pos' = pos + Own /\ read' = read /\ eof' = eof
         /\ read - pos' \in Nat /\ buf' = Run(pos', read - pos')
         /\ Len(hist') = Least(Overlap, Len(hist) + Own)
         /\ hist' = Run(pos' - Len(hist'), Len(hist'))
         /\ Greatest(first, pos') - sent \in Nat
         /\ todo' = Run(sent, Greatest(first, pos') - sent)
<1> DEFINE n == read - pos
           h == Len(hist)
           m == n - Own
           l == Before
<1>1. pc = "inferring"
  BY DEF Infer
<1>2. /\ n \in Nat \ {0} /\ buf = Run(pos, n) /\ hist = Run(pos - h, h)
      /\ Own \in Nat \ {0} /\ Own <= n /\ l \in Nat /\ l <= h /\ Beyond \in Nat
      /\ Body = Run(pos, Own) /\ Len(Body) = Own /\ Len(Left) = l
      /\ Block = Run(pos - l, l + Own + Beyond)
      /\ read \in Nat /\ pos \in Nat /\ h \in Nat /\ first \in Nat /\ sent \in Nat
  BY <1>1, Inferring, Types DEF IInv
<1>3. pos' = pos + Own /\ read' = read /\ eof' = eof
  BY <1>2 DEF Infer
<1>4. m \in Nat /\ read - pos' = m /\ pos + Own \in Int
  BY <1>2, <1>3
<1>5. buf' = Run(pos', m)
  <2>1. Len(buf) = n
    <3> HIDE DEF n
    <3>1. QED
      BY <1>2, RunType
  <2>2. buf' = LastOf(buf, m)
    BY <1>2, <2>1 DEF Infer
  <2>3. Least(m, n) = m /\ pos + n - m = pos + Own
    BY <1>2, <1>4 DEF Least
  <2> HIDE DEF n, m
  <2>4. LastOf(Run(pos, n), m) = Run(pos + n - Least(m, n), Least(m, n))
    BY <1>2, <1>4, RunLastOf
  <2>5. QED
    BY <1>2, <1>3, <2>2, <2>3, <2>4
<1>6. Len(hist') = Least(Overlap, h + Own) /\ hist' = Run(pos' - Len(hist'), Len(hist'))
  <2> DEFINE f == pos - h
             t == h + Own
             k == Least(Overlap, t)
  <2>1. f \in Int /\ f + h = pos /\ t \in Nat /\ f + t = pos + Own /\ k \in Nat
    BY <1>2, ConstantTypes DEF Least
  <2>2. hist' = LastOf(hist \o Body, Overlap)
    BY DEF Infer
  <2>3. Run(f, h) \o Run(f + h, Own) = Run(f, t)
    <3>1. h \in Nat /\ Own \in Nat /\ t = h + Own
      BY <1>2
    <3> HIDE DEF f, h, t
    <3>2. Run(f, h) \o Run(f + h, Own) = Run(f, h + Own)
      BY <2>1, <3>1, RunConcat
    <3>3. QED
      BY <3>1, <3>2
  <2>4. hist \o Body = Run(f, t)
    BY <1>2, <2>1, <2>3
  <2> HIDE DEF f, t, h
  <2>5. LastOf(Run(f, t), Overlap) = Run(f + t - k, k)
    BY <2>1, ConstantTypes, RunLastOf
  <2>6. f + t - k = pos' - k /\ f + t - k \in Int
    <3>1. pos' = f + t
      BY <1>3, <2>1
    <3>2. f + t \in Int
      BY <2>1
    <3> HIDE DEF k
    <3>3. QED
      BY <2>1, <3>1, <3>2
  <2> HIDE DEF k
  <2>7. hist' = Run(pos' - k, k) /\ Len(hist') = k
    BY <2>1, <2>2, <2>4, <2>5, <2>6, RunType
  <2>8. QED
    BY <2>7 DEF k, t, h
<1>7. todo' = Emitted(Block)
  <2>1. Halved(Block, SplitContext) = Block
    <3>1. pos - l \in Int /\ l + Own + Beyond \in Nat
      BY <1>2
    <3>2. Halved(Run(pos - l, l + Own + Beyond), SplitContext) = Run(pos - l, l + Own + Beyond)
      BY <3>1, ConstantTypes, HalvedWhole
    <3>3. QED
      BY <1>2, <3>2
  <2>2. PICK out \in {Block} \cup
                      (IF Len(Block) >= MinSplit THEN {Halved(Block, SplitContext)} ELSE {}) :
            todo' = Emitted(out)
    BY DEF Infer
  <2>3. out = Block
    BY <2>1, <2>2
  <2>4. QED
    BY <2>2, <2>3
<1>8. SubSeq(Block, l + 1, l + Own) = Run(pos, Own)
  <2> DEFINE f == pos - l
             t == l + Own + Beyond
  <2>1. /\ f \in Int /\ t \in Nat /\ l + 1 \in 1 .. t + 1 /\ l + Own \in 0 .. t
        /\ l + 1 <= (l + Own) + 1
        /\ f + (l + 1) - 1 = pos /\ (l + Own) - (l + 1) + 1 = Own
    BY <1>2
  <2> HIDE DEF f, t
  <2>2. SubSeq(Run(f, t), l + 1, l + Own) = Run(f + (l + 1) - 1, (l + Own) - (l + 1) + 1)
    BY <2>1, RunSubSeq
  <2>3. QED
    BY <1>2, <2>1, <2>2 DEF f, t
<1>9. LET from == Greatest(0, first - pos)
      IN  todo' = SubSeq(Run(pos, Own), from + 1, Own)
  <2>1. Len(Run(pos, Own)) = Own
    BY <1>2, RunType
  <2>2. QED
    BY <1>2, <1>7, <1>8, <2>1 DEF Emitted
<1>10. sent = Greatest(first, pos)
  <2>1. /\ Greatest(first, pos) - sent \in Nat /\ todo = Run(sent, Greatest(first, pos) - sent)
        /\ todo = <<>>
    BY <1>1 DEF IInv, Owed, Gathering
  <2> DEFINE d == Greatest(first, pos) - sent
  <2>2. Greatest(first, pos) \in Nat
    BY <1>2 DEF Greatest
  <2>3. d = 0
    <3>1. d \in Nat /\ Run(sent, d) = <<>>
      BY <2>1
    <3> HIDE DEF d
    <3>2. Len(Run(sent, d)) = d
      BY <1>2, <3>1, RunType
    <3>3. QED
      BY <3>1, <3>2
  <2>4. QED
    BY <1>2, <2>2, <2>3
<1>11. /\ Greatest(first, pos') - sent \in Nat
       /\ todo' = Run(sent, Greatest(first, pos') - sent)
  <2> DEFINE from == Greatest(0, first - pos)
  <2>1. from \in Nat
    BY <1>2 DEF Greatest
  <2>2. CASE from <= Own
    <3>1. /\ pos + (from + 1) - 1 = sent /\ Own - (from + 1) + 1 = Own - from
          /\ Greatest(first, pos') - sent = Own - from /\ Own - from \in Nat
      BY <1>2, <1>3, <1>10, <2>1, <2>2 DEF Greatest
    <3>2. from + 1 \in 1 .. Own + 1 /\ Own \in 0 .. Own /\ from + 1 <= Own + 1 /\ pos \in Int
      BY <1>2, <2>1, <2>2
    <3> HIDE DEF from
    <3>3. SubSeq(Run(pos, Own), from + 1, Own) = Run(pos + (from + 1) - 1, Own - (from + 1) + 1)
      BY <1>2, <3>2, RunSubSeq
    <3>4. QED
      BY <1>9, <3>1, <3>3 DEF from
  <2>3. CASE ~(from <= Own)
    <3>1. Greatest(first, pos') - sent = 0 /\ Greatest(first, pos') - sent \in Nat
      BY <1>2, <1>3, <1>10, <2>1, <2>3 DEF Greatest
    <3>2. Own < from + 1 /\ from + 1 \in Int /\ Own \in Int
      BY <1>2, <2>1, <2>3
    <3>a. todo' = SubSeq(Run(pos, Own), from + 1, Own)
      BY <1>9
    <3> HIDE DEF from
    <3>3. SubSeq(Run(pos, Own), from + 1, Own) = <<>>
      BY <3>2, SubSeqEmpty
    <3>4. Run(sent, 0) = <<>>
      BY <1>2, RunEmpty
    <3>5. Run(sent, Greatest(first, pos') - sent) = Run(sent, 0)
      BY <3>1, Zenon
    <3>6. QED
      BY <3>1, <3>3, <3>4, <3>5, <3>a, Zenon
  <2>4. QED
    BY <2>2, <2>3
<1>12. QED
  BY <1>3, <1>4, <1>5, <1>6, <1>11
-----------------------------------------------------------------------------
(* The steps that touch what is gathered, and where the main thread is.    *)
LEMMA GatherStep ==
  ASSUME Next
  PROVE  \/ Load \/ Loaded \/ Fill \/ Filled \/ Infer
         \/ UNCHANGED gather /\ pc' = pc
         \/ UNCHANGED gather /\ pc = "emitting" /\ pc' = "filling"
         \/ UNCHANGED gather /\ pc # "loading" /\ pc' \notin Gathering
<1>1. CASE DecodeStep \/ DecodeDies \/ EncodeStep \/ ProcFails
  BY <1>1 DEF DecodeStep, Decode, DecodeEnds, DecodeDone, DecodeRaises, DecodeDies, EncodeStep,
              EncodeTake, SwitchPart, SwitchRaises, SwitchTimesOut, OpenPart, Write,
              WriteRaises, ProcFails
<1>2. CASE FillRaises \/ InferRaises \/ Emit \/ EmitRaises \/ EmitDone
  BY <1>2 DEF FillRaises, InferRaises, Emit, EmitRaises, EmitDone, Crash, Gathering
<1>3. CASE Sentinel \/ Flushed \/ Stalls \/ Check
  BY <1>3 DEF Sentinel, Flushed, Stalls, Check, Gathering
<1>4. CASE CloseLast \/ CloseLastRaises \/ Abandon
  BY <1>4 DEF CloseLast, CloseLastRaises, Abandon, Gathering
<1>5. QED
  BY <1>1, <1>2, <1>3, <1>4 DEF Next, MainStep

(* next_frame puts the frame that follows behind the others, or sees the   *)
(* end of them.                                                            *)
LEMMA TakeInto ==
  ASSUME IInv, Load \/ Fill
  PROVE  /\ ~eof /\ UNCHANGED <<pos, seg, plan, pc>>
         /\ \/ /\ read' = read + 1 /\ ~eof'
               /\ Load => hist' = Append(hist, read) /\ buf' = buf
               /\ Fill => buf' = Append(buf, read) /\ hist' = hist
            \/ read' = read /\ eof' /\ UNCHANGED <<hist, buf>>
<1>1. ~eof /\ qIn # <<>> /\ UNCHANGED <<pos, seg, plan, pc>>
  BY DEF Load, Fill, Short, Take, source
<1>2. CASE Head(qIn) = read /\ read # Done
  BY <1>1, <1>2 DEF Load, Fill, Take
<1>3. CASE Head(qIn) = Done
  BY <1>1, <1>3 DEF Load, Fill, Take
<1>4. QED
  BY <1>1, <1>2, <1>3, Taken

LEMMA GatheredStep ==
  ASSUME IInv, Next
  PROVE  Gathered'
<1> DEFINE h == Len(hist)
<1>1. /\ read \in Nat /\ pos \in Nat /\ h \in Nat
      /\ buf = Run(pos, Greatest(0, read - pos))
      /\ hist = Run(Least(read, pos) - h, h)
      /\ pc = "loading" => read <= pos
      /\ pc # "loading" => read >= pos \/ eof
  BY Types DEF IInv, Gathered
<1>2. CASE Load
  <2>1. pc = "loading" /\ pc' = "loading" /\ pos' = pos /\ read < pos /\ buf' = buf
    BY <1>2, TakeInto DEF Load
  <2>2. CASE read' = read /\ hist' = hist
    BY <1>1, <2>1, <2>2 DEF Gathered
  <2>3. CASE read' = read + 1 /\ hist' = Append(hist, read)
    <3> DEFINE f == read - h
    <3>1. f \in Int /\ f + h = read /\ Least(read, pos) = read
      BY <1>1, <2>1 DEF Least
    <3>2. hist = Run(f, h)
      BY <1>1, <3>1
    <3> HIDE DEF f, h
    <3>3. Append(Run(f, h), f + h) = Run(f, h + 1)
      BY <1>1, <3>1, RunAppend
    <3>a. hist' = Run(f, h + 1)
      BY <2>3, <3>1, <3>2, <3>3
    <3>b. h + 1 \in Nat /\ Len(Run(f, h + 1)) = h + 1
      BY <1>1, <3>1, RunType
    <3>4. hist' = Run(f, h + 1) /\ Len(hist') = h + 1
      BY <3>a, <3>b
    <3>5. Least(read', pos') - Len(hist') = f
      BY <1>1, <2>1, <2>3, <3>1, <3>4 DEF Least
    <3>6. Greatest(0, read' - pos') = 0 /\ Greatest(0, read - pos) = 0
      BY <1>1, <2>1, <2>3 DEF Greatest
    <3>7. QED
      BY <1>1, <2>1, <2>3, <3>4, <3>5, <3>6 DEF Gathered
  <2>4. QED
    BY <1>2, <2>2, <2>3, TakeInto
<1>3. CASE Loaded
  BY <1>1, <1>3 DEF Loaded, gather, Gathered
<1>4. CASE Fill
  <2>1. pc = "filling" /\ pc' = "filling" /\ pos' = pos /\ hist' = hist /\ ~eof /\ read >= pos
    BY <1>1, <1>4, TakeInto DEF Fill
  <2>2. CASE read' = read /\ buf' = buf /\ eof'
    BY <1>1, <2>1, <2>2 DEF Gathered
  <2>3. CASE read' = read + 1 /\ buf' = Append(buf, read)
    <3> DEFINE n == read - pos
    <3>1. n \in Nat /\ Greatest(0, n) = n /\ pos + n = read /\ Greatest(0, read' - pos') = n + 1
      BY <1>1, <2>1, <2>3 DEF Greatest
    <3>2. buf = Run(pos, n)
      BY <1>1, <3>1
    <3> HIDE DEF n
    <3>3. Append(Run(pos, n), pos + n) = Run(pos, n + 1)
      BY <1>1, <3>1, RunAppend
    <3>4. buf' = Run(pos', Greatest(0, read' - pos'))
      BY <2>1, <2>3, <3>1, <3>2, <3>3
    <3>5. Least(read', pos') = Least(read, pos) /\ read' >= pos'
      BY <1>1, <2>1, <2>3 DEF Least
    <3>6. QED
      BY <1>1, <2>1, <3>4, <3>5 DEF Gathered
  <2>4. QED
    BY <1>4, <2>2, <2>3, TakeInto
<1>5. CASE Infer
  <2>1. /\ pos' = pos + Own /\ read' = read /\ read - pos' \in Nat
        /\ buf' = Run(pos', read - pos')
        /\ hist' = Run(pos' - Len(hist'), Len(hist'))
        /\ pc' = "emitting"
    BY <1>5, Inferred DEF Infer
  <2>2. Own \in Nat
    BY <1>5, Inferring DEF Infer
  <2>3. pos' \in Nat /\ Greatest(0, read' - pos') = read - pos' /\ Least(read', pos') = pos'
    BY <1>1, <2>1, <2>2 DEF Greatest, Least
  <2>4. read' >= pos'
    BY <1>1, <2>1, <2>3
  <2>5. QED
    BY <2>1, <2>3, <2>4 DEF Gathered
<1>6. CASE Filled
  BY <1>1, <1>6 DEF Filled, gather, Gathered
<1>7. CASE UNCHANGED gather /\ (pc' = pc \/ (pc # "loading" /\ pc' # "loading"))
  BY <1>1, <1>7 DEF gather, Gathered
<1>8. QED
  BY <1>2, <1>3, <1>4, <1>5, <1>6, <1>7, GatherStep DEF Gathering

LEMMA PlacedStep ==
  ASSUME IInv, Next
  PROVE  Placed' /\ Ready'
<1>1. /\ read \in Nat /\ pos \in Nat /\ Len(hist) \in Nat /\ hist \in Seq(Frames)
      /\ seg \in 1 .. Len(plan) + 1 /\ Len(plan) \in Nat
  BY Types, PlanFacts DEF IInv
<1>2. UNCHANGED plan /\ (seg' = seg => Planned' = Planned /\ Want' = Want)
  BY SourceStep DEF Planned, Want
<1>3. CASE Load
  <2>1. /\ pc = "loading" /\ pc' = "loading" /\ UNCHANGED <<pos, seg, buf>> /\ read < pos /\ ~eof
    BY <1>3, TakeInto DEF Load
  <2>2. Planned => pos = plan[seg].first /\ Len(hist) + (pos - read) = plan[seg].left
    BY <2>1 DEF IInv, Placed, Gathering
  <2>3. CASE read' = read + 1 /\ hist' = Append(hist, read)
    <3>1. Len(hist') = Len(hist) + 1
      BY <1>1, <2>3
    <3>2. Len(hist') + (pos' - read') = Len(hist) + (pos - read)
      BY <1>1, <2>1, <2>3, <3>1
    <3>3. QED
      BY <1>2, <2>1, <2>2, <3>2 DEF Placed, Ready
  <2>4. CASE read' = read /\ eof'
    <3>1. Greatest(0, read - pos) = 0 /\ Run(pos, 0) = <<>>
      BY <1>1, <2>1, RunEmpty DEF Greatest
    <3>2. buf' = <<>>
      BY <2>1, <3>1 DEF IInv, Gathered
    <3>3. QED
      BY <2>1, <2>4, <3>2 DEF Placed, Ready
  <2>5. QED
    BY <1>3, <2>3, <2>4, TakeInto
<1>4. CASE Loaded
  <2>1. /\ pc = "loading" /\ pc' = "filling" /\ UNCHANGED <<hist, buf, read, pos, seg, eof>>
        /\ read = pos \/ eof
    BY <1>4 DEF Loaded, gather
  <2>2. CASE read = pos
    <3>1. pos - read = 0
      BY <1>1, <2>2
    <3>2. QED
      BY <1>1, <1>2, <2>1, <2>2, <3>1 DEF IInv, Placed, Gathering, Ready
  <2>3. CASE read # pos
    <3>1. Greatest(0, read - pos) = 0 /\ Run(pos, 0) = <<>>
      BY <1>1, <2>1, <2>3, RunEmpty DEF Greatest, IInv, Gathered
    <3>2. buf = <<>>
      BY <3>1 DEF IInv, Gathered
    <3>3. QED
      BY <2>1, <2>3, <3>2 DEF Placed, Ready
  <2>4. QED
    BY <2>2, <2>3
<1>5. CASE Fill
  <2>1. pc = "filling" /\ pc' = "filling" /\ UNCHANGED <<pos, seg, hist>> /\ ~eof
    BY <1>5, TakeInto DEF Fill
  <2>2. QED
    BY <1>2, <2>1 DEF IInv, Placed, Gathering, Ready
<1>6. CASE Filled
  <2>1. /\ pc = "filling" /\ UNCHANGED gather /\ ~Short
        /\ pc' = IF buf = <<>> THEN "ending" ELSE "inferring"
    BY <1>6 DEF Filled
  <2>2. Short' = Short
    BY <1>2, <2>1 DEF gather, Short
  <2>3. QED
    BY <1>2, <2>1, <2>2 DEF IInv, Placed, Gathering, Ready, gather
<1>7. CASE Infer
  <2>1. /\ pc = "inferring" /\ pc' = "emitting" /\ seg' = IF Planned THEN seg + 1 ELSE seg
    BY <1>7 DEF Infer
  <2>2. /\ pos' = pos + Own /\ eof' = eof /\ read - pos' \in Nat
        /\ buf' = Run(pos', read - pos')
        /\ Len(hist') = Least(Overlap, Len(hist) + Own)
    BY <1>7, Inferred
  <2>3. /\ read - pos \in Nat /\ Own \in Nat \ {0} /\ Own = Least(OwnWant, read - pos)
        /\ OwnWant \in Nat \ {0} /\ RightWant \in Nat /\ Want = OwnWant + RightWant
    BY <2>1, Inferring, Wants DEF Own
  <2>4. SUFFICES ASSUME Planned' PROVE Placed'
    BY <2>1 DEF Placed, Ready
  <2>5. Planned /\ seg' = seg + 1 /\ seg \in 1 .. Len(plan) - 1 /\ seg \in 1 .. Len(plan)
        /\ seg + 1 \in 1 .. Len(plan)
    BY <1>1, <1>2, <2>1, <2>4 DEF Planned
  <2>6. /\ pos = plan[seg].first /\ Len(hist) >= plan[seg].left
        /\ OwnWant = plan[seg].end - plan[seg].first
    BY <2>1, <2>5 DEF IInv, Placed, Gathering, OwnWant
  <2>7. /\ plan[seg].first \in Nat /\ plan[seg].end \in Nat /\ plan[seg].left \in Nat
        /\ plan[seg + 1].left \in Nat /\ plan[seg + 1].left <= Overlap
        /\ Follows(plan[seg], plan[seg + 1])
    BY <2>5, PlanFacts DEF IInv
  <2>8. CASE OwnWant <= read - pos
    <3>1. Own = OwnWant
      BY <2>3, <2>8 DEF Least
    <3>2. pos' = plan[seg + 1].first
      <4>1. plan[seg + 1].first = plan[seg].end
        BY <2>7 DEF Follows
      <4> DEFINE u == plan[seg].first
                 v == plan[seg].end
      <4>2. pos' = u + (v - u) /\ u \in Nat /\ v \in Nat
        BY <2>2, <2>6, <2>7, <3>1
      <4> HIDE DEF u, v
      <4>3. pos' = v
        BY <4>2
      <4>4. QED
        BY <4>1, <4>3 DEF v
    <3>3. Len(hist) + Own >= plan[seg + 1].left
      <4>1. plan[seg + 1].left <= plan[seg].left + OwnWant
        BY <2>6, <2>7 DEF Follows
      <4> DEFINE a == plan[seg + 1].left
                 d == plan[seg].left
                 g == Len(hist)
      <4>2. a \in Nat /\ d \in Nat /\ g \in Nat /\ g >= d /\ a <= d + OwnWant
        BY <1>1, <2>6, <2>7, <4>1
      <4> HIDE DEF a, d, g
      <4>3. g + Own >= a
        BY <2>3, <3>1, <4>2
      <4>4. QED
        BY <4>3 DEF a, g
    <3>4. Len(hist') >= plan[seg + 1].left
      BY <1>1, <2>2, <2>3, <2>7, <3>3, ConstantTypes DEF Least
    <3>5. QED
      BY <1>2, <2>1, <2>5, <3>2, <3>4 DEF Placed
  <2>9. CASE ~(OwnWant <= read - pos)
    <3>1. Own = read - pos
      BY <2>3, <2>9 DEF Least
    <3>2. read - pos' = 0
      BY <1>1, <2>2, <3>1
    <3>3. buf' = <<>>
      BY <1>1, <2>2, <2>3, <3>2, RunEmpty
    <3>4. Len(buf) = read - pos
      <4> DEFINE n == read - pos
      <4>1. buf = Run(pos, n) /\ n \in Nat
        BY <2>1, <2>3, Inferring
      <4> HIDE DEF n
      <4>2. Len(buf) = n
        BY <1>1, <4>1, RunType
      <4>3. QED
        BY <4>2 DEF n
    <3>5. eof
      BY <2>1, <2>3, <2>9, <3>4 DEF IInv, Ready, Short
    <3>6. QED
      BY <2>1, <2>2, <3>3, <3>5 DEF Placed
  <2>10. QED
    BY <2>8, <2>9
<1>8. CASE UNCHANGED gather /\ pc' = pc
  <2>1. Short' = Short
    BY <1>2, <1>8 DEF gather, Short
  <2>2. QED
    BY <1>2, <1>8, <2>1 DEF IInv, Placed, Ready, gather
<1>9. CASE UNCHANGED gather /\ pc = "emitting" /\ pc' = "filling"
  BY <1>2, <1>9 DEF IInv, Placed, Ready, Gathering, gather
<1>10. CASE pc' \notin Gathering
  BY <1>10 DEF Placed, Ready, Gathering
<1>11. QED
  BY <1>3, <1>4, <1>5, <1>6, <1>7, <1>8, <1>9, <1>10, GatherStep

-----------------------------------------------------------------------------
(* What each step may move.                                                *)
LEMMA MainMoves ==
  ASSUME Next
  PROVE  \/ Loaded \/ FillRaises \/ Filled \/ Infer \/ InferRaises \/ EmitRaises \/ EmitDone
         \/ Sentinel \/ Flushed \/ Stalls \/ Check \/ CloseLast \/ CloseLastRaises \/ Abandon
         \/ UNCHANGED <<pc, crash, stuck>>
<1>1. CASE DecodeStep \/ DecodeDies
  BY <1>1 DEF DecodeStep, Decode, DecodeEnds, DecodeDone, DecodeRaises, DecodeDies, ending
<1>2. CASE Load \/ Fill \/ Emit
  BY <1>2 DEF Load, Fill, Take, Emit, ending
<1>3. CASE EncodeStep \/ ProcFails
  BY <1>3 DEF EncodeStep, EncodeTake, SwitchPart, SwitchRaises, SwitchTimesOut, OpenPart,
              Write, WriteRaises, ProcFails, ending
<1>4. QED
  BY <1>1, <1>2, <1>3 DEF Next, MainStep

LEMMA PartMoves ==
  ASSUME Next
  PROVE  \/ EncodeTake \/ SwitchPart \/ SwitchRaises \/ SwitchTimesOut \/ OpenPart
         \/ Write \/ WriteRaises \/ ProcFails \/ CloseLast \/ CloseLastRaises \/ Abandon
         \/ UNCHANGED <<enc, sink>>
<1>1. CASE DecodeStep \/ DecodeDies
  BY <1>1 DEF DecodeStep, Decode, DecodeEnds, DecodeDone, DecodeRaises, DecodeDies
<1>2. CASE Load \/ Loaded \/ Fill \/ FillRaises \/ Filled \/ Infer \/ InferRaises
  BY <1>2 DEF Load, Loaded, Fill, Take, FillRaises, Filled, Infer, InferRaises, Crash
<1>3. CASE Emit \/ EmitRaises \/ EmitDone \/ Sentinel \/ Flushed \/ Stalls \/ Check
  BY <1>3 DEF Emit, EmitRaises, EmitDone, Sentinel, Flushed, Stalls, Check, Crash
<1>4. QED
  BY <1>1, <1>2, <1>3 DEF Next, MainStep, EncodeStep

LEMMA OutputMoves ==
  ASSUME Next
  PROVE  Emit \/ Sentinel \/ EncodeTake \/ UNCHANGED <<qOut, sent>>
<1>1. CASE DecodeStep \/ DecodeDies
  BY <1>1 DEF DecodeStep, Decode, DecodeEnds, DecodeDone, DecodeRaises, DecodeDies
<1>2. CASE Load \/ Loaded \/ Fill \/ FillRaises \/ Filled \/ Infer \/ InferRaises
  BY <1>2 DEF Load, Loaded, Fill, Take, FillRaises, Filled, Infer, InferRaises, Crash
<1>3. CASE EmitRaises \/ EmitDone \/ Flushed \/ Stalls \/ Check
  BY <1>3 DEF EmitRaises, EmitDone, Flushed, Stalls, Check, Crash
<1>4. CASE CloseLast \/ CloseLastRaises \/ Abandon
  BY <1>4 DEF CloseLast, CloseLastRaises, Abandon
<1>5. CASE EncodeStep \/ ProcFails
  BY <1>5 DEF EncodeStep, SwitchPart, SwitchRaises, SwitchTimesOut, OpenPart, Write,
              WriteRaises, ProcFails
<1>6. QED
  BY <1>1, <1>2, <1>3, <1>4, <1>5 DEF Next, MainStep

LEMMA TodoMoves ==
  ASSUME Next
  PROVE  Infer \/ Emit \/ EmitRaises \/ UNCHANGED <<todo, sent, pos>>
<1>1. CASE DecodeStep \/ DecodeDies
  BY <1>1 DEF DecodeStep, Decode, DecodeEnds, DecodeDone, DecodeRaises, DecodeDies, gather
<1>2. CASE Load \/ Loaded \/ Fill \/ FillRaises \/ Filled \/ InferRaises
  BY <1>2 DEF Load, Loaded, Fill, Take, FillRaises, Filled, InferRaises, Crash, gather
<1>3. CASE EmitDone \/ Sentinel \/ Flushed \/ Stalls \/ Check
  BY <1>3 DEF EmitDone, Sentinel, Flushed, Stalls, Check, gather
<1>4. CASE CloseLast \/ CloseLastRaises \/ Abandon
  BY <1>4 DEF CloseLast, CloseLastRaises, Abandon, gather
<1>5. CASE EncodeStep \/ ProcFails
  BY <1>5 DEF EncodeStep, EncodeTake, SwitchPart, SwitchRaises, SwitchTimesOut, OpenPart, Write,
              WriteRaises, ProcFails, gather
<1>6. QED
  BY <1>1, <1>2, <1>3, <1>4, <1>5 DEF Next, MainStep

(* Where the main thread goes.                                             *)
LEMMA PcMoves ==
  ASSUME Next
  PROVE  /\ pc \in After => pc' \in After
         /\ pc' \in Gathering => pc \in Gathering /\ crash' = crash
         /\ pc' \in After => pc \in After \/ Sentinel
         /\ pc' = "emitting" => pc = "emitting" \/ Infer
         /\ pc = "emitting" => pc' = "emitting" \/ EmitDone \/ EmitRaises
<1>1. CASE Loaded \/ FillRaises \/ Filled \/ Infer \/ InferRaises \/ EmitRaises \/ EmitDone
  BY <1>1 DEF Loaded, FillRaises, Filled, Infer, InferRaises, EmitRaises, EmitDone, Crash,
              Gathering, After, ending
<1>2. CASE Sentinel \/ Flushed \/ Stalls \/ Check
  BY <1>2 DEF Sentinel, Flushed, Stalls, Check, Gathering, After, ending
<1>3. CASE CloseLast \/ CloseLastRaises \/ Abandon
  BY <1>3 DEF CloseLast, CloseLastRaises, Abandon, Gathering, After, ending
<1>4. CASE UNCHANGED <<pc, crash, stuck>>
  BY <1>4
<1>5. QED
  BY <1>1, <1>2, <1>3, <1>4, MainMoves

LEMMA OwedStep ==
  ASSUME IInv, Next
  PROVE  Owed'
<1> DEFINE d == Greatest(first, pos) - sent
<1>1. /\ first \in Nat /\ pos \in Nat /\ sent \in Nat /\ first' = first
      /\ pc \in Gathering => d \in Nat /\ todo = Run(sent, d)
      /\ pc # "emitting" => todo = <<>>
  BY Types, SourceStep DEF IInv, Owed
<1>2. CASE Infer
  <2>1. pc' = "emitting" /\ sent' = sent
    BY <1>2 DEF Infer
  <2>2. QED
    BY <1>1, <1>2, <2>1, Inferred DEF Owed
<1>3. CASE Emit
  <2>1. /\ pc = "emitting" /\ pc' = pc /\ todo # <<>> /\ todo' = Tail(todo) /\ sent' = sent + 1
        /\ pos' = pos
    BY <1>3 DEF Emit, gather
  <2>2. Greatest(first, pos) \in Nat
    BY <1>1 DEF Greatest
  <2>3. d \in Nat /\ todo = Run(sent, d)
    BY <1>1, <2>1 DEF Gathering
  <2>4. Greatest(first', pos') - sent' = d - 1
    BY <1>1, <2>1, <2>2
  <2> HIDE DEF d
  <2>5. d \in Nat \ {0}
    BY <1>1, <2>1, <2>3, RunEmpty
  <2>a. sent \in Int
    BY <1>1
  <2>b. Tail(Run(sent, d)) = Run(sent + 1, d - 1)
    BY <2>5, <2>a, RunTail
  <2>6. todo' = Run(sent + 1, d - 1)
    BY <2>1, <2>3, <2>b
  <2>7. QED
    BY <2>1, <2>4, <2>5, <2>6 DEF Owed
<1>4. CASE EmitRaises
  BY <1>4 DEF EmitRaises, Crash, Owed, Gathering
<1>5. CASE UNCHANGED <<todo, sent, pos>> /\ ~Infer /\ ~EmitRaises
  <2>1. pc' \in Gathering => Greatest(first', pos') - sent' \in Nat /\ todo' = Run(sent', Greatest(first', pos') - sent')
    BY <1>1, <1>5, PcMoves
  <2>2. pc' # "emitting" => todo' = <<>>
    <3>1. EmitDone => todo = <<>>
      BY DEF EmitDone
    <3>2. QED
      BY <1>1, <1>5, <3>1, PcMoves
  <2>3. QED
    BY <2>1, <2>2 DEF Owed
<1>6. QED
  BY <1>2, <1>3, <1>4, <1>5, TodoMoves

-----------------------------------------------------------------------------
(* What the compositing thread finds in qOut.                              *)
LEMMA TakenOut ==
  ASSUME IInv, enc.pc = "waiting", qOut # <<>>
  PROVE  /\ Given = sink.index /\ sent - sink.index \in Nat
         /\ \/ /\ Head(qOut) = sink.index /\ sink.index \in Frames /\ sink.index # Done
               /\ sent - (sink.index + 1) \in Nat
               /\ qOut = Run(Given, sent - Given)
                    => Tail(qOut) = Run(sink.index + 1, sent - (sink.index + 1))
               /\ qOut = Append(Run(Given, sent - Given), Done)
                    => Tail(qOut) = Append(Run(sink.index + 1, sent - (sink.index + 1)), Done)
            \/ Head(qOut) = Done
<1> DEFINE x == sink.index
           k == sent - x
           r == Run(x, k)
<1>1. /\ x \in Nat /\ sent \in Nat /\ sent <= Actual /\ Actual \in Nat
  BY Types DEF IInv
<1>2. Given = x
  BY <1>1 DEF Given
<1>3. /\ k \in Nat
      /\ qOut = r \/ qOut = Append(r, Done)
  BY <1>2 DEF IInv, Handed, Working
<1> HIDE DEF k, x
<1>a. x \in Int
  BY <1>1
<1>4. r \in Seq(Int) /\ (k = 0 => r = <<>>)
  BY <1>3, <1>a, RunType, RunEmpty
<1>5. /\ Head(Append(r, Done)) = IF r = <<>> THEN Done ELSE Head(r)
      /\ Tail(Append(r, Done)) = IF r = <<>> THEN <<>> ELSE Append(Tail(r), Done)
  BY <1>4, HeadTailAppend
<1>6. CASE k = 0
  <2>1. Head(qOut) = Done
    BY <1>3, <1>4, <1>5, <1>6
  <2>2. QED
    BY <1>2, <1>3, <2>1 DEF k, x
<1>7. CASE k # 0
  <2>1. k \in Nat \ {0} /\ k - 1 = sent - (x + 1) /\ k - 1 \in Nat
    BY <1>1, <1>3, <1>7 DEF k
  <2>2. r # <<>> /\ Head(r) = x /\ Tail(r) = Run(x + 1, k - 1)
    BY <1>a, <2>1, RunTail, Zenon
  <2>3. x \in Frames /\ x # Done
    BY <1>1, <2>1, ConstantTypes DEF Frames
  <2> HIDE DEF r
  <2>4. /\ Head(qOut) = x
        /\ qOut = r => Tail(qOut) = Run(x + 1, sent - (x + 1))
        /\ qOut = Append(r, Done) => Tail(qOut) = Append(Run(x + 1, sent - (x + 1)), Done)
    BY <1>3, <1>5, <2>1, <2>2
  <2>5. QED
    BY <1>2, <1>3, <2>1, <2>3, <2>4 DEF k, x, r
<1>8. QED
  BY <1>6, <1>7

LEMMA EncTypes ==
  ASSUME IInv
  PROVE  /\ enc \in [pc: EncPCs, item: Frames \cup {NoFrame}] /\ enc.pc \in EncPCs
         /\ sink \in [index: 0 .. Actual, part: Nat \cup {NoPart}, proc: Procs]
         /\ sink.index \in Nat /\ sent \in Nat /\ pc \in MainPCs
BY Types DEF IInv

(* A step that neither takes from nor puts into qOut, and gives nothing to *)
(* an ffmpeg but the frame that was taken.                                 *)
LEMMA GivenKept ==
  ASSUME IInv, Next, UNCHANGED <<qOut, sent>>
  PROVE  Working' => /\ Working /\ Given' = Given
                     /\ enc'.pc = "writing" => UNCHANGED enc /\ sink'.index = sink.index
<1>1. CASE UNCHANGED enc /\ sink'.index = sink.index
  BY <1>1 DEF Working, Given
<1>2. CASE SwitchPart \/ OpenPart \/ ProcFails
  <2>1. UNCHANGED enc /\ sink'.index = sink.index
    BY <1>2, EncTypes DEF SwitchPart, OpenPart, ProcFails, NoProc
  <2>2. QED
    BY <1>1, <2>1
<1>3. CASE SwitchRaises \/ SwitchTimesOut \/ WriteRaises
  <2>1. enc'.pc \in {"failed", "closing"}
    BY <1>3 DEF SwitchRaises, SwitchTimesOut, WriteRaises, EncodeFails
  <2>2. QED
    BY <2>1 DEF Working
<1>4. CASE Write
  <2>1. /\ enc.pc = "writing" /\ enc'.pc = "waiting" /\ sink'.index = sink.index + 1
    BY <1>4, EncTypes DEF Write
  <2>2. QED
    BY <2>1, EncTypes DEF Working, Given
<1>5. CASE EncodeTake
  <2>1. qOut # <<>> /\ qOut' = Tail(qOut)
    BY <1>5 DEF EncodeTake
  <2>2. Len(Tail(qOut)) = Len(qOut) - 1 /\ Len(qOut) \in Nat
    <3>1. qOut \in Seq(Frames \cup {Done})
      BY Types DEF IInv
    <3>2. QED
      BY <2>1, <3>1, HeadTailProperties
  <2>3. QED
    BY <2>1, <2>2
<1>6. CASE CloseLast \/ CloseLastRaises \/ Abandon
  <2>1. UNCHANGED enc /\ sink'.index = sink.index
    BY <1>6, EncTypes DEF CloseLast, CloseLastRaises, ClosesBadly, Abandon, NoProc
  <2>2. QED
    BY <1>1, <2>1
<1>7. CASE UNCHANGED <<enc, sink>>
  BY <1>1, <1>7
<1>8. QED
  BY <1>2, <1>3, <1>4, <1>5, <1>6, <1>7, PartMoves

LEMMA HandedStep ==
  ASSUME IInv, Next
  PROVE  Handed'
<1> DEFINE k == sent - Given
<1>1. Working => /\ k \in Nat
                 /\ qOut = Run(Given, k) \/ (pc \in After /\ qOut = Append(Run(Given, k), Done))
                 /\ enc.pc = "writing" => enc.item = sink.index
  BY DEF IInv, Handed
<1>2. Given \in Nat /\ sent \in Nat
  BY EncTypes DEF Given
<1>3. CASE UNCHANGED <<qOut, sent>>
  BY <1>1, <1>3, GivenKept, PcMoves DEF Handed
<1>4. CASE Emit
  <2>1. /\ pc = "emitting" /\ todo # <<>> /\ qOut' = Append(qOut, Head(todo)) /\ sent' = sent + 1
        /\ UNCHANGED <<enc, sink>>
    BY <1>4 DEF Emit
  <2>2. Head(todo) = sent
    <3> DEFINE d == Greatest(first, pos) - sent
    <3>1. d \in Nat /\ todo = Run(sent, d) /\ sent \in Int
      BY <1>2, <2>1 DEF IInv, Owed, Gathering
    <3> HIDE DEF d
    <3>2. d \in Nat \ {0}
      BY <2>1, <3>1, RunEmpty
    <3>3. QED
      BY <3>1, <3>2, RunTail
  <2>3. ASSUME Working PROVE qOut' = Run(Given, k + 1) /\ sent' - Given = k + 1
    <3>1. qOut = Run(Given, k) /\ k \in Nat /\ Given + k = sent /\ Given \in Int
      BY <1>1, <1>2, <2>1, <2>3 DEF After
    <3>2. sent' - Given = k + 1
      BY <1>2, <2>1
    <3> HIDE DEF k
    <3>3. Append(Run(Given, k), Given + k) = Run(Given, k + 1)
      BY <3>1, RunAppend
    <3>4. QED
      BY <2>1, <2>2, <3>1, <3>2, <3>3
  <2>4. Given' = Given /\ Working' = Working
    BY <2>1 DEF Given, Working
  <2>5. QED
    BY <1>1, <2>1, <2>3, <2>4 DEF Handed
<1>5. CASE Sentinel
  <2>1. /\ pc = "ending" /\ pc' = "flushing" /\ sent' = sent /\ UNCHANGED <<enc, sink>>
        /\ qOut' = Append(qOut, Done) \/ qOut' = qOut
    BY <1>5 DEF Sentinel
  <2>2. Given' = Given /\ Working' = Working
    BY <2>1 DEF Given, Working
  <2>3. QED
    BY <1>1, <2>1, <2>2 DEF Handed, After
<1>6. CASE EncodeTake
  <2>1. /\ enc.pc = "waiting" /\ qOut # <<>> /\ qOut' = Tail(qOut)
        /\ sent' = sent /\ pc' = pc /\ UNCHANGED sink
        /\ Head(qOut) = Done => enc'.pc = "ended"
        /\ Head(qOut) # Done => enc'.pc = "writing" /\ enc'.item = Head(qOut)
    BY <1>6 DEF EncodeTake
  <2>2. CASE Head(qOut) = Done
    BY <2>1, <2>2 DEF Handed, Working
  <2>3. CASE Head(qOut) # Done
    <3>1. Given' = sink.index + 1
      BY <2>1, <2>3 DEF Given
    <3>2. QED
      BY <1>1, <2>1, <2>3, <3>1, TakenOut DEF Handed, Working
  <2>4. QED
    BY <2>2, <2>3
<1>7. QED
  BY <1>3, <1>4, <1>5, <1>6, OutputMoves

(* A thread that has ended, or is not in a state, takes no step out of it. *)
LEMMA AliveStep ==
  ASSUME IInv, Next
  PROVE  /\ ~Alive => ~Alive'
         /\ ~Working => ~Working'
         /\ enc'.pc = "closing" => sink'.proc = "none"
<1>1. CASE EncodeTake
  BY <1>1 DEF EncodeTake, Alive, Working
<1>2. CASE SwitchPart \/ OpenPart \/ Write
  <2>1. CASE SwitchPart \/ OpenPart
    <3>1. UNCHANGED enc /\ enc.pc = "writing"
      BY <2>1 DEF SwitchPart, OpenPart
    <3>2. QED
      BY <3>1 DEF Alive, Working
  <2>2. CASE Write
    <3>1. enc.pc = "writing" /\ enc'.pc = "waiting"
      BY <2>2 DEF Write
    <3>2. QED
      BY <3>1 DEF Alive, Working
  <2>3. QED
    BY <1>2, <2>1, <2>2
<1>3. CASE SwitchRaises \/ SwitchTimesOut \/ WriteRaises
  <2>1. CASE SwitchTimesOut \/ WriteRaises
    <3>1. enc.pc \in {"closing", "writing"} /\ enc'.pc = "failed"
      BY <2>1 DEF SwitchTimesOut, WriteRaises, EncodeFails
    <3>2. QED
      BY <3>1 DEF Alive, Working
  <2>2. CASE SwitchRaises
    <3>1. enc.pc = "writing" /\ enc'.pc \in {"failed", "closing"} /\ sink' = NoProc
      BY <2>2 DEF SwitchRaises, ClosesBadly
    <3>2. sink'.proc = "none"
      BY <3>1, EncTypes DEF NoProc
    <3>3. QED
      BY <3>1, <3>2 DEF Alive, Working
  <2>3. QED
    BY <1>3, <2>1, <2>2
<1>4. CASE ProcFails \/ (Abandon /\ sink' # NoProc)
  <2>1. UNCHANGED enc /\ sink.proc = "running"
    BY <1>4 DEF ProcFails, Abandon
  <2>2. enc.pc # "closing"
    BY <2>1 DEF IInv, Told
  <2>3. QED
    BY <2>1, <2>2 DEF Alive, Working
<1>5. CASE CloseLast \/ CloseLastRaises \/ (Abandon /\ sink' = NoProc)
  <2>1. UNCHANGED enc /\ sink' = NoProc
    BY <1>5 DEF CloseLast, CloseLastRaises, ClosesBadly, Abandon
  <2>2. sink'.proc = "none"
    BY <2>1, EncTypes DEF NoProc
  <2>3. QED
    BY <2>1, <2>2 DEF Alive, Working
<1>6. CASE UNCHANGED <<enc, sink>>
  BY <1>6 DEF Alive, Working, IInv, Told
<1>7. QED
  BY <1>1, <1>2, <1>3, <1>4, <1>5, <1>6, PartMoves

LEMMA NeverWedged ==
  ASSUME IInv, Next, "wedged" \notin Env
  PROVE  sink'.proc # "wedged"
<1>1. sink.proc # "wedged"
  BY DEF IInv, Told
<1>2. CASE EncodeTake \/ SwitchTimesOut \/ WriteRaises \/ UNCHANGED <<enc, sink>>
  BY <1>1, <1>2 DEF EncodeTake, SwitchTimesOut, WriteRaises
<1>3. CASE SwitchPart \/ SwitchRaises \/ CloseLast \/ CloseLastRaises \/ Abandon
  BY <1>1, <1>3, EncTypes DEF SwitchPart, SwitchRaises, CloseLast, CloseLastRaises, ClosesBadly,
                              Abandon, NoProc
<1>4. CASE OpenPart \/ Write
  BY <1>1, <1>4, EncTypes DEF OpenPart, Write
<1>5. CASE ProcFails
  <2>1. PICK s \in {"dead", "wedged"} : Fault(s) /\ sink' = [sink EXCEPT !.proc = s]
    BY <1>5 DEF ProcFails
  <2>2. s = "dead"
    BY <2>1 DEF Fault
  <2>3. QED
    BY <2>1, <2>2, EncTypes
<1>6. QED
  BY <1>2, <1>3, <1>4, <1>5, PartMoves

LEMMA ToldStep ==
  ASSUME IInv, Next
  PROVE  Told'
<1> DEFINE k == sent - Given
           Full == qOut = Append(Run(Given, k), Done)
<1>1. enc'.pc = "closing" => sink'.proc = "none"
  BY AliveStep DEF IInv, Told
<1>2. ASSUME "wedged" \notin Env, pc' \in After, Working'
      PROVE  Full'
  <2>1. Working
    BY <1>2, AliveStep
  <2>2. CASE Sentinel
    <3>1. UNCHANGED <<enc, sink, sent>> /\ pc = "ending"
      BY <2>2 DEF Sentinel
    <3>2. qOut = Run(Given, k)
      BY <2>1, <3>1 DEF IInv, Handed, After
    <3>3. Given' = Given
      BY <3>1 DEF Given
    <3>4. CASE qOut' = Append(qOut, Done)
      BY <3>1, <3>2, <3>3, <3>4
    <3>5. CASE Len(qOut) = Depth /\ (~Alive \/ Stalled)
      <4>1. enc.pc \in {"waiting", "writing"} /\ sink.proc # "wedged"
        BY <1>2, <2>1 DEF IInv, Told, Working
      <4>2. Len(qOut) = 0
        BY <3>5, <4>1 DEF Alive, Stalled
      <4>3. Depth >= 1
        BY DepthFacts DEF IInv
      <4>4. QED
        BY <3>5, <4>2, <4>3
    <3>6. QED
      BY <2>2, <3>4, <3>5 DEF Sentinel
  <2>3. CASE ~Sentinel
    <3>1. pc \in After /\ Full
      <4>1. pc \in After
        BY <1>2, <2>3, PcMoves
      <4>2. QED
        BY <1>2, <2>1, <4>1 DEF IInv, Told
    <3>2. CASE EncodeTake
      <4>1. /\ enc.pc = "waiting" /\ qOut # <<>> /\ qOut' = Tail(qOut) /\ sent' = sent
            /\ UNCHANGED sink
            /\ Head(qOut) = Done => enc'.pc = "ended"
            /\ Head(qOut) # Done => enc'.pc = "writing"
        BY <3>2 DEF EncodeTake
      <4>2. Head(qOut) # Done
        BY <1>2, <4>1 DEF Working
      <4>3. Given' = sink.index + 1
        BY <4>1, <4>2 DEF Given
      <4>4. QED
        BY <3>1, <4>1, <4>2, <4>3, TakenOut
    <3>3. CASE UNCHANGED <<qOut, sent>>
      BY <1>2, <3>1, <3>3, GivenKept
    <3>4. CASE Emit
      <4>1. pc = "emitting"
        BY <3>4 DEF Emit
      <4>2. QED
        BY <3>1, <4>1 DEF After
    <3>5. QED
      BY <2>3, <3>2, <3>3, <3>4, OutputMoves
  <2>4. QED
    BY <2>2, <2>3
<1>3. ASSUME "wedged" \notin Env, pc' \in {"checking", "abandoning"}
      PROVE  ~Working'
  <2>1. CASE Flushed
    BY <2>1 DEF Flushed, Alive, Working
  <2>2. CASE Stalls
    <3>1. pc = "flushing" /\ Stalled /\ UNCHANGED enc
      BY <2>2 DEF Stalls
    <3>2. ASSUME Working PROVE FALSE
      <4>1. sink.proc # "wedged" /\ qOut = Append(Run(Given, k), Done)
        BY <1>3, <3>1, <3>2 DEF IInv, Told, After
      <4>2. qOut = <<>>
        BY <3>1, <3>2, <4>1 DEF Stalled, Working
      <4>3. k \in Nat /\ Given \in Int
        BY <3>2, EncTypes DEF IInv, Handed, Given
      <4> HIDE DEF k
      <4>4. Len(Append(Run(Given, k), Done)) = k + 1
        <5>1. Run(Given, k) \in Seq(Int) /\ Len(Run(Given, k)) = k
          BY <4>3, RunType
        <5>2. QED
          BY <4>3, <5>1
      <4>5. QED
        BY <4>1, <4>2, <4>3, <4>4
    <3>3. QED
      BY <3>1, <3>2 DEF Working
  <2>3. CASE Check \/ CloseLast \/ CloseLastRaises
    <3>1. pc = "checking" \/ (pc = "closing" /\ ~Alive)
      <4>1. pc \in {"checking", "closing"}
        BY <2>3 DEF Check, CloseLast, CloseLastRaises
      <4>2. pc = "closing" => ~Alive
        BY DEF IInv, Ended
      <4>3. QED
        BY <4>1, <4>2
    <3>2. ~Working
      BY <1>3, <3>1 DEF IInv, Told, Alive, Working
    <3>3. QED
      BY <3>2, AliveStep
  <2>4. CASE UNCHANGED pc
    BY <1>3, <2>4, AliveStep DEF IInv, Told
  <2>5. CASE pc' \notin {"checking", "abandoning"}
    BY <1>3, <2>5
  <2>6. QED
    <3>1. Loaded \/ FillRaises \/ Filled \/ Infer \/ InferRaises \/ EmitRaises \/ EmitDone
            => pc' \notin {"checking", "abandoning"}
      BY DEF Loaded, FillRaises, Filled, Infer, InferRaises, EmitRaises, EmitDone, Crash
    <3>2. Sentinel \/ Abandon => pc' \notin {"checking", "abandoning"} \/ UNCHANGED pc
      BY DEF Sentinel, Abandon
    <3>3. QED
      BY <2>1, <2>2, <2>3, <2>4, <2>5, <3>1, <3>2, MainMoves
<1>4. QED
  BY <1>1, <1>2, <1>3, NeverWedged DEF Told

LEMMA EndedStep ==
  ASSUME IInv, Next
  PROVE  Ended'
<1>1. eof => eof'
  BY InputStep DEF Decode, DecodeEnds, DecodeDies, DecodeDone, DecodeRaises, gather, Load, Fill,
                   Short, Take
<1>2. ~Alive => ~Alive'
  BY AliveStep
<1>3. CASE Loaded \/ Infer \/ EmitDone
  BY <1>3 DEF Loaded, Infer, EmitDone, ending, IInv, Ended, Gathering
<1>4. CASE FillRaises \/ InferRaises \/ EmitRaises
  BY <1>4 DEF FillRaises, InferRaises, EmitRaises, Crash, Ended, Gathering
<1>5. CASE Filled
  <2>1. /\ pc = "filling" /\ ~Short /\ UNCHANGED <<gather, ending>>
        /\ pc' = IF buf = <<>> THEN "ending" ELSE "inferring"
    BY <1>5 DEF Filled
  <2>2. buf = <<>> => eof
    <3>1. Want = OwnWant + RightWant /\ OwnWant \in Nat \ {0} /\ RightWant \in Nat
      BY Wants
    <3>2. buf = <<>> => Len(buf) = 0
      OBVIOUS
    <3>3. QED
      BY <2>1, <3>1, <3>2 DEF Short
  <2>3. QED
    BY <2>1, <2>2 DEF gather, ending, IInv, Ended, Gathering
<1>6. CASE Sentinel
  BY <1>6 DEF Sentinel, gather, ending, IInv, Ended, Gathering
<1>7. CASE Flushed
  BY <1>2, <1>7 DEF Flushed, gather, ending, IInv, Ended, Gathering
<1>8. CASE Stalls
  BY <1>8 DEF Stalls, gather, ending, IInv, Ended, Gathering
<1>9. CASE Check
  <2>1. /\ pc = "checking" /\ UNCHANGED <<gather, ending, enc>>
        /\ pc' = IF Sound THEN "closing" ELSE "abandoning"
    BY <1>9 DEF Check
  <2>2. Sound => ~crash /\ ~Alive
    BY <2>1 DEF Sound, IInv, Ended
  <2>3. QED
    BY <1>2, <2>1, <2>2 DEF gather, ending, IInv, Ended, Gathering
<1>10. CASE CloseLast
  <2>1. /\ pc = "closing" /\ UNCHANGED <<gather, ending, enc>> /\ sink'.index = sink.index
        /\ pc' = IF sink.index = read THEN "joined" ELSE "abandoning"
    BY <1>10, EncTypes DEF CloseLast, NoProc
  <2>2. QED
    BY <1>2, <2>1 DEF gather, ending, IInv, Ended, Gathering
<1>11. CASE CloseLastRaises \/ Abandon
  BY <1>11 DEF CloseLastRaises, Abandon, Ended, Gathering
<1>12. CASE UNCHANGED <<pc, crash, stuck>>
  <2>1. pc # "joined"
    BY DEF Next, Over
  <2>2. QED
    BY <1>1, <1>2, <1>12, <2>1 DEF IInv, Ended
<1>13. QED
  BY <1>3, <1>4, <1>5, <1>6, <1>7, <1>8, <1>9, <1>10, <1>11, <1>12, MainMoves

-----------------------------------------------------------------------------
(***************************************************************************)
(* The types, from the rest of the invariant.                              *)
(***************************************************************************)
LEMMA RunFrames ==
  ASSUME NEW f \in Nat, NEW l \in Nat, f + l <= Actual
  PROVE  Run(f, l) \in Seq(Frames)
<1>1. \A i \in 1 .. l : f + i - 1 \in Frames
  BY ConstantTypes DEF Frames
<1>2. QED
  BY <1>1 DEF Run

LEMMA EndTypes ==
  ASSUME NEW S, NEW s \in Seq(S), NEW n \in Nat
  PROVE  FirstOf(s, n) \in Seq(S) /\ LastOf(s, n) \in Seq(S)
<1> DEFINE k == Least(n, Len(s))
           g == Greatest(0, Len(s) - n)
<1>1. k \in 0 .. Len(s) /\ g \in 0 .. Len(s) /\ Len(s) \in Nat
  BY DEF Least, Greatest
<1> HIDE DEF k, g
<1>2. SubSeq(s, 1, k) \in Seq(S)
  <2>1. \A i \in 1 .. k : s[i] \in S
    BY <1>1
  <2>2. QED
    BY <1>1, <2>1, SubSeqProperties
<1>3. SubSeq(s, g + 1, Len(s)) \in Seq(S)
  <2>1. \A i \in g + 1 .. Len(s) : s[i] \in S
    BY <1>1
  <2>2. QED
    BY <1>1, <2>1, SubSeqProperties
<1>4. QED
  BY <1>2, <1>3 DEF FirstOf, LastOf, k, g

(* What the decoder and next_frame leave.                                  *)
LEMMA InputTypes ==
  ASSUME IInv, Next
  PROVE  /\ dec' \in [pc: DecPCs, next: 0 .. Actual]
         /\ qIn' \in Seq(Frames \cup {Done}) /\ Len(qIn') <= Depth
         /\ read' \in 0 .. Actual /\ eof' \in BOOLEAN
<1>1. /\ dec \in [pc: DecPCs, next: 0 .. Actual] /\ dec.next \in Nat /\ dec.next <= Actual
      /\ qIn \in Seq(Frames \cup {Done}) /\ Len(qIn) \in Nat /\ Len(qIn) <= Depth
      /\ read \in Nat /\ read <= Actual /\ eof \in BOOLEAN /\ Actual \in Nat
  BY Types DEF IInv
<1>2. Depth \in Nat
  BY DepthFacts DEF IInv
<1>3. CASE Decode
  <2>1. /\ dec.next < Actual /\ Len(qIn) < Depth /\ qIn' = Append(qIn, dec.next)
        /\ dec' = [dec EXCEPT !.next = @ + 1] /\ UNCHANGED <<read, eof>>
    BY <1>3 DEF Decode, gather
  <2>2. dec.next \in Frames /\ dec.next + 1 \in 0 .. Actual
    BY <1>1, <2>1 DEF Frames
  <2>3. dec' \in [pc: DecPCs, next: 0 .. Actual]
    BY <1>1, <2>1, <2>2
  <2>4. qIn' \in Seq(Frames \cup {Done}) /\ Len(qIn') = Len(qIn) + 1
    BY <1>1, <2>1, <2>2
  <2>5. QED
    BY <1>1, <1>2, <2>1, <2>3, <2>4
<1>4. CASE DecodeEnds \/ DecodeDies \/ DecodeRaises
  <2>1. UNCHANGED <<qIn, read, eof>>
    BY <1>4 DEF DecodeEnds, DecodeDies, DecodeRaises, gather
  <2>2. dec' \in [pc: DecPCs, next: 0 .. Actual]
    BY <1>1, <1>4 DEF DecodeEnds, DecodeDies, DecodeRaises, DecPCs
  <2>3. QED
    BY <1>1, <2>1, <2>2
<1>5. CASE DecodeDone
  <2>1. /\ Len(qIn) < Depth /\ qIn' = Append(qIn, Done) /\ UNCHANGED <<read, eof>>
    BY <1>5 DEF DecodeDone, gather
  <2>2. dec' \in [pc: DecPCs, next: 0 .. Actual]
    BY <1>1, <1>5 DEF DecodeDone, DecPCs
  <2>3. qIn' \in Seq(Frames \cup {Done}) /\ Len(qIn') = Len(qIn) + 1
    BY <1>1, <2>1
  <2>4. QED
    BY <1>1, <1>2, <2>1, <2>2, <2>3
<1>6. CASE Load \/ Fill
  <2>1. /\ ~eof /\ qIn # <<>> /\ qIn' = Tail(qIn) /\ UNCHANGED dec
        /\ Head(qIn) = Done => eof' = TRUE /\ read' = read
        /\ Head(qIn) # Done => eof' = eof /\ read' = read + 1
    BY <1>6 DEF Load, Fill, Short, Take
  <2>2. qIn' \in Seq(Frames \cup {Done}) /\ Len(qIn') = Len(qIn) - 1
    BY <1>1, <2>1
  <2>3. read' \in 0 .. Actual
    <3>1. Head(qIn) # Done => read < dec.next
      BY <2>1, Taken
    <3>2. QED
      BY <1>1, <2>1, <3>1
  <2>4. eof' \in BOOLEAN
    BY <1>1, <2>1
  <2>5. Len(qIn') <= Depth
    BY <1>1, <1>2, <2>2
  <2>6. QED
    BY <1>1, <2>1, <2>2, <2>3, <2>4, <2>5
<1>7. CASE UNCHANGED <<dec, qIn, read, eof>>
  BY <1>1, <1>7
<1>8. QED
  BY <1>3, <1>4, <1>5, <1>6, <1>7, InputStep

(* What the main thread has gathered, and where it is in the plan.         *)
LEMMA GatherTypes ==
  ASSUME IInv, Next
  PROVE  /\ hist' \in Seq(Frames) /\ buf' \in Seq(Frames) /\ pos' \in 0 .. Actual
         /\ seg' \in 1 .. Len(plan') + 1
<1>1. /\ hist \in Seq(Frames) /\ buf \in Seq(Frames) /\ pos \in 0 .. Actual
      /\ seg \in 1 .. Len(plan) + 1
  BY Types DEF IInv
<1>2. plan' = plan /\ Len(plan) \in Nat
  BY SourceStep, PlanFacts DEF IInv
<1>3. CASE Load \/ Fill
  <2>1. /\ UNCHANGED <<pos, seg, plan>>
        /\ \/ read' = read + 1 /\ UNCHANGED buf /\ hist' = Append(hist, read)
           \/ read' = read + 1 /\ UNCHANGED hist /\ buf' = Append(buf, read)
           \/ UNCHANGED <<hist, buf>>
    BY <1>3, TakeInto
  <2>2. read' = read + 1 => read \in Frames
    <3>1. read \in Nat /\ Actual \in Nat /\ read' \in 0 .. Actual
      BY InputTypes, Types DEF IInv
    <3>2. QED
      BY <3>1 DEF Frames
  <2>3. hist' \in Seq(Frames) /\ buf' \in Seq(Frames)
    <3>1. CASE read' = read + 1 /\ UNCHANGED buf /\ hist' = Append(hist, read)
      BY <1>1, <2>2, <3>1
    <3>2. CASE read' = read + 1 /\ UNCHANGED hist /\ buf' = Append(buf, read)
      BY <1>1, <2>2, <3>2
    <3>3. CASE UNCHANGED <<hist, buf>>
      BY <1>1, <3>3
    <3>4. QED
      BY <2>1, <3>1, <3>2, <3>3
  <2>4. QED
    BY <1>1, <1>2, <2>1, <2>3
<1>4. CASE Infer
  <2>1. /\ pc = "inferring" /\ hist' = LastOf(hist \o Body, Overlap)
        /\ buf' = LastOf(buf, Len(buf) - Len(Body))
        /\ seg' = IF Planned THEN seg + 1 ELSE seg
    BY <1>4 DEF Infer
  <2>2. /\ read - pos \in Nat \ {0} /\ Own \in Nat \ {0} /\ Own <= read - pos
        /\ Len(Body) = Own /\ buf = Run(pos, read - pos)
    BY <2>1, Inferring
  <2>3. Len(buf) = read - pos
    <3> DEFINE n == read - pos
    <3>1. n \in Nat /\ buf = Run(pos, n) /\ pos \in Int
      BY <1>1, <2>2
    <3> HIDE DEF n
    <3>2. Len(Run(pos, n)) = n
      BY <3>1, RunType
    <3>3. QED
      BY <3>1, <3>2 DEF n
  <2>4. Body \in Seq(Frames)
    <3>1. Body = FirstOf(buf, OwnWant)
      BY DEF Body, OwnWant
    <3>2. QED
      BY <1>1, <3>1, Wants, EndTypes
  <2>5. hist' \in Seq(Frames)
    <3>1. hist \o Body \in Seq(Frames)
      BY <1>1, <2>4
    <3>2. QED
      BY <2>1, <3>1, EndTypes, ConstantTypes
  <2>6. buf' \in Seq(Frames)
    <3> DEFINE m == Len(buf) - Len(Body)
    <3>1. m \in Nat /\ buf' = LastOf(buf, m)
      BY <2>1, <2>2, <2>3
    <3> HIDE DEF m
    <3>2. LastOf(buf, m) \in Seq(Frames)
      BY <1>1, <3>1, EndTypes
    <3>3. QED
      BY <3>1, <3>2
  <2>7. pos' \in 0 .. Actual
    <3>1. pos' = pos + Own
      BY <1>4, Inferred
    <3>2. read \in Nat /\ read <= Actual /\ pos \in Nat /\ Actual \in Nat
      BY Types DEF IInv
    <3>3. QED
      BY <2>2, <3>1, <3>2
  <2>8. seg' \in 1 .. Len(plan') + 1
    BY <1>1, <1>2, <2>1 DEF Planned
  <2>9. QED
    BY <2>5, <2>6, <2>7, <2>8
<1>5. CASE Loaded \/ Filled
  BY <1>1, <1>2, <1>5 DEF Loaded, Filled, gather
<1>6. CASE UNCHANGED gather
  BY <1>1, <1>2, <1>6 DEF gather
<1>7. QED
  BY <1>3, <1>4, <1>5, <1>6, GatherStep

(* What is emitted, and what is between the main thread and the            *)
(* compositing one.                                                        *)
LEMMA OutputTypes ==
  ASSUME IInv, Next
  PROVE  /\ todo' \in Seq(Frames) /\ sent' \in 0 .. Actual
         /\ qOut' \in Seq(Frames \cup {Done}) /\ Len(qOut') <= Depth
<1>1. /\ todo \in Seq(Frames) /\ sent \in Nat /\ sent <= Actual
      /\ qOut \in Seq(Frames \cup {Done}) /\ Len(qOut) \in Nat /\ Len(qOut) <= Depth
      /\ first \in Nat /\ first <= Actual /\ pos \in Nat /\ pos <= Actual /\ Actual \in Nat
  BY Types DEF IInv
<1>2. Depth \in Nat
  BY DepthFacts DEF IInv
<1>3. CASE Infer
  <2>1. UNCHANGED <<qOut, sent>>
    BY <1>3 DEF Infer
  <2>2. pos' \in 0 .. Actual
    BY GatherTypes
  <2>3. Greatest(first, pos') <= Actual
    BY <1>1, <2>2 DEF Greatest
  <2> DEFINE d == Greatest(first, pos') - sent
  <2>4. d \in Nat /\ todo' = Run(sent, d)
    BY <1>3, Inferred
  <2>5. sent + d <= Actual
    <3>1. Greatest(first, pos') \in Nat
      BY <1>1, <2>2 DEF Greatest
    <3>2. QED
      BY <1>1, <2>3, <3>1
  <2> HIDE DEF d
  <2>6. todo' \in Seq(Frames)
    BY <1>1, <2>4, <2>5, RunFrames
  <2>7. QED
    BY <1>1, <2>1, <2>6
<1>4. CASE Emit
  <2>1. /\ pc = "emitting" /\ todo # <<>> /\ Len(qOut) < Depth
        /\ qOut' = Append(qOut, Head(todo)) /\ todo' = Tail(todo) /\ sent' = sent + 1
    BY <1>4 DEF Emit
  <2>2. /\ Head(todo) \in Frames /\ todo' \in Seq(Frames)
    BY <1>1, <2>1
  <2>3. /\ qOut' \in Seq(Frames \cup {Done}) /\ Len(qOut') = Len(qOut) + 1
    BY <1>1, <2>1, <2>2
  <2>4. sent + 1 <= Actual
    <3> DEFINE d == Greatest(first, pos) - sent
    <3>1. d \in Nat /\ todo = Run(sent, d) /\ sent \in Int
      BY <1>1, <2>1 DEF IInv, Owed, Gathering
    <3> HIDE DEF d
    <3>2. d # 0
      BY <2>1, <3>1, RunEmpty
    <3>3. QED
      BY <1>1, <3>1, <3>2 DEF d, Greatest
  <2>5. QED
    BY <1>1, <1>2, <2>1, <2>2, <2>3, <2>4
<1>5. CASE EmitRaises
  BY <1>1, <1>5 DEF EmitRaises, Crash
<1>6. CASE Sentinel
  <2>1. /\ UNCHANGED <<todo, sent>>
        /\ \/ Len(qOut) < Depth /\ qOut' = Append(qOut, Done)
           \/ UNCHANGED qOut
    BY <1>6 DEF Sentinel
  <2>2. Append(qOut, Done) \in Seq(Frames \cup {Done}) /\ Len(Append(qOut, Done)) = Len(qOut) + 1
    BY <1>1
  <2>3. QED
    BY <1>1, <1>2, <2>1, <2>2
<1>7. CASE EncodeTake
  <2>1. qOut # <<>> /\ qOut' = Tail(qOut) /\ UNCHANGED <<todo, sent>>
    BY <1>7 DEF EncodeTake
  <2>2. qOut' \in Seq(Frames \cup {Done}) /\ Len(qOut') = Len(qOut) - 1
    BY <1>1, <2>1
  <2>3. QED
    BY <1>1, <1>2, <2>1, <2>2
<1>8. CASE UNCHANGED <<qOut, sent, todo>>
  BY <1>1, <1>8
<1>9. QED
  BY <1>3, <1>4, <1>5, <1>6, <1>7, <1>8, OutputMoves, TodoMoves

(* The compositing thread and the part it writes.                          *)
LEMMA PartTypes ==
  ASSUME IInv, Next
  PROVE  /\ enc' \in [pc: EncPCs, item: Frames \cup {NoFrame}]
         /\ sink' \in [index: 0 .. Actual, part: Nat \cup {NoPart}, proc: Procs]
         /\ enc'.item = NoFrame <=> enc'.pc # "writing"
         /\ sink'.part = NoPart <=> sink'.proc = "none"
<1> DEFINE EncTyped(e) == /\ e \in [pc: EncPCs, item: Frames \cup {NoFrame}]
                          /\ e.item = NoFrame <=> e.pc # "writing"
           SinkTyped(k) == /\ k \in [index: 0 .. Actual, part: Nat \cup {NoPart}, proc: Procs]
                           /\ k.part = NoPart <=> k.proc = "none"
<1>1. /\ enc \in [pc: EncPCs, item: Frames \cup {NoFrame}]
      /\ enc.item = NoFrame <=> enc.pc # "writing"
      /\ sink \in [index: 0 .. Actual, part: Nat \cup {NoPart}, proc: Procs]
      /\ sink.part = NoPart <=> sink.proc = "none"
      /\ sink.index \in Nat /\ Actual \in Nat
      /\ NoFrame \notin Frames /\ NoPart \notin Nat
  BY Types, ConstantTypes DEF IInv
<1>2. EncTyped(enc) /\ SinkTyped(sink)
  BY <1>1
<1>3. \A p \in {"waiting", "closing", "ended", "failed"} : EncTyped([pc |-> p, item |-> NoFrame])
  BY DEF EncPCs
<1>4. \A f \in Frames : EncTyped([pc |-> "writing", item |-> f])
  BY <1>1 DEF EncPCs
<1>5. SinkTyped(NoProc)
  BY <1>1 DEF NoProc, Procs
<1>6. EncTyped(enc') /\ SinkTyped(sink')
  <2> HIDE DEF EncTyped, SinkTyped
  <2>1. CASE EncodeTake
    <3>1. /\ enc.pc = "waiting" /\ qOut # <<>> /\ UNCHANGED sink
          /\ enc' = IF Head(qOut) = Done THEN [pc |-> "ended", item |-> NoFrame]
                                         ELSE [pc |-> "writing", item |-> Head(qOut)]
      BY <2>1 DEF EncodeTake
    <3>2. Head(qOut) # Done => Head(qOut) \in Frames
      BY <3>1, TakenOut
    <3>3. QED
      BY <1>2, <1>3, <1>4, <3>1, <3>2
  <2>2. CASE SwitchPart \/ CloseLast \/ CloseLastRaises \/ (Abandon /\ sink' = NoProc)
    <3>1. UNCHANGED enc /\ sink' = NoProc
      BY <2>2 DEF SwitchPart, CloseLast, CloseLastRaises, ClosesBadly, Abandon
    <3>2. QED
      BY <1>2, <1>5, <3>1
  <2>3. CASE SwitchRaises
    <3>1. /\ sink' = NoProc
          /\ \E p \in {"failed", "closing"} : enc' = [pc |-> p, item |-> NoFrame]
      BY <2>3 DEF SwitchRaises, ClosesBadly
    <3>2. QED
      BY <1>3, <1>5, <3>1
  <2>4. CASE SwitchTimesOut \/ WriteRaises
    <3>1. UNCHANGED sink /\ enc' = [pc |-> "failed", item |-> NoFrame]
      BY <2>4 DEF SwitchTimesOut, WriteRaises, EncodeFails
    <3>2. QED
      BY <1>2, <1>3, <3>1
  <2>5. CASE OpenPart
    <3>1. UNCHANGED enc /\ sink' = [sink EXCEPT !.part = PartOf(sink.index), !.proc = "running"]
      BY <2>5 DEF OpenPart
    <3>2. PartOf(sink.index) \in Nat
      BY <1>1, ConstantTypes DEF PartOf
    <3>3. SinkTyped(sink')
      BY <1>1, <3>1, <3>2 DEF SinkTyped, Procs
    <3>4. QED
      BY <1>2, <3>1, <3>3
  <2>6. CASE Write
    <3>1. /\ enc.pc = "writing" /\ enc' = [pc |-> "waiting", item |-> NoFrame]
          /\ sink' = [sink EXCEPT !.index = @ + 1]
      BY <2>6 DEF Write
    <3>2. sink.index + 1 \in 0 .. Actual
      <4>1. Given = sink.index + 1 /\ sent - Given \in Nat
        BY <3>1 DEF IInv, Handed, Working, Given
      <4>2. sent \in Nat /\ sent <= Actual
        BY Types DEF IInv
      <4>3. QED
        BY <1>1, <4>1, <4>2
    <3>3. SinkTyped(sink')
      BY <1>1, <3>1, <3>2 DEF SinkTyped
    <3>4. QED
      BY <1>3, <3>1, <3>3
  <2>7. CASE ProcFails \/ (Abandon /\ sink' # NoProc)
    <3>1. /\ UNCHANGED enc /\ sink.proc = "running"
          /\ \E state \in {"dead", "wedged", "lingering"} : sink' = [sink EXCEPT !.proc = state]
      BY <2>7 DEF ProcFails, Abandon
    <3>2. SinkTyped(sink')
      BY <1>1, <3>1 DEF SinkTyped, Procs
    <3>3. QED
      BY <1>2, <3>1, <3>2
  <2>8. CASE UNCHANGED <<enc, sink>>
    BY <1>2, <2>8
  <2>9. QED
    BY <2>1, <2>2, <2>3, <2>4, <2>5, <2>6, <2>7, <2>8, PartMoves
<1>7. QED
  BY <1>6

LEMMA FaultTypes ==
  ASSUME IInv, Next
  PROVE  faults' \in 0 .. MaxFaults
<1>1. faults \in 0 .. MaxFaults /\ MaxFaults \in Nat
  BY Types, ConstantTypes DEF IInv
<1>2. UNCHANGED faults \/ (faults < MaxFaults /\ faults' = faults + 1)
  <2>1. CASE DecodeStep
    BY <2>1 DEF DecodeStep, Decode, DecodeEnds, DecodeDone, DecodeRaises
  <2>2. CASE DecodeDies \/ InferRaises \/ ProcFails
    BY <2>2 DEF DecodeDies, InferRaises, ProcFails, Fault
  <2>3. CASE Load \/ Loaded \/ Fill \/ FillRaises \/ Filled
    BY <2>3 DEF Load, Loaded, Fill, FillRaises, Filled, Take
  <2>4. CASE Infer \/ Emit \/ EmitRaises \/ EmitDone
    BY <2>4 DEF Infer, Emit, EmitRaises, EmitDone
  <2>5. CASE Sentinel \/ Flushed \/ Stalls \/ Check \/ CloseLast \/ Abandon
    BY <2>5 DEF Sentinel, Flushed, Stalls, Check, CloseLast, Abandon, Fault
  <2>6. CASE CloseLastRaises \/ SwitchRaises
    BY <2>6 DEF CloseLastRaises, SwitchRaises, ClosesBadly, Fault
  <2>7. CASE EncodeTake \/ SwitchPart \/ SwitchTimesOut \/ OpenPart \/ Write \/ WriteRaises
    BY <2>7 DEF EncodeTake, SwitchPart, SwitchTimesOut, OpenPart, Write, WriteRaises
  <2>8. QED
    BY <2>1, <2>2, <2>3, <2>4, <2>5, <2>6, <2>7 DEF Next, MainStep, EncodeStep
<1>3. QED
  BY <1>1, <1>2

LEMMA MainTypes ==
  ASSUME IInv, Next
  PROVE  pc' \in MainPCs /\ crash' \in BOOLEAN /\ stuck' \in BOOLEAN
<1>1. pc \in MainPCs /\ crash \in BOOLEAN /\ stuck \in BOOLEAN
  BY Types DEF IInv
<1>2. CASE Loaded \/ Filled \/ Infer \/ EmitDone
  BY <1>1, <1>2 DEF Loaded, Filled, Infer, EmitDone, ending, MainPCs
<1>3. CASE FillRaises \/ InferRaises \/ EmitRaises
  BY <1>1, <1>3 DEF FillRaises, InferRaises, EmitRaises, Crash, MainPCs
<1>4. CASE Sentinel \/ Flushed \/ Stalls \/ Check
  BY <1>1, <1>4 DEF Sentinel, Flushed, Stalls, Check, ending, MainPCs
<1>5. CASE CloseLast \/ CloseLastRaises \/ Abandon
  BY <1>1, <1>5 DEF CloseLast, CloseLastRaises, Abandon, ending, MainPCs
<1>6. CASE UNCHANGED <<pc, crash, stuck>>
  BY <1>1, <1>6
<1>7. QED
  BY <1>2, <1>3, <1>4, <1>5, <1>6, MainMoves

LEMMA TypeStep ==
  ASSUME IInv, Next
  PROVE  TypeOK'
<1>1. UNCHANGED <<total, first, cuts, plan>>
  BY SourceStep
<1>2. Depth' = Depth
  BY <1>1 DEF Depth
<1>3. /\ total' \in Totals /\ first' \in 0 .. Actual /\ cuts' \in CutSets
  BY <1>1 DEF IInv, TypeOK
<1>4. /\ dec' \in [pc: DecPCs, next: 0 .. Actual]
      /\ qIn' \in Seq(Frames \cup {Done}) /\ Len(qIn') <= Depth'
      /\ read' \in 0 .. Actual /\ eof' \in BOOLEAN
  BY <1>2, InputTypes
<1>5. /\ {hist, buf, todo}' \subseteq Seq(Frames) /\ pos' \in 0 .. Actual
      /\ seg' \in 1 .. Len(plan') + 1 /\ sent' \in 0 .. Actual
      /\ qOut' \in Seq(Frames \cup {Done}) /\ Len(qOut') <= Depth'
  BY <1>2, GatherTypes, OutputTypes
<1>6. pc' \in MainPCs /\ crash' \in BOOLEAN /\ stuck' \in BOOLEAN
  BY MainTypes
<1>7. QED
  BY <1>3, <1>4, <1>5, <1>6, FaultTypes, PartTypes DEF TypeOK
-----------------------------------------------------------------------------
LEMMA IInvStep == IInv /\ [Next]_vars => IInv'
<1> SUFFICES ASSUME IInv, [Next]_vars PROVE IInv'
  OBVIOUS
<1>1. CASE Next
  <2>1. PlanOf'
    BY PlanOfStep DEF IInv
  <2>2. QED
    BY <1>1, <2>1, TypeStep, FedStep, GatheredStep, PlacedStep, OwedStep, HandedStep, ToldStep,
       EndedStep DEF IInv
<1>2. CASE UNCHANGED vars
  <2>1. /\ UNCHANGED <<total, first, cuts, plan, dec, qIn, qOut, pc, hist, buf, read, pos, seg>>
        /\ UNCHANGED <<eof, todo, sent, crash, stuck, enc, sink, faults>>
    BY <1>2 DEF vars, source, gather, ending
  <2>2. TypeOK'
    BY <2>1 DEF IInv, TypeOK, Depth
  <2>3. PlanOf'
    BY PlanOfStep DEF IInv
  <2>4. Fed' /\ Gathered' /\ Owed'
    BY <2>1 DEF IInv, Fed, Unfed, Gathered, Owed
  <2>5. Placed' /\ Ready'
    BY <2>1 DEF IInv, Placed, Ready, Planned, Short, Want
  <2>6. Handed' /\ Told' /\ Ended'
    BY <2>1 DEF IInv, Handed, Told, Ended, Working, Given, Alive
  <2>7. QED
    BY <2>2, <2>3, <2>4, <2>5, <2>6 DEF IInv
<1>3. QED
  BY <1>1, <1>2

(* Every variable keeps its type, and the queues their bound.              *)
THEOREM TypeCorrect == Spec => []TypeOK
<1>1. IInv => TypeOK
  BY DEF IInv
<1>2. QED
  BY <1>1, InitInv, IInvStep, PTL DEF Spec

(* The compositor is given the frames in order, none twice and none left   *)
(* out, whatever fails (tests/test_video_order.py).                        *)
THEOREM InOrderCorrect == Spec => []InOrder
<1>1. IInv => InOrder
  BY DEF IInv, Handed, Working, InOrder
<1>2. QED
  BY <1>1, InitInv, IInvStep, PTL DEF Spec

(* The model is given the block the plan names for each segment, whichever *)
(* part a run resumes from (tests/test_resume.py).                         *)
THEOREM SameBlocksCorrect == Spec => []SameBlocks
<1>1. QED
  BY SameBlocksInv, InitInv, IInvStep, PTL DEF Spec

(* A run that joins its parts has written every frame that was decoded.    *)
THEOREM DeliveredCorrect == Spec => []Delivered
<1>1. IInv => Delivered
  <2> SUFFICES ASSUME IInv, pc = "joined"
               PROVE  sink.index = dec.next /\ dec.next = read /\ ~Alive
    BY DEF Delivered
  <2>1. ~Alive /\ eof /\ sink.index = read
    BY DEF IInv, Ended
  <2>2. dec.next = read
    BY <2>1 DEF IInv, Fed
  <2>3. QED
    BY <2>1, <2>2
<1>2. QED
  BY <1>1, InitInv, IInvStep, PTL DEF Spec

(* The main thread closes and drops parts only when the thread that writes *)
(* them has ended, unless an ffmpeg may neither take frames nor exit.      *)
THEOREM SinkAloneCorrect ==
  ASSUME "wedged" \notin Env
  PROVE  Spec => []SinkAlone
<1>1. IInv => SinkAlone
  <2> SUFFICES ASSUME IInv, pc \in {"closing", "abandoning"}, sink.proc # "none"
               PROVE  ~Alive
    BY DEF SinkAlone
  <2>1. pc = "closing" => ~Alive
    BY DEF IInv, Ended
  <2>2. pc = "abandoning" => ~Working /\ enc.pc # "closing"
    BY DEF IInv, Told
  <2>3. enc.pc \in EncPCs
    BY EncTypes
  <2>4. QED
    BY <2>1, <2>2, <2>3 DEF Alive, Working, EncPCs
<1>2. QED
  BY <1>1, InitInv, IInvStep, PTL DEF Spec
=============================================================================

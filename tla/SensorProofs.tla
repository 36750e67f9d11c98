---------------------------- MODULE SensorProofs -----------------------------
(***************************************************************************)
(* Proofs about what is measured: the weight of a shot, for any number of  *)
(* samples, any gain, any times and any load; and the frames of the        *)
(* temperature sensor, for any value, any clock of the sensor and any      *)
(* stub of a pulse.                                                        *)
(***************************************************************************)
EXTENDS Device, FiniteSetTheorems, SequenceTheorems, NaturalsInduction, WellFoundedInduction, TLAPS

(* The scale takes a step of its own, or stays as it is. *)
LEMMA ScaleStep == [DeviceNext]_deviceVars => [Scl!Next]_scaleVars
PROOF
<1>1. CASE UNCHANGED deviceVars
  BY <1>1 DEF deviceVars
<1>2. CASE DeviceNext
  <2>1. live = "scale" \/ UNCHANGED scaleVars
    BY <1>2 DEF DeviceNext, Idle
  <2>2. live = "scale" => Scl!Next
    BY <1>2 DEF DeviceNext
  <2> QED BY <2>1, <2>2
<1> QED BY <1>1, <1>2

-----------------------------------------------------------------------------
(* Products and quotients. *)
LEMMA ProductGrows ==
  ASSUME NEW b \in Nat, NEW x \in Int, NEW y \in Int, x <= y
  PROVE  b * x \in Int /\ b * y \in Int /\ b * x <= b * y
PROOF
<1>1. PICK d \in Nat : y = x + d
  <2>1. y - x \in Nat /\ y = x + (y - x)
    OBVIOUS
  <2> QED BY <2>1
<1>2. b * d \in Nat /\ b * x \in Int
  OBVIOUS
<1>3. b * y = b * x + b * d
  BY <1>1
<1> QED BY <1>2, <1>3

LEMMA QuotientIs ==
  ASSUME NEW a \in Int, NEW b \in Nat \ {0}
  PROVE  LET q == a \div b IN q \in Int /\ b * q <= a /\ a < b * q + b
PROOF
<1>1. a \div b \in Int
  OBVIOUS
<1>2. a = b * (a \div b) + (a % b) /\ a % b \in 0 .. b - 1
  OBVIOUS
<1>3. PICK p \in Int : p = b * (a \div b)
  BY <1>1
<1> QED BY <1>1, <1>2, <1>3

LEMMA QuotientAtMost ==
  ASSUME NEW a \in Int, NEW b \in Nat \ {0}, NEW q \in Int, a < b * q + b
  PROVE  a \div b <= q
PROOF
<1>1. PICK d \in Int : d = a \div b /\ b * d <= a
  BY QuotientIs
<1>2. SUFFICES ASSUME q + 1 <= d PROVE FALSE
  BY <1>1
<1>3. b * (q + 1) <= b * d
  BY <1>2, ProductGrows
<1>4. b * (q + 1) = b * q + b /\ b * q \in Int /\ b * d \in Int
  OBVIOUS
<1> QED BY <1>1, <1>3, <1>4

LEMMA QuotientAtLeast ==
  ASSUME NEW a \in Int, NEW b \in Nat \ {0}, NEW q \in Int, b * q <= a
  PROVE  q <= a \div b
PROOF
<1>1. PICK d \in Int : d = a \div b /\ a < b * d + b
  BY QuotientIs
<1>2. SUFFICES ASSUME d + 1 <= q PROVE FALSE
  BY <1>1
<1>3. b * (d + 1) <= b * q
  BY <1>2, ProductGrows
<1>4. b * (d + 1) = b * d + b /\ b * q \in Int /\ b * d \in Int
  OBVIOUS
<1> QED BY <1>1, <1>3, <1>4

-----------------------------------------------------------------------------
(* The sum of a window, which is defined by recursion, lies between as     *)
(* many times its least value and as many times its greatest.              *)
SumsOf(seq, n, f) == f = [k \in 0 .. n |-> IF k = 0 THEN 0 ELSE f[k - 1] + seq[k]]

(* What holds of zero and goes on holds of every number. *)
LEMMA NoLeastFailure ==
  ASSUME NEW Fails, Fails \subseteq Nat, 0 \notin Fails,
         \A n \in Nat : n + 1 \in Fails => n \in Fails
  PROVE  Fails = {}
PROOF
<1> SUFFICES ASSUME Fails # {} PROVE FALSE
  OBVIOUS
<1>1. PICK n \in Fails : \A y \in Fails : ~(<<y, n>> \in OpToRel(<, Nat))
  BY NatLessThanWellFounded, WFMin
<1>2. PICK m \in Nat : n = m + 1
  <2>1. n \in Nat /\ n # 0
    BY <1>1
  <2>2. n - 1 \in Nat /\ n = (n - 1) + 1
    BY <2>1
  <2> QED BY <2>2
<1>3. m \in Fails /\ m < n
  <2>1. m + 1 \in Fails
    BY <1>1, <1>2
  <2>2. m \in Fails
    BY <1>2, <2>1, Zenon
  <2> QED BY <1>2, <2>2
<1>4. <<m, n>> \in OpToRel(<, Nat)
  BY <1>2, <1>3, Zenon DEF OpToRel
<1> QED BY <1>1, <1>3, <1>4

LEMMA SumsExist ==
  ASSUME NEW seq, NEW n \in Nat
  PROVE  \E f : SumsOf(seq, n, f)
PROOF
<1> DEFINE Fails == {m \in Nat : ~\E f : SumsOf(seq, m, f)}
<1>1. 0 \notin Fails
  <2>1. SumsOf(seq, 0, [k \in 0 .. 0 |-> 0])
    BY DEF SumsOf
  <2> QED BY <2>1
<1>2. ASSUME NEW m \in Nat, m \notin Fails PROVE m + 1 \notin Fails
  <2>1. PICK f : SumsOf(seq, m, f)
    BY <1>2
  <2> DEFINE g == [k \in 0 .. m + 1 |-> IF k = m + 1 THEN f[m] + seq[m + 1] ELSE f[k]]
  <2>2. SumsOf(seq, m + 1, g)
    BY <2>1 DEF SumsOf
  <2> QED BY <2>2
<1> HIDE DEF Fails
<1>3. Fails \subseteq Nat
  BY DEF Fails
<1>4. Fails = {}
  BY <1>1, <1>2, <1>3, NoLeastFailure
<1> QED BY <1>4 DEF Fails

LEMMA SumIs ==
  ASSUME NEW seq, Len(seq) \in Nat
  PROVE  \E f : SumsOf(seq, Len(seq), f) /\ Scl!Sum(seq) = f[Len(seq)]
PROOF
<1> DEFINE f == CHOOSE g : SumsOf(seq, Len(seq), g)
<1>1. SumsOf(seq, Len(seq), f)
  BY SumsExist
<1>2. Scl!Sum(seq) = f[Len(seq)]
  BY Zenon DEF Scl!Sum, SumsOf
<1> QED BY <1>1, <1>2

LEMMA SumBounds ==
  ASSUME NEW seq, Len(seq) \in Nat, NEW lo \in Int, NEW hi \in Int,
         \A i \in 1 .. Len(seq) : seq[i] \in Int /\ lo <= seq[i] /\ seq[i] <= hi
  PROVE  LET sum == Scl!Sum(seq)
         IN  sum \in Int /\ Len(seq) * lo <= sum /\ sum <= Len(seq) * hi
PROOF
<1>1. PICK f : SumsOf(seq, Len(seq), f) /\ Scl!Sum(seq) = f[Len(seq)]
  BY SumIs
<1> DEFINE Good(n) == f[n] \in Int /\ n * lo <= f[n] /\ f[n] <= n * hi
           Fails == {n \in 0 .. Len(seq) : ~Good(n)}
<1>2. 0 \notin Fails
  BY <1>1 DEF SumsOf
<1>3. ASSUME NEW n \in Nat, n + 1 \in Fails PROVE n \in Fails
  <2> SUFFICES ASSUME Good(n) PROVE Good(n + 1)
    BY <1>3
  <2>1. n + 1 \in 1 .. Len(seq)
    BY <1>3
  <2>2. f[n + 1] = f[n] + seq[n + 1]
    BY <1>1, <2>1 DEF SumsOf
  <2>3. (n + 1) * lo = n * lo + lo /\ (n + 1) * hi = n * hi + hi
        /\ n * lo \in Int /\ n * hi \in Int
    OBVIOUS
  <2> QED BY <2>1, <2>2, <2>3
<1>4. Fails = {}
  <2>1. Fails \subseteq Nat
    OBVIOUS
  <2> HIDE DEF Fails
  <2> QED BY <1>2, <1>3, <2>1, NoLeastFailure
<1>5. Good(Len(seq))
  BY <1>4
<1> QED BY <1>1, <1>5

-----------------------------------------------------------------------------
IsWindow(window) ==
  window \in Seq(0 .. MaxLoad) /\ Len(window) <= Samples
Within(window, lo, hi) == \A i \in 1 .. Len(window) : lo <= window[i] /\ window[i] <= hi

LEMMA MeanBounds ==
  ASSUME NEW window, IsWindow(window), window # <<>>,
         NEW lo \in Int, NEW hi \in Int, Within(window, lo, hi)
  PROVE  LET m == Scl!Mean(window) IN m \in Int /\ Gain * lo <= m /\ m <= Gain * hi
PROOF
<1>1. PICK n \in Nat \ {0} : n = Len(window)
  <2>1. Len(window) \in Nat /\ Len(window) > 0
    BY EmptySeq DEF IsWindow
  <2> QED BY <2>1
<1>2. PICK sum \in Int : sum = Scl!Sum(window) /\ n * lo <= sum /\ sum <= n * hi
  <2>1. \A i \in 1 .. Len(window) : window[i] \in Int
    <3>1. \A i \in 1 .. Len(window) : window[i] \in 0 .. MaxLoad
      BY ElementOfSeq DEF IsWindow
    <3> QED BY <3>1
  <2> QED BY <1>1, <2>1, SumBounds DEF Within
<1>3. Gain \in Nat \ {0}
  BY DeviceConstants DEF Scl!ScaleConstants
<1>4. Scl!Mean(window) = (Gain * sum) \div n
  BY <1>1, <1>2 DEF Scl!Mean
<1>5. /\ Gain * (n * lo) <= Gain * sum /\ Gain * sum <= Gain * (n * hi)
      /\ n * lo \in Int /\ n * hi \in Int
  <2>1. n * lo \in Int /\ n * hi \in Int
    OBVIOUS
  <2> QED BY <1>2, <1>3, <2>1, ProductGrows
<1>6. Gain * (n * lo) = n * (Gain * lo) /\ Gain * (n * hi) = n * (Gain * hi)
  BY <1>3
<1>7. PICK total \in Int, least \in Int, most \in Int :
        total = Gain * sum /\ least = Gain * lo /\ most = Gain * hi
  BY <1>3
<1>8. n * least <= total /\ total <= n * most /\ n * most \in Int
  BY <1>5, <1>6, <1>7
<1>9. least <= total \div n
  BY <1>8, QuotientAtLeast
<1>10. total \div n <= most
  BY <1>8, QuotientAtMost
<1>11. total \div n \in Int
  OBVIOUS
<1> QED BY <1>4, <1>7, <1>9, <1>10, <1>11

(* A reading replaces the oldest one of a window that is full. *)
LEMMA PushIsWindow ==
  ASSUME NEW window, IsWindow(window), NEW r \in 0 .. MaxLoad
  PROVE  LET new == Scl!Push(window, r)
         IN  /\ IsWindow(new) /\ new # <<>>
             /\ \A lo, hi \in Int : Within(window, lo, hi) /\ lo <= r /\ r <= hi => Within(new, lo, hi)
PROOF
<1>1. PICK kept : kept = (IF Len(window) >= Samples THEN Tail(window) ELSE window)
  OBVIOUS
<1>2. Len(window) \in Nat /\ Samples \in Nat \ {0}
  BY DeviceConstants DEF Scl!ScaleConstants, IsWindow
<1>3. /\ kept \in Seq(0 .. MaxLoad) /\ Len(kept) < Samples
      /\ \A lo, hi \in Int : Within(window, lo, hi) => Within(kept, lo, hi)
  <2>1. CASE Len(window) >= Samples
    <3>1. window # <<>> /\ kept = Tail(window)
      BY <1>1, <1>2, <2>1, EmptySeq
    <3>2. /\ kept \in Seq(0 .. MaxLoad) /\ Len(kept) = Len(window) - 1
          /\ \A i \in 1 .. Len(kept) : kept[i] = window[i + 1]
      BY <3>1, HeadTailProperties DEF IsWindow
    <3>3. \A i \in 1 .. Len(kept) : i + 1 \in 1 .. Len(window)
      BY <1>2, <3>2
    <3> QED BY <1>2, <3>2, <3>3 DEF Within, IsWindow
  <2>2. CASE ~(Len(window) >= Samples)
    BY <1>1, <1>2, <2>2 DEF IsWindow
  <2> QED BY <2>1, <2>2
<1>4. PICK new : new = Append(kept, r)
  OBVIOUS
<1>5. /\ new \in Seq(0 .. MaxLoad) /\ Len(new) = Len(kept) + 1 /\ new # <<>>
      /\ \A i \in 1 .. Len(kept) : new[i] = kept[i]
      /\ new[Len(kept) + 1] = r
  BY <1>3, <1>4, AppendProperties
<1>6. Len(kept) \in Nat
  BY <1>3
<1>7. IsWindow(new)
  BY <1>2, <1>3, <1>5, <1>6 DEF IsWindow
<1>8. ASSUME NEW lo \in Int, NEW hi \in Int, Within(window, lo, hi), lo <= r, r <= hi
      PROVE  Within(new, lo, hi)
  <2>1. Within(kept, lo, hi)
    BY <1>3, <1>8
  <2>2. \A i \in 1 .. Len(new) : i \in 1 .. Len(kept) \/ i = Len(kept) + 1
    BY <1>5, <1>6
  <2> QED BY <1>5, <1>8, <2>1, <2>2 DEF Within
<1>9. Scl!Push(window, r) = new
  BY <1>1, <1>4 DEF Scl!Push
<1> QED BY <1>5, <1>7, <1>8, <1>9

-----------------------------------------------------------------------------
(* The scale: a calibration that waits for its tare has asked for one, or  *)
(* had one since it began.                                                 *)
Phases == {"idle", "taring", "placing", "done", "failed"}
Scales(window, zeroAt, grams, factor, left) ==
  [window : {window}, tare : {zeroAt}, grams : {grams}, tarePending : BOOLEAN,
   calibration : [at : Phases, left : {left}], factor : {factor}, ownTare : BOOLEAN]
IsScale(s) ==
  \E window, zeroAt, grams, factor, left : s \in Scales(window, zeroAt, grams, factor, left)
OwnTareOf(s) ==
  /\ s.calibration.at = "taring" => s.tarePending = TRUE \/ s.ownTare = TRUE
  /\ s.calibration.at \in {"placing", "done"} => s.ownTare = TRUE
ScaleInv == IsScale(scale) /\ OwnTareOf(scale)

(* A step of the calibration leaves the readings and the tare alone.       *)
LEMMA AdvanceKeeps ==
  ASSUME NEW s, IsScale(s), OwnTareOf(s), s.tarePending = FALSE
  PROVE  LET a == Scl!AdvanceCalibration(s)
         IN  IsScale(a) /\ OwnTareOf(a) /\ a.window = s.window /\ a.tare = s.tare
PROOF
<1>1. PICK window, zeroAt, grams, factor, left : s \in Scales(window, zeroAt, grams, factor, left)
  BY DEF IsScale
<1>2. s.calibration.at \in Phases /\ s.ownTare \in BOOLEAN
  BY <1>1 DEF Scales
<1>3. PICK new : new = (Scl!Mean(s.window) - s.tare) \div KnownWeight
  OBVIOUS
<1>4. CASE s.calibration.left > 0
  <2>1. Scl!AdvanceCalibration(s) = s
    BY <1>4 DEF Scl!AdvanceCalibration
  <2> QED BY <2>1
<1>5. CASE ~(s.calibration.left > 0)
  <2>1. CASE s.calibration.at = "taring"
    <3>1. PICK place : place = CalibrationPlace
      OBVIOUS
    <3>2. Scl!AdvanceCalibration(s) = [s EXCEPT !.calibration = [at |-> "placing", left |-> place]]
      BY <1>5, <2>1, <3>1 DEF Scl!AdvanceCalibration
    <3> DEFINE a == [s EXCEPT !.calibration = [at |-> "placing", left |-> place]]
    <3>3. a \in Scales(window, zeroAt, grams, factor, place)
      BY <1>1 DEF Scales, Phases
    <3>4. a.calibration.at = "placing" /\ a.ownTare = s.ownTare
          /\ a.window = s.window /\ a.tare = s.tare
      BY <1>1 DEF Scales
    <3> HIDE DEF a
    <3>5. IsScale(a)
      BY <3>3 DEF IsScale
    <3>6. OwnTareOf(a)
      BY <2>1, <3>4 DEF OwnTareOf
    <3> QED BY <3>2, <3>4, <3>5, <3>6 DEF a
  <2>2. CASE s.calibration.at = "placing" /\ new # 0
    <3>2. Scl!AdvanceCalibration(s) =
            [s EXCEPT !.calibration = [at |-> "done", left |-> 0], !.factor = new]
      BY <1>3, <1>5, <2>2 DEF Scl!AdvanceCalibration
    <3> DEFINE a == [s EXCEPT !.calibration = [at |-> "done", left |-> 0], !.factor = new]
    <3>3. a \in Scales(window, zeroAt, grams, new, 0)
      BY <1>1 DEF Scales, Phases
    <3>4. a.calibration.at = "done" /\ a.ownTare = s.ownTare
          /\ a.window = s.window /\ a.tare = s.tare
      BY <1>1 DEF Scales
    <3> HIDE DEF a
    <3>5. IsScale(a)
      BY <3>3 DEF IsScale
    <3>6. OwnTareOf(a)
      BY <2>2, <3>4 DEF OwnTareOf
    <3> QED BY <3>2, <3>4, <3>5, <3>6 DEF a
  <2>3. CASE s.calibration.at = "placing" /\ new = 0
    <3>2. Scl!AdvanceCalibration(s) = [s EXCEPT !.calibration = [at |-> "failed", left |-> 0]]
      BY <1>3, <1>5, <2>3 DEF Scl!AdvanceCalibration
    <3> DEFINE a == [s EXCEPT !.calibration = [at |-> "failed", left |-> 0]]
    <3>3. a \in Scales(window, zeroAt, grams, factor, 0)
      BY <1>1 DEF Scales, Phases
    <3>4. a.calibration.at = "failed" /\ a.window = s.window /\ a.tare = s.tare
      BY <1>1 DEF Scales
    <3> HIDE DEF a
    <3>5. IsScale(a)
      BY <3>3 DEF IsScale
    <3>6. OwnTareOf(a)
      BY <3>4 DEF OwnTareOf
    <3> QED BY <3>2, <3>4, <3>5, <3>6 DEF a
  <2>4. CASE s.calibration.at \notin {"taring", "placing"}
    <3>1. Scl!AdvanceCalibration(s) = s
      BY <1>5, <2>4 DEF Scl!AdvanceCalibration
    <3> QED BY <3>1
  <2> QED BY <2>1, <2>2, <2>3, <2>4
<1> QED BY <1>4, <1>5

(* A reading of the load cells: whoever waits for a tare gets it. *)
LEMMA CountsKeep ==
  ASSUME NEW s, IsScale(s), OwnTareOf(s), NEW r
  PROVE  LET w == Scl!Push(s.window, r)
             a == Scl!OnCounts(s, r)
         IN  /\ IsScale(a) /\ OwnTareOf(a)
             /\ a.window = w /\ a.tare \in {s.tare, Scl!Mean(w)}
             /\ a.grams = Scl!Grams(Scl!Mean(w) - a.tare, a.factor)
PROOF
<1>1. PICK window, zeroAt, grams, factor, left : s \in Scales(window, zeroAt, grams, factor, left)
  BY DEF IsScale
<1>2. PICK w : w = Scl!Push(s.window, r)
  OBVIOUS
<1>3. PICK t : t = (IF s.tarePending THEN Scl!Mean(w) ELSE s.tare)
  OBVIOUS
<1>4. PICK own \in BOOLEAN : own = (s.ownTare \/ s.tarePending)
  OBVIOUS
<1> DEFINE tared == [s EXCEPT !.window = w, !.tare = t, !.tarePending = FALSE, !.ownTare = own]
           next == Scl!AdvanceCalibration(tared)
           shown == Scl!Grams(Scl!Mean(w) - next.tare, next.factor)
<1>5. Scl!OnCounts(s, r) = [next EXCEPT !.grams = shown]
  BY <1>2, <1>3, <1>4, Zenon DEF Scl!OnCounts
<1>6. tared \in Scales(w, t, grams, factor, left)
  BY <1>1 DEF Scales
<1>7. /\ tared.tarePending = FALSE /\ tared.ownTare = own
      /\ tared.calibration = s.calibration
      /\ tared.window = w /\ tared.tare = t
  BY <1>1 DEF Scales
<1>8. /\ s.tarePending \in BOOLEAN /\ s.ownTare \in BOOLEAN
      /\ s.tarePending = TRUE \/ s.ownTare = TRUE => own = TRUE
  BY <1>1, <1>4 DEF Scales
<1> HIDE DEF tared, shown
<1>9. IsScale(tared) /\ OwnTareOf(tared)
  <2>1. IsScale(tared)
    BY <1>6 DEF IsScale
  <2>2. OwnTareOf(tared)
    BY <1>7, <1>8 DEF OwnTareOf
  <2> QED BY <2>1, <2>2
<1>10. IsScale(next) /\ OwnTareOf(next) /\ next.window = w /\ next.tare = t
  BY <1>7, <1>9, AdvanceKeeps
<1> HIDE DEF next
<1>11. LET a == [next EXCEPT !.grams = shown]
       IN  IsScale(a) /\ OwnTareOf(a) /\ a.window = w /\ a.tare = t /\ a.factor = next.factor
           /\ a.grams = shown
  <2> DEFINE a == [next EXCEPT !.grams = shown]
  <2>1. PICK window2, zeroAt2, grams2, factor2, left2 :
          next \in Scales(window2, zeroAt2, grams2, factor2, left2)
    BY <1>10 DEF IsScale
  <2>2. a \in Scales(window2, zeroAt2, shown, factor2, left2)
    BY <2>1 DEF Scales
  <2>3. /\ a.calibration = next.calibration /\ a.tarePending = next.tarePending
        /\ a.ownTare = next.ownTare
        /\ a.window = w /\ a.tare = t /\ a.factor = next.factor /\ a.grams = shown
    BY <1>10, <2>1 DEF Scales
  <2> HIDE DEF a
  <2>4. IsScale(a)
    BY <2>2 DEF IsScale
  <2>5. OwnTareOf(a)
    BY <1>10, <2>3 DEF OwnTareOf
  <2> QED BY <2>3, <2>4, <2>5 DEF a
<1>12. PICK a : a = [next EXCEPT !.grams = shown]
  OBVIOUS
<1>13. a.grams = Scl!Grams(Scl!Mean(w) - a.tare, a.factor)
  BY <1>10, <1>11, <1>12 DEF shown
<1> QED BY <1>2, <1>3, <1>5, <1>11, <1>12, <1>13

LEMMA ScaleSteps ==
  ASSUME ScaleInv, [Scl!Next]_scaleVars
  PROVE  ScaleInv'
PROOF
<1>1. PICK window, zeroAt, grams, factor, left :
        scale \in Scales(window, zeroAt, grams, factor, left)
  BY DEF ScaleInv, IsScale
<1>2. /\ scale.tarePending \in BOOLEAN /\ scale.ownTare \in BOOLEAN
      /\ OwnTareOf(scale)
  BY <1>1 DEF Scales, ScaleInv
<1>3. ASSUME NEW a, IsScale(a), OwnTareOf(a), scale' = a PROVE ScaleInv'
  BY <1>3, Zenon DEF ScaleInv, IsScale, OwnTareOf
<1>4. CASE scale' = scale
  BY <1>3, <1>4 DEF ScaleInv
<1>5. CASE Scl!ToggleScaleTare
  <2>1. PICK asked \in BOOLEAN : asked = (scale.tarePending \/ ~bluetooth)
    OBVIOUS
  <2> DEFINE a == [scale EXCEPT !.tarePending = asked]
  <2>2. scale' = a
    BY <1>5, <2>1 DEF Scl!ToggleScaleTare
  <2>3. a \in Scales(window, zeroAt, grams, factor, left)
    BY <1>1 DEF Scales
  <2>4. /\ a.calibration = scale.calibration /\ a.ownTare = scale.ownTare
        /\ a.tarePending = asked
    BY <1>1 DEF Scales
  <2> HIDE DEF a
  <2>5. IsScale(a)
    BY <2>3 DEF IsScale
  <2>6. OwnTareOf(a)
    BY <1>2, <2>1, <2>4 DEF OwnTareOf
  <2> QED BY <1>3, <2>2, <2>5, <2>6
<1>6. CASE scale' = [scale EXCEPT !.calibration = Scl!Idle]
  <2> DEFINE a == [scale EXCEPT !.calibration = [at |-> "idle", left |-> 0]]
  <2>1. scale' = a
    BY <1>6 DEF Scl!Idle
  <2>2. a \in Scales(window, zeroAt, grams, factor, 0) /\ a.calibration.at = "idle"
    BY <1>1 DEF Scales, Phases
  <2> HIDE DEF a
  <2>3. IsScale(a)
    BY <2>2 DEF IsScale
  <2>4. OwnTareOf(a)
    BY <2>2 DEF OwnTareOf
  <2> QED BY <1>3, <2>1, <2>3, <2>4
<1>7. CASE scale' = Scl!StartCalibration
  <2>1. PICK time : time = CalibrationTare
    OBVIOUS
  <2> DEFINE a == [scale EXCEPT !.tarePending = TRUE, !.ownTare = FALSE,
                                !.calibration = [at |-> "taring", left |-> time]]
  <2>2. scale' = a
    BY <1>7, <2>1 DEF Scl!StartCalibration
  <2>3. /\ a \in Scales(window, zeroAt, grams, factor, time)
        /\ a.calibration.at = "taring" /\ a.tarePending = TRUE
    BY <1>1 DEF Scales, Phases
  <2> HIDE DEF a
  <2>4. IsScale(a)
    BY <2>3 DEF IsScale
  <2>5. OwnTareOf(a)
    BY <2>3 DEF OwnTareOf
  <2> QED BY <1>3, <2>2, <2>4, <2>5
<1>8. CASE Scl!ToggleScaleCalibration
  <2>1. \/ scale' = [scale EXCEPT !.calibration = Scl!Idle]
        \/ scale' = Scl!StartCalibration
        \/ scale' = scale
    BY <1>8 DEF Scl!ToggleScaleCalibration
  <2> QED BY <1>4, <1>6, <1>7, <2>1
<1>9. CASE Scl!Clock
  <2>1. PICK time : time = Scl!Down(scale.calibration.left)
    OBVIOUS
  <2> DEFINE a == [scale EXCEPT !.calibration.left = time]
  <2>2. scale' = a
    BY <1>9, <2>1 DEF Scl!Clock
  <2>3. /\ a \in Scales(window, zeroAt, grams, factor, time)
        /\ a.calibration.at = scale.calibration.at /\ a.tarePending = scale.tarePending
        /\ a.ownTare = scale.ownTare
    BY <1>1 DEF Scales
  <2> HIDE DEF a
  <2>4. IsScale(a)
    BY <2>3 DEF IsScale
  <2>5. OwnTareOf(a)
    BY <1>2, <2>3 DEF OwnTareOf
  <2> QED BY <1>3, <2>2, <2>4, <2>5
<1>10. ASSUME NEW active \in BOOLEAN, Scl!CellsTick(active) PROVE ScaleInv'
  <2>1. scale' = Scl!OnCounts(scale, load)
    BY <1>10, Zenon DEF Scl!CellsTick, Scl!TickWith
  <2>2. IsScale(scale)
    BY DEF ScaleInv
  <2>3. /\ IsScale(Scl!OnCounts(scale, load))
        /\ OwnTareOf(Scl!OnCounts(scale, load))
    BY <1>2, <2>2, CountsKeep
  <2>4. PICK a : a = Scl!OnCounts(scale, load)
    OBVIOUS
  <2> QED BY <1>3, <2>1, <2>3, <2>4
<1>11. ASSUME NEW active \in BOOLEAN, Scl!NoReadingTick(active) PROVE ScaleInv'
  <2>1. scale' = scale
    BY <1>11, Zenon DEF Scl!NoReadingTick, Scl!TickWith
  <2> QED BY <1>4, <2>1
<1>12. ASSUME NEW active \in BOOLEAN, NEW auto \in BOOLEAN, Scl!BleTick(active, auto)
       PROVE  ScaleInv'
  <2>1. scale' = Scl!OnGrams(scale, weighed)
    BY <1>12, Zenon DEF Scl!BleTick, Scl!TickWith
  <2>2. CASE scale' # scale
    <3> DEFINE a == [scale EXCEPT !.grams = weighed]
    <3>1. scale' = a
      BY <2>1, <2>2 DEF Scl!OnGrams
    <3>2. /\ a \in Scales(window, zeroAt, weighed, factor, left)
          /\ a.calibration = scale.calibration /\ a.tarePending = scale.tarePending
          /\ a.ownTare = scale.ownTare
      BY <1>1 DEF Scales
    <3> HIDE DEF a
    <3>3. IsScale(a)
      BY <3>2 DEF IsScale
    <3>4. OwnTareOf(a)
      BY <1>2, <3>2 DEF OwnTareOf
    <3> QED BY <1>3, <3>1, <3>3, <3>4
  <2> QED BY <1>4, <2>2
<1>13. CASE Scl!Pour \/ Scl!Weighed \/ Scl!TareDone \/ UNCHANGED scaleVars
            \/ \E g \in 0 .. MaxLoad : Scl!Place(g)
  <2>1. scale' = scale
    BY <1>13 DEF Scl!Pour, Scl!Weighed, Scl!TareDone, scaleVars, Scl!Place
  <2> QED BY <1>4, <2>1
<1>14. CASE Scl!Tick
  BY <1>10, <1>11, <1>12, <1>14 DEF Scl!Tick
<1> QED BY <1>5, <1>8, <1>9, <1>13, <1>14 DEF Scl!Next

-----------------------------------------------------------------------------
(* A running shot whose start was right.  The load cells have weighed no   *)
(* less than stood on the scale at the start, `base', and no more than     *)
(* stands there now, and the tare is that of the start or a later one.     *)
CellsTrue(window, tared, factor, pre, now, poured) ==
  LET base == now - poured
  IN  /\ poured \in Nat /\ base \in 0 .. MaxLoad /\ factor = Gain
      /\ window # <<>> /\ Within(window, base, now)
      /\ pre \in Int /\ pre >= -MaxLoad
      /\ tared >= Gain * base \/ pre = (Gain * base - tared) \div Gain

LEMMA GainIs == Gain \in Nat \ {0} /\ MaxLoad \in Nat /\ Samples \in Nat \ {0} /\ AutoTareTimeout \in Nat
PROOF
<1> QED BY DeviceConstants DEF Scl!ScaleConstants

LEMMA NoneIs == Scl!None \in Int /\ Scl!None < -MaxLoad
PROOF
<1>1. Gain * 1 * MaxLoad = MaxLoad * Gain /\ MaxLoad * 1 <= MaxLoad * Gain
      /\ MaxLoad * Gain = Gain * MaxLoad /\ Gain * MaxLoad \in Nat /\ MaxLoad * 1 = MaxLoad
  BY GainIs, ProductGrows
<1>2. Gain * MaxLoad >= MaxLoad
  BY <1>1
<1>3. PICK n \in Nat : n = Gain * MaxLoad
  BY <1>1
<1> QED BY <1>2, <1>3, GainIs DEF Scl!None

(* What the cells show. *)
LEMMA ShownIs ==
  ASSUME NEW mean \in Int, NEW tared \in Int, mean >= 0, tared <= Gain * MaxLoad
  PROVE  LET grams == Scl!Grams(mean - tared, Gain)
         IN  /\ grams = (mean - tared) \div Gain /\ grams \in Int
             /\ grams >= -MaxLoad /\ grams # Scl!None
PROOF
<1>1. Scl!Grams(mean - tared, Gain) = (mean - tared) \div Gain
  BY GainIs DEF Scl!Grams
<1>2. Gain * (-MaxLoad) = -(Gain * MaxLoad) /\ Gain * MaxLoad \in Int
  BY GainIs
<1>3. Gain * (-MaxLoad) <= mean - tared
  BY <1>2
<1>4. -MaxLoad <= (mean - tared) \div Gain
  BY <1>3, GainIs, QuotientAtLeast
<1>5. (mean - tared) \div Gain \in Int
  BY GainIs
<1> QED BY <1>1, <1>4, <1>5, NoneIs, GainIs

LEMMA CellsShow ==
  ASSUME NEW window, IsWindow(window), NEW tared \in Int, NEW factor, NEW pre, NEW now \in Int,
         NEW poured, CellsTrue(window, tared, factor, pre, now, poured)
  PROVE  LET grams == Scl!Grams(Scl!Mean(window) - tared, Gain)
         IN  grams <= poured \/ grams <= poured + pre
PROOF
<1>1. PICK base \in 0 .. MaxLoad : base = now - poured
  BY DEF CellsTrue
<1>2. /\ poured \in Nat /\ window # <<>> /\ Within(window, base, now)
      /\ pre \in Int
      /\ tared >= Gain * base \/ pre = (Gain * base - tared) \div Gain
  BY <1>1 DEF CellsTrue
<1>3. PICK mean \in Int : mean = Scl!Mean(window) /\ mean <= Gain * now
  BY <1>2, MeanBounds
<1>4. PICK most \in Int, least \in Int, more \in Int :
        /\ most = Gain * now /\ least = Gain * base /\ more = Gain * poured /\ most = least + more
  <2>1. now = base + poured
    BY <1>1, <1>2
  <2>2. Gain * now = Gain * base + Gain * poured
    BY <1>2, <2>1, GainIs
  <2>3. Gain * now \in Int /\ Gain * base \in Int /\ Gain * poured \in Int
    BY <1>2, GainIs
  <2> QED BY <2>2, <2>3
<1>5. PICK gain \in Nat \ {0} : gain = Gain
  BY GainIs
<1>6. Scl!Grams(mean - tared, Gain) = (mean - tared) \div gain
  BY <1>5 DEF Scl!Grams
<1>7. CASE tared >= least
  <2>1. mean - tared < more + gain
    BY ONLY <1>3, <1>4, <1>5, <1>7, tared \in Int
  <2>2. (mean - tared) \div gain <= poured
    BY <1>2, <1>4, <1>5, <2>1, QuotientAtMost
  <2> QED BY <1>3, <1>6, <2>2
<1>8. CASE pre = (least - tared) \div gain
  <2>1. PICK p \in Int : p = gain * pre /\ least - tared < p + gain
    BY <1>2, <1>8, QuotientIs
  <2>2. gain * (poured + pre) = more + p
    BY <1>2, <1>4, <1>5, <2>1
  <2>3. mean - tared < more + p + gain
    BY ONLY <1>3, <1>4, <1>5, <2>1, tared \in Int
  <2>4. (mean - tared) \div gain <= poured + pre
    <3>1. poured + pre \in Int /\ mean - tared \in Int
      BY <1>2
    <3>2. mean - tared < gain * (poured + pre) + gain
      BY <2>2, <2>3
    <3> QED BY <3>1, <3>2, QuotientAtMost
  <2> QED BY <1>3, <1>6, <2>4
<1> QED BY <1>2, <1>4, <1>5, <1>7, <1>8

LEMMA CellsStart ==
  ASSUME NEW window, IsWindow(window), NEW now \in 0 .. MaxLoad,
         window = [i \in 1 .. Samples |-> now],
         NEW tared \in 0 .. Gain * MaxLoad
  PROVE  CellsTrue(window, tared, Gain, Scl!Grams(Scl!Mean(window) - tared, Gain), now, 0)
PROOF
<1>1. window # <<>> /\ Within(window, now, now)
  <2>1. Len(window) = Samples
    BY GainIs
  <2>2. window # <<>>
    BY <2>1, GainIs, EmptySeq
  <2>3. \A i \in 1 .. Samples : window[i] = now
    OBVIOUS
  <2>4. ASSUME NEW i \in 1 .. Len(window) PROVE now <= window[i] /\ window[i] <= now
    <3>1. window[i] = now
      BY ONLY <2>1, <2>3, i \in 1 .. Len(window)
    <3> QED BY ONLY <3>1, now \in 0 .. MaxLoad, GainIs
  <2>5. Within(window, now, now)
    BY <2>4 DEF Within
  <2> QED BY <2>2, <2>5
<1>2. Gain * MaxLoad \in Nat /\ now \in Int /\ tared \in Int /\ tared <= Gain * MaxLoad
  BY GainIs
<1>3. Scl!Mean(window) \in Int /\ Scl!Mean(window) = Gain * now
  <2>1. PICK m \in Int : m = Scl!Mean(window) /\ Gain * now <= m /\ m <= Gain * now
    BY <1>1, <1>2, MeanBounds
  <2>2. Gain * now \in Int
    BY GainIs
  <2> QED BY <2>1, <2>2
<1>4. PICK mean \in Nat : mean = Gain * now
  BY GainIs
<1>5. /\ Scl!Grams(mean - tared, Gain) = (mean - tared) \div Gain
      /\ Scl!Grams(mean - tared, Gain) \in Int
      /\ Scl!Grams(mean - tared, Gain) >= -MaxLoad
  BY <1>2, ShownIs
<1>6. now - 0 = now
  OBVIOUS
<1> QED BY <1>1, <1>3, <1>4, <1>5, <1>6 DEF CellsTrue

LEMMA CellsGoOn ==
  ASSUME NEW window, IsWindow(window), NEW tared \in 0 .. Gain * MaxLoad, NEW factor, NEW pre,
         NEW now \in 0 .. MaxLoad, NEW poured, CellsTrue(window, tared, factor, pre, now, poured)
  PROVE  LET w == Scl!Push(window, now)
         IN  \A t \in {tared, Scl!Mean(w)} : CellsTrue(w, t, factor, pre, now, poured)
PROOF
<1>1. PICK base \in 0 .. MaxLoad : base = now - poured
  BY DEF CellsTrue
<1>2. base \in Int /\ now \in Int /\ base <= now /\ now <= now /\ poured \in Nat
  BY <1>1 DEF CellsTrue
<1>3. PICK w : w = Scl!Push(window, now)
  OBVIOUS
<1>4. IsWindow(w) /\ w # <<>> /\ Within(w, base, now)
  <2>1. Within(window, base, now)
    BY <1>1 DEF CellsTrue
  <2> QED BY <1>2, <1>3, <2>1, PushIsWindow
<1>5. Scl!Mean(w) >= Gain * base
  BY <1>2, <1>4, MeanBounds, GainIs
<1> QED BY <1>1, <1>3, <1>4, <1>5 DEF CellsTrue

(* A Bluetooth scale's weights, the one shown, the one that has been sent, *)
(* and the one it would send, are at most what was poured, but for `w0',   *)
(* its weight at the start; that one is gone from all of them, or the      *)
(* weight of the shot counts from no less.                                 *)
BleTrue(grams, sent, shows, pre, poured) ==
  \E w0 \in 0 .. MaxLoad :
    /\ poured \in Nat /\ pre \in Int /\ grams # Scl!None
    /\ pre = Scl!None \/ pre >= -MaxLoad
    /\ grams <= poured + w0 /\ sent <= poured + w0 /\ shows <= poured + w0
    /\ shows >= w0 \/ shows <= poured
    /\ sent >= w0 \/ sent = Scl!None \/ (sent <= poured /\ shows <= poured)
    /\ \/ pre = Scl!None /\ grams >= w0
       \/ pre # Scl!None /\ pre >= w0
       \/ grams <= poured /\ sent <= poured /\ shows <= poured

Weights == -MaxLoad .. MaxLoad
LEMMA WeightsAre == \A w \in Weights : w \in Int /\ w # Scl!None /\ -MaxLoad <= w /\ w <= MaxLoad
PROOF
<1> QED BY NoneIs, GainIs DEF Weights

LEMMA BleStart ==
  ASSUME NEW shows \in Weights, NEW pre \in Int,
         pre = Scl!None \/ pre = shows
  PROVE  BleTrue(shows, Scl!None, shows, pre, 0)
PROOF
<1>1. PICK w0 \in 0 .. MaxLoad : (shows >= 0 => w0 = shows) /\ (shows < 0 => w0 = 0)
  <2>1. shows \in Int /\ shows <= MaxLoad /\ 0 \in 0 .. MaxLoad
    BY WeightsAre, GainIs
  <2>2. CASE shows >= 0
    <3>1. shows \in 0 .. MaxLoad /\ ~(shows < 0)
      BY <2>1, <2>2
    <3> QED BY <3>1, Zenon
  <2>3. CASE shows < 0
    <3>1. ~(shows >= 0)
      BY <2>1, <2>3
    <3> QED BY <2>1, <3>1, Zenon
  <2> QED BY <2>1, <2>2, <2>3
<1>2. Scl!None \in Int /\ Scl!None < 0 /\ shows \in Int /\ shows # Scl!None /\ shows >= -MaxLoad
  BY NoneIs, WeightsAre, GainIs
<1>3. shows <= w0 /\ (shows >= w0 \/ shows <= 0) /\ w0 \in Nat
      /\ (pre = Scl!None \/ pre >= -MaxLoad)
  BY <1>1, <1>2, GainIs
<1>4. (pre = Scl!None /\ shows >= w0) \/ (pre # Scl!None /\ pre >= w0) \/ shows <= 0
  BY <1>1, <1>2
<1> QED BY <1>1, <1>2, <1>3, <1>4 DEF BleTrue

(* It weighs, or does a tare; something is poured; a tick takes a weight   *)
(* that was sent, or none; and the weight shown becomes the first.         *)
LEMMA BleGoesOn ==
  ASSUME NEW grams \in Weights, NEW sent \in Weights \cup {Scl!None}, NEW shows \in Weights,
         NEW pre, NEW poured, BleTrue(grams, sent, shows, pre, poured)
  PROVE  /\ BleTrue(grams, shows, shows, pre, poured)
         /\ BleTrue(grams, sent, 0, pre, poured)
         /\ BleTrue(grams, sent, shows + 1, pre, poured + 1)
         /\ BleTrue(grams, Scl!None, shows, pre, poured)
         /\ sent # Scl!None => BleTrue(sent, Scl!None, shows, pre, poured)
         /\ pre = Scl!None => BleTrue(grams, sent, shows, grams, poured)
PROOF
<1>1. PICK w0 \in 0 .. MaxLoad :
        /\ poured \in Nat /\ pre \in Int /\ (pre = Scl!None \/ pre >= -MaxLoad)
        /\ grams <= poured + w0 /\ sent <= poured + w0 /\ shows <= poured + w0
        /\ shows >= w0 \/ shows <= poured
        /\ sent >= w0 \/ sent = Scl!None \/ (sent <= poured /\ shows <= poured)
        /\ \/ pre = Scl!None /\ grams >= w0
           \/ pre # Scl!None /\ pre >= w0
           \/ grams <= poured /\ sent <= poured /\ shows <= poured
  BY DEF BleTrue
<1>2. PICK none \in Int : none = Scl!None /\ none < 0
  BY NoneIs, GainIs
<1>3. /\ grams \in Int /\ sent \in Int /\ shows \in Int /\ w0 \in Nat
      /\ grams # none /\ poured + 1 \in Nat /\ grams >= -MaxLoad
  BY <1>1, <1>2, WeightsAre
<1>4. BleTrue(grams, shows, shows, pre, poured)
  BY <1>1, <1>2, <1>3 DEF BleTrue
<1>5. BleTrue(grams, sent, 0, pre, poured)
  BY <1>1, <1>2, <1>3 DEF BleTrue
<1>6. BleTrue(grams, sent, shows + 1, pre, poured + 1)
  BY <1>1, <1>2, <1>3 DEF BleTrue
<1>7. BleTrue(grams, Scl!None, shows, pre, poured)
  BY <1>1, <1>2, <1>3 DEF BleTrue
<1>8. sent # Scl!None => BleTrue(sent, Scl!None, shows, pre, poured)
  BY <1>1, <1>2, <1>3 DEF BleTrue
<1>9. pre = Scl!None => BleTrue(grams, sent, shows, grams, poured)
  BY <1>1, <1>2, <1>3 DEF BleTrue
<1> QED BY <1>4, <1>5, <1>6, <1>7, <1>8, <1>9

-----------------------------------------------------------------------------
(* What the cells show is of the window, the tare and the factor that the  *)
(* scale keeps.                                                            *)
Showing(s) == Scl!Grams(Scl!Mean(s.window) - s.tare, s.factor)
IsShot(running, one) ==
  /\ \E pre : running \in [active : BOOLEAN, pre : {pre}, left : 0 .. AutoTareTimeout]
  /\ one \in [poured : Nat, honest : BOOLEAN]
  /\ one.honest = TRUE => running.active = TRUE
WeightRanges ==
  /\ bluetooth \in BOOLEAN /\ tare \in BOOLEAN
  /\ load \in 0 .. MaxLoad /\ zero \in 0 .. MaxLoad
  /\ weighed \in Weights \cup {Scl!None}
  /\ IsWindow(scale.window) /\ scale.tare \in 0 .. Gain * MaxLoad
  /\ ~bluetooth => scale.window = <<>> \/ scale.grams = Showing(scale)
  /\ bluetooth => scale.grams \in Weights \cup {Scl!None}
  /\ IsShot(brew, shot)
Honest ==
  shot.honest = TRUE =>
    /\ ~bluetooth => CellsTrue(scale.window, scale.tare, scale.factor, brew.pre, load, shot.poured)
    /\ bluetooth => BleTrue(scale.grams, weighed, load - zero, brew.pre, shot.poured)
WeightInv == WeightRanges /\ Honest

LEMMA LoadIs ==
  ASSUME load \in 0 .. MaxLoad, zero \in 0 .. MaxLoad
  PROVE  load - zero \in Weights
PROOF
<1> QED BY GainIs DEF Weights

(* Whatever else happens to the scale and the shot. *)
LEMMA WeightLeft ==
  ASSUME WeightInv, UNCHANGED <<bluetooth, load, zero, weighed>>, tare' \in BOOLEAN,
         scale'.window = scale.window, scale'.tare = scale.tare, scale'.factor = scale.factor,
         scale'.grams = scale.grams, IsShot(brew', shot'), brew'.pre = brew.pre, shot' = shot
  PROVE  WeightInv'
PROOF
<1>1. Showing(scale') = Showing(scale)
  BY DEF Showing
<1>2. WeightRanges'
  BY <1>1 DEF WeightInv, WeightRanges
<1>3. Honest'
  BY DEF WeightInv, Honest
<1> QED BY <1>2, <1>3 DEF WeightInv

(* A tick begins a shot, goes on with it, or ends it. *)
LEMMA BrewIs ==
  ASSUME WeightRanges, NEW active \in BOOLEAN, NEW auto \in BOOLEAN, Scl!TrackBrew(active, auto)
  PROVE  LET w == Scl!Weight(scale')
         IN  /\ \E pre : brew' \in [active : {active}, pre : {pre}, left : 0 .. AutoTareTimeout]
             /\ active = TRUE /\ brew.active = FALSE =>
                  \/ bluetooth = TRUE /\ brew'.pre = Scl!None
                  \/ brew'.pre = w
             /\ active = TRUE /\ brew.active = TRUE =>
                  brew'.pre = brew.pre \/ (brew.pre = Scl!None /\ brew'.pre = w)
PROOF
<1>1. PICK w : w = Scl!Weight(scale')
  OBVIOUS
<1>2. PICK none, time : none = Scl!None /\ time = AutoTareTimeout /\ time \in Nat
  BY GainIs
<1>3. PICK pre : brew \in [active : BOOLEAN, pre : {pre}, left : 0 .. time]
  BY <1>2 DEF WeightRanges, IsShot
<1>4. PICK asks \in BOOLEAN : asks = Scl!AsksTare(active, auto)
  BY DEF Scl!AsksTare
<1>5. asks = TRUE => active = TRUE /\ brew.active = FALSE /\ bluetooth = TRUE
  BY <1>1, <1>3, <1>4 DEF Scl!AsksTare, WeightRanges
<1>6. brew' = CASE ~active -> [active |-> FALSE, pre |-> none, left |-> 0]
                [] asks -> [active |-> TRUE, pre |-> none, left |-> time]
                [] active /\ ~brew.active /\ ~asks ->
                     [[active |-> FALSE, pre |-> none, left |-> 0] EXCEPT !.active = TRUE, !.pre = w]
                [] active /\ brew.active /\ brew.pre = none /\ (brew.left = 0 \/ w = 0) ->
                     [[active |-> FALSE, pre |-> none, left |-> 0] EXCEPT !.active = TRUE, !.pre = w]
                [] OTHER -> brew
  BY <1>1, <1>2, <1>4, Zenon DEF Scl!TrackBrew, Scl!NoBrew
<1>7. CASE active = FALSE
  <2>1. brew' = [active |-> FALSE, pre |-> none, left |-> 0]
    BY <1>5, <1>6, <1>7
  <2>2. brew' \in [active : {FALSE}, pre : {none}, left : 0 .. time]
    BY <1>2, <2>1
  <2> QED BY <1>2, <1>7, <2>2
<1>8. CASE asks = TRUE
  <2>1. brew' = [active |-> TRUE, pre |-> none, left |-> time]
    BY <1>5, <1>6, <1>8
  <2>2. brew' \in [active : {active}, pre : {none}, left : 0 .. time] /\ brew'.pre = none
    BY <1>2, <1>5, <1>8, <2>1
  <2> QED BY <1>1, <1>2, <1>5, <1>8, <2>2
<1>9. ASSUME brew' = [active |-> TRUE, pre |-> w, left |-> 0], active = TRUE
      PROVE  /\ brew' \in [active : {active}, pre : {w}, left : 0 .. time]
             /\ brew'.pre = w
  BY <1>2, <1>9
<1>10. CASE active = TRUE /\ brew.active = FALSE /\ asks = FALSE
  <2>1. brew' = [active |-> TRUE, pre |-> w, left |-> 0]
    BY <1>6, <1>10
  <2> QED BY <1>1, <1>2, <1>5, <1>9, <1>10, <2>1
<1>11. CASE active = TRUE /\ brew.active = TRUE /\ brew.pre = none /\ (brew.left = 0 \/ w = 0)
  <2>1. brew' = [active |-> TRUE, pre |-> w, left |-> 0]
    BY <1>5, <1>6, <1>11
  <2> QED BY <1>1, <1>2, <1>9, <1>11, <2>1
<1>12. CASE active = TRUE /\ brew.active = TRUE /\ ~(brew.pre = none /\ (brew.left = 0 \/ w = 0))
  <2>1. brew' = brew
    BY <1>5, <1>6, <1>12
  <2>2. brew' \in [active : {active}, pre : {pre}, left : 0 .. time] /\ brew'.pre = brew.pre
    BY <1>3, <1>12, <2>1
  <2> QED BY <1>2, <1>12, <2>2
<1>13. brew.active \in BOOLEAN
  BY <1>3
<1> QED BY <1>4, <1>5, <1>7, <1>8, <1>10, <1>11, <1>12, <1>13

LEMMA TickIs ==
  ASSUME WeightRanges, NEW active \in BOOLEAN, NEW auto \in BOOLEAN, NEW next, NEW steady,
         Scl!TickWith(next, active, auto, steady)
  PROVE  /\ scale' = next /\ UNCHANGED <<bluetooth, load, zero>> /\ IsShot(brew', shot')
         /\ shot'.honest = TRUE =>
              LET w == Scl!Weight(next)
              IN  \/ /\ brew.active = FALSE /\ steady /\ shot'.poured = 0
                     /\ bluetooth \/ next.factor = Gain
                     /\ \/ bluetooth = TRUE /\ brew'.pre = Scl!None
                        \/ brew'.pre = w
                  \/ /\ shot.honest = TRUE /\ shot'.poured = shot.poured
                     /\ next.factor = scale.factor
                     /\ brew'.pre = brew.pre \/ (brew.pre = Scl!None /\ brew'.pre = w)
PROOF
<1>1. /\ scale' = next /\ UNCHANGED <<bluetooth, load, zero>> /\ Scl!TrackBrew(active, auto)
  BY Zenon DEF Scl!TickWith, Scl!outside
<1>2. PICK w : w = Scl!Weight(next)
  OBVIOUS
<1>3. /\ \E pre : brew' \in [active : {active}, pre : {pre}, left : 0 .. AutoTareTimeout]
      /\ active = TRUE /\ brew.active = FALSE =>
           \/ bluetooth = TRUE /\ brew'.pre = Scl!None
           \/ brew'.pre = w
      /\ active = TRUE /\ brew.active = TRUE =>
           brew'.pre = brew.pre \/ (brew.pre = Scl!None /\ brew'.pre = w)
  BY <1>1, <1>2, BrewIs
<1>4. brew.active \in BOOLEAN /\ shot \in [poured : Nat, honest : BOOLEAN]
  BY DEF WeightRanges, IsShot
<1>5. /\ \E pre : brew' \in [active : BOOLEAN, pre : {pre}, left : 0 .. AutoTareTimeout]
      /\ brew'.active = active
  BY <1>3
<1>6. CASE active = TRUE /\ brew.active = FALSE
  <2>1. PICK right \in BOOLEAN : right = (steady /\ (bluetooth \/ next.factor = Gain))
    OBVIOUS
  <2>2. shot' = [poured |-> 0, honest |-> right]
    BY <1>6, <2>1 DEF Scl!TickWith
  <2>3. shot' \in [poured : Nat, honest : BOOLEAN] /\ shot'.poured = 0 /\ shot'.honest = right
    BY <2>2
  <2>4. IsShot(brew', shot')
    BY <1>5, <1>6, <2>3 DEF IsShot
  <2> QED BY <1>1, <1>2, <1>3, <1>6, <2>1, <2>3, <2>4
<1>7. CASE ~(active = TRUE /\ brew.active = FALSE)
  <2>1. PICK right \in BOOLEAN : right = (active /\ shot.honest /\ next.factor = scale.factor)
    OBVIOUS
  <2>2. PICK poured : poured = IF right THEN shot.poured ELSE 0
    OBVIOUS
  <2>3. shot' = [poured |-> poured, honest |-> right]
    BY <1>4, <1>7, <2>1, <2>2 DEF Scl!TickWith
  <2>4. poured \in Nat
    BY <1>4, <2>2
  <2>5. /\ shot' \in [poured : Nat, honest : BOOLEAN] /\ shot'.honest = right
        /\ shot'.poured = poured
    BY <2>3, <2>4
  <2>6. right = TRUE => active = TRUE /\ shot.honest = TRUE /\ next.factor = scale.factor
    BY <1>4, <2>1
  <2>7. IsShot(brew', shot')
    BY <1>5, <2>5, <2>6 DEF IsShot
  <2> QED BY <1>1, <1>2, <1>3, <1>4, <1>7, <2>2, <2>5, <2>6, <2>7
<1> QED BY <1>4, <1>6, <1>7

LEMMA CellsTickKeeps ==
  ASSUME ScaleInv, WeightInv, NEW active \in BOOLEAN, Scl!CellsTick(active)
  PROVE  WeightInv'
PROOF
<1>1. PICK next, window : next = Scl!OnCounts(scale, load) /\ window = Scl!Push(scale.window, load)
  OBVIOUS
<1>2. PICK steady : steady = (window = Scl!Still)
  OBVIOUS
<1>3. ~bluetooth /\ Scl!TickWith(next, active, FALSE, steady) /\ UNCHANGED <<tare, weighed>>
  BY <1>1, <1>2, Zenon DEF Scl!CellsTick
<1>4. /\ next.window = window /\ next.tare \in {scale.tare, Scl!Mean(window)}
      /\ next.grams = Scl!Grams(Scl!Mean(window) - next.tare, next.factor)
  BY <1>1, CountsKeep DEF ScaleInv
<1>5. WeightRanges /\ load \in 0 .. MaxLoad /\ IsWindow(scale.window)
      /\ scale.tare \in 0 .. Gain * MaxLoad
  BY DEF WeightInv, WeightRanges
<1>6. IsWindow(window) /\ window # <<>>
  BY <1>1, <1>5, PushIsWindow
<1>7. Scl!Mean(window) \in 0 .. Gain * MaxLoad
  <2>1. \A i \in 1 .. Len(window) : window[i] \in 0 .. MaxLoad
    BY <1>6, ElementOfSeq DEF IsWindow
  <2>2. Within(window, 0, MaxLoad)
    BY <2>1, GainIs DEF Within
  <2>3. PICK m \in Int : m = Scl!Mean(window) /\ Gain * 0 <= m /\ m <= Gain * MaxLoad
    BY <1>6, <2>2, GainIs, MeanBounds
  <2>4. Gain * 0 = 0 /\ Gain * MaxLoad \in Nat
    BY GainIs
  <2> QED BY <2>3, <2>4
<1>8. next.tare \in 0 .. Gain * MaxLoad
  BY <1>4, <1>5, <1>7
<1>9. /\ scale' = next /\ UNCHANGED <<bluetooth, load, zero>> /\ IsShot(brew', shot')
  BY <1>3, <1>5, TickIs
<1>10. WeightRanges'
  BY <1>3, <1>4, <1>5, <1>6, <1>8, <1>9 DEF WeightRanges, Showing
<1>11. Honest'
  <2> SUFFICES ASSUME shot'.honest = TRUE
               PROVE  CellsTrue(next.window, next.tare, next.factor, brew'.pre, load, shot'.poured)
    BY <1>3, <1>9 DEF Honest
  <2>0. \/ /\ brew.active = FALSE /\ steady /\ shot'.poured = 0
           /\ bluetooth \/ next.factor = Gain
           /\ \/ bluetooth = TRUE /\ brew'.pre = Scl!None
              \/ brew'.pre = Scl!Weight(next)
        \/ /\ shot.honest = TRUE /\ shot'.poured = shot.poured
           /\ next.factor = scale.factor
           /\ brew'.pre = brew.pre \/ (brew.pre = Scl!None /\ brew'.pre = Scl!Weight(next))
    BY <1>3, <1>5, TickIs
  <2>1. CASE brew.active = FALSE /\ steady /\ shot'.poured = 0 /\ next.factor = Gain
             /\ brew'.pre = Scl!Weight(next)
    <3>1. window = [i \in 1 .. Samples |-> load]
      BY <1>2, <2>1 DEF Scl!Still
    <3>2. CellsTrue(window, next.tare, Gain, Scl!Grams(Scl!Mean(window) - next.tare, Gain), load, 0)
      BY <1>5, <1>6, <1>8, <3>1, CellsStart
    <3>3. next.grams = Scl!Grams(Scl!Mean(window) - next.tare, Gain) /\ next.grams # Scl!None
      <4>1. PICK tared \in Int, mean \in Int :
              /\ tared = next.tare /\ tared <= Gain * MaxLoad
              /\ mean = Scl!Mean(window) /\ mean >= 0
        BY <1>7, <1>8, GainIs
      <4>2. Scl!Grams(mean - tared, Gain) # Scl!None
        BY <4>1, ShownIs
      <4> QED BY <1>4, <2>1, <4>1, <4>2
    <3>4. brew'.pre = next.grams
      BY <2>1, <3>3 DEF Scl!Weight
    <3> QED BY <1>4, <2>1, <3>2, <3>3, <3>4
  <2>2. CASE /\ shot.honest = TRUE /\ shot'.poured = shot.poured
             /\ next.factor = scale.factor
             /\ brew'.pre = brew.pre \/ brew.pre = Scl!None
    <3>1. CellsTrue(scale.window, scale.tare, scale.factor, brew.pre, load, shot.poured)
      BY <1>3, <2>2 DEF WeightInv, Honest
    <3>2. brew'.pre = brew.pre
      BY <2>2, <3>1, NoneIs, GainIs DEF CellsTrue
    <3>3. CellsTrue(window, next.tare, scale.factor, brew.pre, load, shot.poured)
      BY <1>1, <1>4, <1>5, <3>1, CellsGoOn
    <3> QED BY <1>4, <2>2, <3>2, <3>3
  <2> QED BY <1>3, <2>0, <2>1, <2>2
<1> QED BY <1>10, <1>11 DEF WeightInv

LEMMA NoReadingTickKeeps ==
  ASSUME ScaleInv, WeightInv, NEW active \in BOOLEAN, Scl!NoReadingTick(active)
  PROVE  WeightInv'
PROOF
<1>1. PICK steady : steady = (scale.window = Scl!Still)
  OBVIOUS
<1>2. ~bluetooth /\ Scl!TickWith(scale, active, FALSE, steady) /\ UNCHANGED <<tare, weighed>>
  BY <1>1, Zenon DEF Scl!NoReadingTick
<1>3. /\ WeightRanges /\ load \in 0 .. MaxLoad /\ IsWindow(scale.window)
      /\ scale.tare \in 0 .. Gain * MaxLoad
      /\ scale.window = <<>> \/ scale.grams = Showing(scale)
  BY <1>2 DEF WeightInv, WeightRanges
<1>4. scale' = scale /\ UNCHANGED <<bluetooth, load, zero>> /\ IsShot(brew', shot')
  BY <1>2, <1>3, TickIs
<1>5. WeightRanges'
  BY <1>2, <1>3, <1>4 DEF WeightRanges, Showing
<1>6. Honest'
  <2> SUFFICES ASSUME shot'.honest = TRUE
               PROVE  CellsTrue(scale.window, scale.tare, scale.factor, brew'.pre, load, shot'.poured)
    BY <1>2, <1>4 DEF Honest
  <2>1. \/ /\ brew.active = FALSE /\ steady /\ shot'.poured = 0
           /\ bluetooth \/ scale.factor = Gain
           /\ \/ bluetooth = TRUE /\ brew'.pre = Scl!None
              \/ brew'.pre = Scl!Weight(scale)
        \/ /\ shot.honest = TRUE /\ shot'.poured = shot.poured
           /\ scale.factor = scale.factor
           /\ brew'.pre = brew.pre \/ (brew.pre = Scl!None /\ brew'.pre = Scl!Weight(scale))
    BY <1>2, <1>3, TickIs
  <2>2. CASE brew.active = FALSE /\ steady /\ shot'.poured = 0 /\ scale.factor = Gain
             /\ brew'.pre = Scl!Weight(scale)
    <3>1. PICK window : window = scale.window
      OBVIOUS
    <3>2. window = [i \in 1 .. Samples |-> load] /\ IsWindow(window)
      BY <1>1, <1>3, <2>2, <3>1 DEF Scl!Still
    <3>3. CellsTrue(window, scale.tare, Gain, Scl!Grams(Scl!Mean(window) - scale.tare, Gain), load, 0)
      BY <1>3, <3>2, CellsStart
    <3>4. window # <<>> /\ scale.grams = Scl!Grams(Scl!Mean(window) - scale.tare, Gain)
      BY <1>3, <2>2, <3>1, <3>3 DEF Showing, CellsTrue
    <3>5. scale.grams # Scl!None
      <4>1. scale.grams >= -MaxLoad
        BY <3>3, <3>4 DEF CellsTrue
      <4> QED BY <4>1, NoneIs, GainIs
    <3>6. brew'.pre = scale.grams
      BY <2>2, <3>5 DEF Scl!Weight
    <3> QED BY <2>2, <3>1, <3>3, <3>4, <3>6
  <2>3. CASE /\ shot.honest = TRUE /\ shot'.poured = shot.poured
             /\ brew'.pre = brew.pre \/ brew.pre = Scl!None
    <3>1. CellsTrue(scale.window, scale.tare, scale.factor, brew.pre, load, shot.poured)
      BY <1>2, <2>3 DEF WeightInv, Honest
    <3>2. brew'.pre = brew.pre
      BY <2>3, <3>1, NoneIs, GainIs DEF CellsTrue
    <3> QED BY <2>3, <3>1, <3>2
  <2> QED BY <1>2, <2>1, <2>2, <2>3
<1> QED BY <1>5, <1>6 DEF WeightInv

LEMMA BleTickKeeps ==
  ASSUME ScaleInv, WeightInv, NEW active \in BOOLEAN, NEW auto \in BOOLEAN, Scl!BleTick(active, auto)
  PROVE  WeightInv'
PROOF
<1>1. PICK next, steady : next = Scl!OnGrams(scale, weighed) /\ steady = (next.grams = load - zero)
  OBVIOUS
<1>2. bluetooth /\ Scl!TickWith(next, active, auto, steady) /\ weighed' = Scl!None
  BY <1>1, Zenon DEF Scl!BleTick
<1>3. /\ WeightRanges /\ load \in 0 .. MaxLoad /\ zero \in 0 .. MaxLoad
      /\ scale.grams \in Weights \cup {Scl!None} /\ weighed \in Weights \cup {Scl!None}
  BY <1>2 DEF WeightInv, WeightRanges
<1>4. tare' \in BOOLEAN
  BY <1>3 DEF Scl!BleTick, WeightRanges
<1>5. /\ next.window = scale.window /\ next.tare = scale.tare
      /\ next.grams = IF weighed = Scl!None THEN scale.grams ELSE weighed
  <2>1. PICK window, zeroAt, grams, factor, left :
          scale \in Scales(window, zeroAt, grams, factor, left)
    BY DEF ScaleInv, IsScale
  <2> QED BY <1>1, <2>1 DEF Scl!OnGrams, Scales
<1>6. scale' = next /\ UNCHANGED <<bluetooth, load, zero>> /\ IsShot(brew', shot')
  BY <1>2, <1>3, TickIs
<1>7. WeightRanges'
  BY <1>2, <1>3, <1>4, <1>5, <1>6 DEF WeightRanges
<1>8. Honest'
  <2> SUFFICES ASSUME shot'.honest = TRUE
               PROVE  BleTrue(next.grams, Scl!None, load - zero, brew'.pre, shot'.poured)
    BY <1>2, <1>6 DEF Honest
  <2>0. load - zero \in Weights
    BY <1>3, LoadIs
  <2>1. \/ /\ brew.active = FALSE /\ steady /\ shot'.poured = 0
           /\ bluetooth \/ next.factor = Gain
           /\ \/ bluetooth = TRUE /\ brew'.pre = Scl!None
              \/ brew'.pre = Scl!Weight(next)
        \/ /\ shot.honest = TRUE /\ shot'.poured = shot.poured
           /\ next.factor = scale.factor
           /\ brew'.pre = brew.pre \/ (brew.pre = Scl!None /\ brew'.pre = Scl!Weight(next))
    BY <1>2, <1>3, TickIs
  <2>2. CASE /\ steady /\ shot'.poured = 0
             /\ brew'.pre = Scl!None \/ brew'.pre = Scl!Weight(next)
    <3>1. PICK shows \in Weights : shows = load - zero /\ next.grams = shows
      BY <1>1, <2>0, <2>2
    <3>2. brew'.pre = Scl!None \/ brew'.pre = shows
      BY <2>2, <3>1, WeightsAre DEF Scl!Weight
    <3>3. BleTrue(shows, Scl!None, shows, brew'.pre, 0)
      <4>1. PICK none \in Int : none = Scl!None
        BY NoneIs, GainIs
      <4>2. shows \in Int
        BY WeightsAre
      <4>3. PICK pre \in Int : pre = brew'.pre /\ (pre = Scl!None \/ pre = shows)
        BY <3>2, <4>1, <4>2
      <4>4. BleTrue(shows, Scl!None, shows, pre, 0)
        BY <4>3, BleStart
      <4> QED BY <4>3, <4>4
    <3> QED BY <2>2, <3>1, <3>3
  <2>3. CASE /\ shot.honest = TRUE /\ shot'.poured = shot.poured
             /\ brew'.pre = brew.pre \/ (brew.pre = Scl!None /\ brew'.pre = Scl!Weight(next))
    <3>1. PICK shows \in Weights : shows = load - zero
      BY <2>0
    <3>2. BleTrue(scale.grams, weighed, shows, brew.pre, shot.poured)
      BY <1>2, <2>3, <3>1 DEF WeightInv, Honest
    <3>3. scale.grams \in Weights
      BY <1>3, <3>2 DEF BleTrue
    <3>4. BleTrue(next.grams, Scl!None, shows, brew.pre, shot.poured)
      BY <1>3, <1>5, <3>2, <3>3, BleGoesOn
    <3>5. next.grams \in Weights /\ Scl!Weight(next) = next.grams
      BY <1>3, <1>5, <3>3, WeightsAre DEF Scl!Weight
    <3>6. brew.pre = Scl!None => BleTrue(next.grams, Scl!None, shows, next.grams, shot.poured)
      BY <3>4, <3>5, BleGoesOn, SMTT(30)
    <3> QED BY <2>3, <3>1, <3>4, <3>5, <3>6
  <2> QED BY <1>2, <2>1, <2>2, <2>3
<1> QED BY <1>7, <1>8 DEF WeightInv

LEMMA WeightStarts ==
  ASSUME Scl!Init
  PROVE  WeightInv
PROOF
<1>1. PICK factor \in {0, Gain} : scale = [Scl!NewScale EXCEPT !.factor = factor]
  BY DEF Scl!Init
<1>2. PICK none, window : none = Scl!None /\ window = <<>>
  OBVIOUS
<1>3. Scl!NewScale = [window |-> window, tare |-> 0, grams |-> none, tarePending |-> TRUE,
                      calibration |-> [at |-> "idle", left |-> 0], factor |-> 0, ownTare |-> FALSE]
  BY <1>2, Zenon DEF Scl!NewScale, Scl!Idle
<1>4. scale.window = <<>> /\ scale.tare = 0 /\ scale.grams = none
  BY <1>1, <1>2, <1>3
<1>5. IsWindow(scale.window) /\ scale.tare \in 0 .. Gain * MaxLoad
  BY <1>4, GainIs DEF IsWindow
<1>6. brew = [active |-> FALSE, pre |-> none, left |-> 0] /\ shot = [poured |-> 0, honest |-> FALSE]
  BY <1>2 DEF Scl!Init, Scl!NoBrew
<1>7. IsShot(brew, shot) /\ shot.honest = FALSE
  <2>1. brew \in [active : BOOLEAN, pre : {none}, left : 0 .. AutoTareTimeout]
    BY <1>6, GainIs
  <2>2. shot \in [poured : Nat, honest : BOOLEAN] /\ shot.honest = FALSE
    BY <1>6
  <2> QED BY <2>1, <2>2 DEF IsShot
<1>8. /\ bluetooth \in BOOLEAN /\ tare \in BOOLEAN
      /\ load \in 0 .. MaxLoad /\ zero \in 0 .. MaxLoad
      /\ weighed \in Weights \cup {Scl!None}
  <2>1. 0 \in 0 .. MaxLoad /\ FALSE \in BOOLEAN
    BY GainIs
  <2> QED BY <2>1, Zenon DEF Scl!Init
<1>9. /\ ~bluetooth => scale.window = <<>> \/ scale.grams = Showing(scale)
      /\ bluetooth => scale.grams \in Weights \cup {Scl!None}
  BY <1>2, <1>4, Zenon
<1>10. WeightRanges
  BY <1>5, <1>7, <1>8, <1>9 DEF WeightRanges
<1> QED BY <1>7, <1>10 DEF WeightInv, Honest

LEMMA WeightSteps ==
  ASSUME ScaleInv, WeightInv, [Scl!Next]_scaleVars
  PROVE  WeightInv'
PROOF
<1>1. PICK window, zeroAt, grams, factor, left :
        scale \in Scales(window, zeroAt, grams, factor, left)
  BY DEF ScaleInv, IsScale
<1>2. /\ WeightRanges /\ load \in 0 .. MaxLoad /\ zero \in 0 .. MaxLoad
      /\ load - zero \in Weights /\ tare \in BOOLEAN /\ bluetooth \in BOOLEAN /\ IsShot(brew, shot)
  BY LoadIs DEF WeightInv, WeightRanges
<1>3. CASE Scl!ToggleScaleTare
  <2>1. UNCHANGED <<bluetooth, load, zero, weighed, brew, shot>> /\ tare' \in BOOLEAN
    BY <1>2, <1>3 DEF Scl!ToggleScaleTare, Scl!outside
  <2>2. PICK asked : asked = (scale.tarePending \/ ~bluetooth)
    OBVIOUS
  <2>3. scale' = [scale EXCEPT !.tarePending = asked]
    BY <1>3, <2>2 DEF Scl!ToggleScaleTare
  <2>4. /\ scale'.window = scale.window /\ scale'.tare = scale.tare
        /\ scale'.factor = scale.factor /\ scale'.grams = scale.grams
    BY <1>1, <2>3 DEF Scales
  <2> QED BY <1>2, <2>1, <2>4, WeightLeft
<1>4. CASE Scl!ToggleScaleCalibration
  <2>1. UNCHANGED <<bluetooth, load, zero, weighed, brew, shot, tare>>
    BY <1>4 DEF Scl!ToggleScaleCalibration, Scl!outside
  <2>2. PICK idle, taring : idle = Scl!Idle /\ taring = [at |-> "taring", left |-> CalibrationTare]
    OBVIOUS
  <2>3. \/ scale' = [scale EXCEPT !.calibration = idle]
        \/ scale' = [scale EXCEPT !.tarePending = TRUE, !.ownTare = FALSE, !.calibration = taring]
        \/ scale' = scale
    BY <1>4, <2>2 DEF Scl!ToggleScaleCalibration, Scl!StartCalibration
  <2>4. /\ scale'.window = scale.window /\ scale'.tare = scale.tare
        /\ scale'.factor = scale.factor /\ scale'.grams = scale.grams
    BY <1>1, <2>3 DEF Scales
  <2> QED BY <1>2, <2>1, <2>4, WeightLeft
<1>5. CASE Scl!Clock
  <2>1. UNCHANGED <<bluetooth, load, zero, weighed, shot, tare>>
    BY <1>5 DEF Scl!Clock, Scl!outside
  <2>2. PICK time : time = Scl!Down(scale.calibration.left)
    OBVIOUS
  <2>3. scale' = [scale EXCEPT !.calibration.left = time]
    BY <1>5, <2>2 DEF Scl!Clock
  <2>4. /\ scale'.window = scale.window /\ scale'.tare = scale.tare
        /\ scale'.factor = scale.factor /\ scale'.grams = scale.grams
    BY <1>1, <2>3 DEF Scales
  <2>5. PICK pre : brew \in [active : BOOLEAN, pre : {pre}, left : 0 .. AutoTareTimeout]
    BY <1>2 DEF IsShot
  <2>6. PICK rest \in 0 .. AutoTareTimeout : rest = Scl!Down(brew.left)
    <3>1. brew.left \in 0 .. AutoTareTimeout
      BY <2>5
    <3> QED BY <3>1, GainIs DEF Scl!Down
  <2>7. brew' = [brew EXCEPT !.left = rest]
    BY <1>5, <2>6 DEF Scl!Clock
  <2>8. /\ brew' \in [active : BOOLEAN, pre : {pre}, left : 0 .. AutoTareTimeout]
        /\ brew'.pre = brew.pre /\ brew'.active = brew.active
    BY <2>5, <2>6, <2>7
  <2>9. IsShot(brew', shot')
    BY <1>2, <2>1, <2>8 DEF IsShot
  <2> QED BY <1>2, <2>1, <2>4, <2>8, <2>9, WeightLeft
<1>6. ASSUME NEW g \in 0 .. MaxLoad, Scl!Place(g) PROVE WeightInv'
  <2>1. brew.active = FALSE /\ shot.honest = FALSE
    BY <1>2, <1>6 DEF Scl!Place, IsShot
  <2> QED BY <1>6, <2>1 DEF WeightInv, WeightRanges, Honest, Showing, Scl!Place
<1>7. CASE Scl!Pour
  <2>1. load' = load + 1 /\ load' \in 0 .. MaxLoad /\ UNCHANGED <<bluetooth, zero, tare, weighed, scale, brew>>
    BY <1>2, <1>7, GainIs DEF Scl!Pour
  <2>2. shot \in [poured : Nat, honest : BOOLEAN] /\ brew.active = TRUE
    BY <1>2, <1>7 DEF Scl!Pour, IsShot
  <2>3. PICK poured \in Nat : poured = IF shot.honest THEN shot.poured + 1 ELSE 0
    BY <2>2
  <2>4. shot' = [shot EXCEPT !.poured = poured]
    BY <1>7, <2>3 DEF Scl!Pour
  <2>5. /\ shot' \in [poured : Nat, honest : BOOLEAN] /\ shot'.honest = shot.honest
        /\ shot'.poured = poured
    BY <2>2, <2>3, <2>4
  <2>6. IsShot(brew', shot')
    BY <1>2, <2>1, <2>2, <2>5 DEF IsShot
  <2>7. WeightRanges'
    BY <1>2, <2>1, <2>6 DEF WeightRanges, Showing
  <2>8. Honest'
    <3>1. shot.honest = TRUE => poured = shot.poured + 1
      BY <2>3
    <3>2. ASSUME shot.honest = TRUE, ~bluetooth
          PROVE  CellsTrue(scale.window, scale.tare, scale.factor, brew.pre, load + 1, poured)
      <4>1. CellsTrue(scale.window, scale.tare, scale.factor, brew.pre, load, shot.poured)
        BY <3>2 DEF WeightInv, Honest
      <4>2. PICK base \in 0 .. MaxLoad : base = load - shot.poured /\ base = (load + 1) - poured
        BY <1>2, <2>2, <3>1, <3>2, <4>1 DEF CellsTrue
      <4>3. Within(scale.window, base, load + 1)
        <5>1. Within(scale.window, base, load)
          BY <4>1, <4>2, Zenon DEF CellsTrue
        <5>2. \A k \in 1 .. Len(scale.window) : scale.window[k] \in 0 .. MaxLoad
          BY <1>2, ElementOfSeq DEF WeightRanges, IsWindow
        <5> QED BY <1>2, <5>1, <5>2 DEF Within
      <4>4. CellsTrue(scale.window, scale.tare, scale.factor, brew.pre, load + 1, poured)
        <5>1. /\ scale.factor = Gain /\ scale.window # <<>> /\ brew.pre \in Int /\ brew.pre >= -MaxLoad
              /\ scale.tare >= Gain * base \/ brew.pre = (Gain * base - scale.tare) \div Gain
          BY <4>1, <4>2, Zenon DEF CellsTrue
        <5>2. (load + 1) - poured = base
          BY <4>2
        <5>3. /\ Within(scale.window, (load + 1) - poured, load + 1)
              /\ (load + 1) - poured \in 0 .. MaxLoad
              /\ \/ scale.tare >= Gain * ((load + 1) - poured)
                 \/ brew.pre = (Gain * ((load + 1) - poured) - scale.tare) \div Gain
          BY <4>3, <5>1, <5>2, Zenon
        <5>4. poured \in Nat
          BY <2>3
        <5> QED BY <5>1, <5>3, <5>4, Zenon DEF CellsTrue
      <4> QED BY <4>4
    <3>3. ASSUME shot.honest = TRUE, bluetooth
          PROVE  BleTrue(scale.grams, weighed, (load + 1) - zero, brew.pre, poured)
      <4>1. PICK shows \in Weights : shows = load - zero
        BY <1>2
      <4>2. BleTrue(scale.grams, weighed, shows, brew.pre, shot.poured)
        BY <3>3, <4>1 DEF WeightInv, Honest
      <4>3. scale.grams \in Weights /\ weighed \in Weights \cup {Scl!None}
        BY <1>2, <3>3, <4>2 DEF WeightRanges, BleTrue
      <4>4. BleTrue(scale.grams, weighed, shows + 1, brew.pre, shot.poured + 1)
        BY <4>2, <4>3, BleGoesOn
      <4>5. shows + 1 = (load + 1) - zero
        BY <1>2, <4>1
      <4> QED BY <3>1, <3>3, <4>4, <4>5, Zenon
    <3>4. /\ shot'.honest = shot.honest /\ shot'.poured = poured /\ load' = load + 1
          /\ bluetooth' = bluetooth /\ zero' = zero /\ weighed' = weighed
          /\ scale' = scale /\ brew' = brew
      BY <2>1, <2>5
    <3> QED BY <3>2, <3>3, <3>4 DEF Honest
  <2> QED BY <2>7, <2>8 DEF WeightInv
<1>8. CASE Scl!Weighed \/ Scl!TareDone
  <2>1. PICK shows \in Weights : shows = load - zero
    BY <1>2
  <2>2. UNCHANGED <<bluetooth, load, scale, brew, shot>> /\ tare' \in BOOLEAN
    BY <1>2, <1>8 DEF Scl!Weighed, Scl!TareDone, Scl!outside
  <2>3. \/ bluetooth /\ weighed' = shows /\ zero' = zero
        \/ zero' = load /\ weighed' = weighed
    BY <1>8, <2>1 DEF Scl!Weighed, Scl!TareDone, Scl!outside
  <2>4. WeightRanges'
    BY <1>2, <2>2, <2>3 DEF WeightRanges, Showing
  <2>5. Honest'
    <3>1. CASE shot.honest = TRUE /\ bluetooth
      <4>1. BleTrue(scale.grams, weighed, shows, brew.pre, shot.poured)
        BY <2>1, <3>1 DEF WeightInv, Honest
      <4>2. scale.grams \in Weights /\ weighed \in Weights \cup {Scl!None}
        BY <1>2, <3>1, <4>1 DEF WeightRanges, BleTrue
      <4>3. /\ BleTrue(scale.grams, shows, shows, brew.pre, shot.poured)
            /\ BleTrue(scale.grams, weighed, 0, brew.pre, shot.poured)
        BY <4>1, <4>2, BleGoesOn
      <4>4. load - load = 0
        BY <1>2
      <4> QED BY <2>1, <2>2, <2>3, <3>1, <4>3, <4>4 DEF Honest
    <3>2. CASE ~(shot.honest = TRUE /\ bluetooth)
      BY <2>2, <3>2 DEF WeightInv, Honest
    <3> QED BY <3>1, <3>2
  <2> QED BY <2>4, <2>5 DEF WeightInv
<1>9. CASE Scl!Tick
  BY <1>9, CellsTickKeeps, NoReadingTickKeeps, BleTickKeeps DEF Scl!Tick
<1>10. CASE UNCHANGED scaleVars
  BY <1>10 DEF scaleVars, WeightInv, WeightRanges, Honest, Showing
<1> QED BY <1>3, <1>4, <1>5, <1>6, <1>7, <1>8, <1>9, <1>10 DEF Scl!Next

LEMMA WeightTrue ==
  ASSUME WeightInv
  PROVE  Scl!TypeOK /\ Scl!NoEarlyStop
PROOF
<1>1. Scl!TypeOK
  <2>1. Len(scale.window) \in 0 .. Samples
        /\ scale.window \in [1 .. Len(scale.window) -> 0 .. MaxLoad]
    <3>1. scale.window \in Seq(0 .. MaxLoad) /\ Len(scale.window) <= Samples
      BY DEF WeightInv, WeightRanges, IsWindow
    <3>2. Len(scale.window) \in 0 .. Samples
      BY <3>1, GainIs
    <3>3. scale.window \in [1 .. Len(scale.window) -> 0 .. MaxLoad]
      BY <3>1, LenProperties
    <3> QED BY <3>2, <3>3
  <2>2. scale.window \in Scl!BoundedSeq(0 .. MaxLoad, Samples)
    BY <2>1, Zenon DEF Scl!BoundedSeq, Scl!SeqOf
  <2>3. brew.left \in 0 .. AutoTareTimeout
    BY DEF WeightInv, WeightRanges, IsShot
  <2> QED BY <2>2, <2>3 DEF WeightInv, WeightRanges, Weights, Scl!TypeOK
<1>2. Scl!NoEarlyStop
  <2> SUFFICES ASSUME shot.honest = TRUE
               PROVE  Scl!BrewWeight <= shot.poured + (IF brew.pre \in -MaxLoad .. -1 THEN -brew.pre ELSE 0)
    BY DEF Scl!NoEarlyStop, WeightInv, WeightRanges, IsShot
  <2>1. /\ shot.poured \in Nat /\ scale.tare \in 0 .. Gain * MaxLoad /\ IsWindow(scale.window)
        /\ load \in 0 .. MaxLoad
    BY DEF WeightInv, WeightRanges, IsShot
  <2>2. CASE ~bluetooth
    <3>1. CellsTrue(scale.window, scale.tare, scale.factor, brew.pre, load, shot.poured)
      BY <2>2 DEF WeightInv, Honest
    <3>2. /\ brew.pre \in Int /\ brew.pre >= -MaxLoad /\ scale.window # <<>> /\ scale.factor = Gain
      BY <3>1 DEF CellsTrue
    <3>3. scale.grams = Scl!Grams(Scl!Mean(scale.window) - scale.tare, Gain)
      BY <2>2, <3>2 DEF WeightInv, WeightRanges, Showing
    <3>4. scale.grams <= shot.poured \/ scale.grams <= shot.poured + brew.pre
      <4>1. scale.tare \in Int /\ load \in Int
        BY <2>1
      <4> QED BY <2>1, <3>1, <3>3, <4>1, CellsShow
    <3>5. scale.grams \in Int /\ scale.grams # Scl!None
      <4>1. PICK mean \in Nat : mean = Scl!Mean(scale.window)
        <5>1. Within(scale.window, 0, MaxLoad)
          <6>1. \A i \in 1 .. Len(scale.window) : scale.window[i] \in 0 .. MaxLoad
            BY <2>1, ElementOfSeq DEF IsWindow
          <6> QED BY <6>1, GainIs DEF Within
        <5>2. PICK m \in Int : m = Scl!Mean(scale.window) /\ Gain * 0 <= m
          BY <2>1, <3>2, <5>1, GainIs, MeanBounds
        <5>3. Gain * 0 = 0
          BY GainIs
        <5> QED BY <5>2, <5>3
      <4>2. PICK tared \in Int : tared = scale.tare /\ tared <= Gain * MaxLoad
        BY <2>1, GainIs
      <4>3. Scl!Grams(mean - tared, Gain) \in Int /\ Scl!Grams(mean - tared, Gain) # Scl!None
        <5>1. mean \in Int /\ mean >= 0
          OBVIOUS
        <5> QED BY <4>2, <5>1, ShownIs
      <4> QED BY <3>3, <4>1, <4>2, <4>3
    <3>6. Scl!BrewWeight = IF brew.pre = Scl!None THEN 0 ELSE scale.grams - brew.pre
      BY <3>5 DEF Scl!BrewWeight, Scl!Weight
    <3> QED BY <2>1, <3>2, <3>4, <3>5, <3>6, GainIs
  <2>3. CASE bluetooth
    <3>1. PICK w0 \in 0 .. MaxLoad :
            /\ brew.pre \in Int /\ scale.grams # Scl!None /\ scale.grams <= shot.poured + w0
            /\ brew.pre = Scl!None \/ brew.pre >= -MaxLoad
            /\ \/ brew.pre = Scl!None \/ brew.pre >= w0 \/ scale.grams <= shot.poured
      BY <2>3 DEF WeightInv, Honest, BleTrue
    <3>2. scale.grams \in Weights
      BY <2>3, <3>1 DEF WeightInv, WeightRanges
    <3>3. Scl!BrewWeight = IF brew.pre = Scl!None THEN 0 ELSE scale.grams - brew.pre
      BY <3>1 DEF Scl!BrewWeight, Scl!Weight
    <3>4. scale.grams \in Int /\ -MaxLoad <= scale.grams /\ scale.grams <= MaxLoad
      BY <3>2, WeightsAre
    <3>5. PICK pre \in Int, grams \in Int, poured \in Nat, none \in Int :
            /\ pre = brew.pre /\ grams = scale.grams /\ poured = shot.poured /\ none = Scl!None
            /\ none < -MaxLoad
      BY <2>1, <3>1, <3>4, NoneIs
    <3>6. CASE pre = none
      <4>1. ~(pre \in -MaxLoad .. -1)
        BY <3>5, <3>6, GainIs
      <4>2. 0 <= poured + 0
        OBVIOUS
      <4> QED BY <3>3, <3>5, <3>6, <4>1, <4>2
    <3>7. CASE pre # none
      <4>1. Scl!BrewWeight = grams - pre
        BY <3>3, <3>5, <3>7
      <4>2. pre >= w0 \/ grams <= poured
        BY <3>1, <3>5, <3>7
      <4>3. grams <= poured + w0 /\ grams >= -MaxLoad
        BY <3>1, <3>4, <3>5
      <4>4. grams - pre <= poured + (IF pre \in -MaxLoad .. -1 THEN -pre ELSE 0)
        <5>1. MaxLoad \in Nat /\ w0 \in Nat
          BY GainIs
        <5>2. pre >= -MaxLoad
          BY <3>1, <3>5, <3>7
        <5> QED BY ONLY <4>2, <4>3, <5>1, <5>2, pre \in Int, grams \in Int, poured \in Nat
      <4> QED BY <3>5, <4>1, <4>4
    <3> QED BY <3>6, <3>7
  <2> QED BY <2>2, <2>3
<1> QED BY <1>1, <1>2

-----------------------------------------------------------------------------
LEMMA ScaleStarts ==
  ASSUME Scl!Init
  PROVE  ScaleInv
PROOF
<1>1. PICK factor \in {0, Gain} : scale = [Scl!NewScale EXCEPT !.factor = factor]
  BY DEF Scl!Init
<1>2. PICK window, grams : window = <<>> /\ grams = Scl!None
  OBVIOUS
<1>3. Scl!NewScale = [window |-> window, tare |-> 0, grams |-> grams, tarePending |-> TRUE,
                      calibration |-> [at |-> "idle", left |-> 0], factor |-> 0,
                      ownTare |-> FALSE]
  BY <1>2, Zenon DEF Scl!NewScale, Scl!Idle
<1>4. PICK s : s = scale
  OBVIOUS
<1>5. s \in Scales(window, 0, grams, factor, 0) /\ s.calibration.at = "idle"
  BY <1>1, <1>3, <1>4 DEF Scales, Phases
<1>6. IsScale(s)
  BY <1>5 DEF IsScale
<1>7. OwnTareOf(s)
  BY <1>5 DEF OwnTareOf
<1> QED BY <1>4, <1>6, <1>7 DEF ScaleInv

(* A shot by weight is never stopped before its weight is in the cup, as   *)
(* far as the scale was right and at rest when it began, whatever is       *)
(* tared, read late or not read meanwhile; and a calibration that ends has *)
(* its factor from a tare of its own (Scale::advance_calibration,          *)
(* brew_weight and track_brew, core/src/scale.rs).                         *)
THEOREM WeightAlwaysTells == DeviceSpec => []WeightTells
PROOF
<1>1. DeviceInit => ScaleInv /\ WeightInv
  BY ScaleStarts, WeightStarts DEF DeviceInit
<1>2. ScaleInv /\ [DeviceNext]_deviceVars => ScaleInv'
  BY ScaleStep, ScaleSteps
<1>3. ScaleInv /\ WeightInv /\ [DeviceNext]_deviceVars => WeightInv'
  BY ScaleStep, WeightSteps
<1>4. ScaleInv /\ WeightInv => WeightTells
  <2>1. ScaleInv => Scl!OwnTare
    <3> SUFFICES ASSUME ScaleInv, scale.calibration.at = "done" PROVE scale.ownTare
      BY DEF Scl!OwnTare
    <3> QED BY DEF ScaleInv, OwnTareOf
  <2> QED BY <2>1, WeightTrue DEF WeightTells
<1> QED BY <1>1, <1>2, <1>3, <1>4, PTL DEF DeviceSpec

-----------------------------------------------------------------------------
(* The frames of the temperature sensor.                                   *)
(*                                                                         *)
(* What a sensor sends are two words of nine bits, a byte and its parity.  *)
(* Reads says that the lows of twenty bits read as two words, Verdict what *)
(* they decode to; AtBit is what the decoder knows after so many bits, and *)
(* goes on from bit to bit (FirstBit, NextBit, EveryBitIsRead).  A capture *)
(* that is a frame of such lows decodes to their verdict (FrameDecodes).   *)
(* It is left to see what each disturbance makes of the frame of a value:  *)
(* other lows, another length, or a first pulse that is high.              *)
(* A word of nine bits: eight of data and, in the last place, their parity. *)
Word == 0 .. 511
Byte == 0 .. 255
Places == 0 .. 8
WordBits == [Places -> {0, 1}]
WordOf(bit) == bit[0] + 2 * bit[1] + 4 * bit[2] + 8 * bit[3] + 16 * bit[4]
               + 32 * bit[5] + 64 * bit[6] + 128 * bit[7] + 256 * bit[8]
SumOf(bit) == bit[0] + bit[1] + bit[2] + bit[3] + bit[4] + bit[5] + bit[6] + bit[7] + bit[8]

(* The places of a word, one by one.                                       *)
LEMMA PlacesAre ==
  ASSUME NEW bit \in WordBits
  PROVE  /\ bit[0] \in {0, 1} /\ bit[1] \in {0, 1} /\ bit[2] \in {0, 1} /\ bit[3] \in {0, 1}
         /\ bit[4] \in {0, 1} /\ bit[5] \in {0, 1} /\ bit[6] \in {0, 1} /\ bit[7] \in {0, 1}
         /\ bit[8] \in {0, 1}
PROOF BY DEF WordBits, Places

(* The bits of a word as nine numbers, for arithmetic.                     *)
LEMMA BitsAreNumbers ==
  ASSUME NEW bit \in WordBits
  PROVE  \E b0, b1, b2, b3, b4, b5, b6, b7, b8 \in Nat :
           /\ bit[0] = b0 /\ bit[1] = b1 /\ bit[2] = b2 /\ bit[3] = b3 /\ bit[4] = b4
           /\ bit[5] = b5 /\ bit[6] = b6 /\ bit[7] = b7 /\ bit[8] = b8
PROOF
<1>1. \A i \in Places : bit[i] \in Nat
  BY DEF WordBits
<1>2. /\ bit[0] \in Nat /\ bit[1] \in Nat /\ bit[2] \in Nat /\ bit[3] \in Nat /\ bit[4] \in Nat
      /\ bit[5] \in Nat /\ bit[6] \in Nat /\ bit[7] \in Nat /\ bit[8] \in Nat
  BY <1>1 DEF Places
<1> QED BY <1>2, Zenon

LEMMA SumIsNat == ASSUME NEW bit \in WordBits PROVE SumOf(bit) \in Nat
PROOF BY BitsAreNumbers DEF SumOf

(* The bits of the number that a word stands for are its bits.             *)
LEMMA BitsOfWord ==
  ASSUME NEW bit \in WordBits
  PROVE  /\ WordOf(bit) \in Word
         /\ \A i \in Places : Zac!Bit(WordOf(bit), i) = bit[i]
PROOF
<1>1. PICK b0, b1, b2, b3, b4, b5, b6, b7, b8 \in {0, 1} :
        /\ bit[0] = b0 /\ bit[1] = b1 /\ bit[2] = b2 /\ bit[3] = b3 /\ bit[4] = b4
        /\ bit[5] = b5 /\ bit[6] = b6 /\ bit[7] = b7 /\ bit[8] = b8
  BY PlacesAre, ZenonT(30)
<1>2. PICK w : w = WordOf(bit)
  OBVIOUS
<1>3. w = b0 + 2 * b1 + 4 * b2 + 8 * b3 + 16 * b4 + 32 * b5 + 64 * b6 + 128 * b7 + 256 * b8
  BY <1>1, <1>2 DEF WordOf
<1>4. w \in Word
  BY <1>3 DEF Word
<1>a. Zac!Bit(w, 0) = b0 BY ONLY <1>3 DEF Zac!Bit
<1>b. Zac!Bit(w, 1) = b1 BY ONLY <1>3 DEF Zac!Bit
<1>c. Zac!Bit(w, 2) = b2 BY ONLY <1>3 DEF Zac!Bit
<1>d. Zac!Bit(w, 3) = b3 BY ONLY <1>3 DEF Zac!Bit
<1>e. Zac!Bit(w, 4) = b4 BY ONLY <1>3 DEF Zac!Bit
<1>f. Zac!Bit(w, 5) = b5 BY ONLY <1>3 DEF Zac!Bit
<1>g. Zac!Bit(w, 6) = b6 BY ONLY <1>3 DEF Zac!Bit
<1>h. Zac!Bit(w, 7) = b7 BY ONLY <1>3 DEF Zac!Bit
<1>i. Zac!Bit(w, 8) = b8 BY ONLY <1>3 DEF Zac!Bit
<1>5. ASSUME NEW i \in Places PROVE Zac!Bit(w, i) = bit[i]
  <2>1. i = 0 \/ i = 1 \/ i = 2 \/ i = 3 \/ i = 4 \/ i = 5 \/ i = 6 \/ i = 7 \/ i = 8
    BY DEF Places
  <2> QED BY <1>1, <1>a, <1>b, <1>c, <1>d, <1>e, <1>f, <1>g, <1>h, <1>i, <2>1
<1> QED BY <1>2, <1>4, <1>5

(* What has been read of a word after some of its bits is what is left of  *)
(* it without the others.                                                  *)
LEMMA BitShiftsIn ==
  ASSUME NEW w \in Word, NEW i \in Places
  PROVE  2 * (w \div 2^(i + 1)) + Zac!Bit(w, i) = w \div 2^i
PROOF
<1>1. CASE i = 0 BY <1>1 DEF Word, Zac!Bit
<1>2. CASE i = 1 BY <1>2 DEF Word, Zac!Bit
<1>3. CASE i = 2 BY <1>3 DEF Word, Zac!Bit
<1>4. CASE i = 3 BY <1>4 DEF Word, Zac!Bit
<1>5. CASE i = 4 BY <1>5 DEF Word, Zac!Bit
<1>6. CASE i = 5 BY <1>6 DEF Word, Zac!Bit
<1>7. CASE i = 6 BY <1>7 DEF Word, Zac!Bit
<1>8. CASE i = 7 BY <1>8 DEF Word, Zac!Bit
<1>9. CASE i = 8 BY <1>9 DEF Word, Zac!Bit
<1> QED BY <1>1, <1>2, <1>3, <1>4, <1>5, <1>6, <1>7, <1>8, <1>9 DEF Places

(* Counting the ones of a word, place by place. *)
LEMMA OnesTo ==
  ASSUME NEW n \in Nat, NEW bit, bit[n] \in {0, 1}
  PROVE  LET ones(m) == {i \in 0 .. m : bit[i] = 1}
         IN  n > 0 => Cardinality(ones(n)) = Cardinality(ones(n - 1)) + bit[n]
PROOF
<1> DEFINE ones(m) == {i \in 0 .. m : bit[i] = 1}
<1> SUFFICES ASSUME n > 0 PROVE Cardinality(ones(n)) = Cardinality(ones(n - 1)) + bit[n]
  OBVIOUS
<1>1. IsFiniteSet(ones(n - 1)) /\ n \notin ones(n - 1)
  <2>1. IsFiniteSet(0 .. n - 1)
    BY FS_Interval
  <2> QED BY <2>1, FS_Subset
<1>2. Cardinality(ones(n - 1)) \in Nat
  BY <1>1, FS_CardinalityType
<1>3. CASE bit[n] = 1
  <2>1. ones(n) = ones(n - 1) \cup {n}
    BY <1>3
  <2> QED BY <1>1, <1>3, <2>1, FS_AddElement
<1>4. CASE bit[n] = 0
  <2>1. ones(n) = ones(n - 1)
    BY <1>4
  <2> QED BY <1>2, <1>4, <2>1
<1> QED BY <1>3, <1>4

(* The ones of a word, and those of its lower eight bits, are sums.        *)
LEMMA OnesToEight ==
  ASSUME NEW bit \in WordBits
  PROVE  /\ Cardinality({i \in 0 .. 7 : bit[i] = 1}) = SumOf(bit) - bit[8]
         /\ Cardinality({i \in 0 .. 8 : bit[i] = 1}) = SumOf(bit)
PROOF
<1> DEFINE ones(m) == Cardinality({i \in 0 .. m : bit[i] = 1})
<1>1. \A n \in 1 .. 8 : ones(n) = ones(n - 1) + bit[n]
  BY OnesTo DEF WordBits, Places
<1>2. ones(0) = bit[0]
  <2>1. CASE bit[0] = 1
    <3>1. {i \in 0 .. 0 : bit[i] = 1} = {0}
      BY <2>1
    <3> QED BY <2>1, <3>1, FS_Singleton
  <2>2. CASE bit[0] = 0
    <3>1. {i \in 0 .. 0 : bit[i] = 1} = {}
      BY <2>2
    <3> QED BY <2>2, <3>1, FS_EmptySet
  <2> QED BY <2>1, <2>2, PlacesAre
<1> HIDE DEF ones
<1>3. /\ ones(1) = ones(0) + bit[1] /\ ones(2) = ones(1) + bit[2] /\ ones(3) = ones(2) + bit[3]
      /\ ones(4) = ones(3) + bit[4] /\ ones(5) = ones(4) + bit[5] /\ ones(6) = ones(5) + bit[6]
      /\ ones(7) = ones(6) + bit[7] /\ ones(8) = ones(7) + bit[8]
  BY <1>1
<1>4. ones(7) = SumOf(bit) - bit[8] /\ ones(8) = SumOf(bit)
  BY <1>2, <1>3, PlacesAre DEF SumOf
<1> QED BY <1>4 DEF ones

(* The decoder counts with the cardinality of the library.                 *)
LEMMA SameCardinality == \A S : Zac!Cardinality(S) = Cardinality(S)
PROOF BY Zenon DEF Zac!Cardinality, Cardinality

(* What the decoder counts in a packet is the sum of its bits.             *)
LEMMA OnesOfWord ==
  ASSUME NEW bit \in WordBits
  PROVE  Zac!Ones(WordOf(bit)) = SumOf(bit)
PROOF
<1>1. {i \in 0 .. 8 : Zac!Bit(WordOf(bit), i) = 1} = {i \in 0 .. 8 : bit[i] = 1}
  BY BitsOfWord DEF Places
<1>2. Zac!Ones(WordOf(bit)) = Cardinality({i \in 0 .. 8 : Zac!Bit(WordOf(bit), i) = 1})
  BY SameCardinality, Zenon DEF Zac!Ones
<1>3. Cardinality({i \in 0 .. 8 : bit[i] = 1}) = SumOf(bit)
  BY OnesToEight
<1> QED BY <1>1, <1>2, <1>3, Zenon

(* A byte is sent with its even parity. *)
ParityOf(byte) == Cardinality({i \in 0 .. 7 : Zac!Bit(byte, i) = 1}) % 2
SentBits(byte) == [i \in Places |-> IF i = 0 THEN ParityOf(byte) ELSE Zac!Bit(byte, i - 1)]

(* The word of a byte: its parity is even, its data are the byte.          *)
LEMMA SentWord ==
  ASSUME NEW byte \in Byte
  PROVE  /\ SentBits(byte) \in WordBits
         /\ WordOf(SentBits(byte)) \div 2 = byte
         /\ SumOf(SentBits(byte)) % 2 = 0
PROOF
<1> DEFINE bit == [i \in Places |-> Zac!Bit(byte, i)]
           sent == SentBits(byte)
           par == ParityOf(byte)
<1>1. bit \in WordBits /\ bit[8] = 0
  <2>1. \A i \in Places : Zac!Bit(byte, i) \in {0, 1}
    <3>1. /\ Zac!Bit(byte, 0) \in {0, 1} /\ Zac!Bit(byte, 1) \in {0, 1}
          /\ Zac!Bit(byte, 2) \in {0, 1} /\ Zac!Bit(byte, 3) \in {0, 1}
          /\ Zac!Bit(byte, 4) \in {0, 1} /\ Zac!Bit(byte, 5) \in {0, 1}
          /\ Zac!Bit(byte, 6) \in {0, 1} /\ Zac!Bit(byte, 7) \in {0, 1}
          /\ Zac!Bit(byte, 8) \in {0, 1}
      BY DEF Zac!Bit, Byte
    <3> QED BY <3>1 DEF Places
  <2>2. Zac!Bit(byte, 8) = 0
    BY DEF Byte, Zac!Bit
  <2> QED BY <2>1, <2>2 DEF WordBits, Places
<1>2. par = (SumOf(bit) - bit[8]) % 2
  <2>1. {i \in 0 .. 7 : Zac!Bit(byte, i) = 1} = {i \in 0 .. 7 : bit[i] = 1}
    BY DEF Places
  <2> QED BY <1>1, <2>1, OnesToEight DEF ParityOf
<1>3. SumOf(bit) \in Nat
  BY <1>1, SumIsNat
<1>4. par \in {0, 1} /\ (SumOf(bit) + par) % 2 = 0
  BY <1>1, <1>2, <1>3
<1>5. /\ sent[0] = par
      /\ sent[1] = bit[0] /\ sent[2] = bit[1] /\ sent[3] = bit[2] /\ sent[4] = bit[3]
      /\ sent[5] = bit[4] /\ sent[6] = bit[5] /\ sent[7] = bit[6] /\ sent[8] = bit[7]
  BY DEF SentBits, Places
<1>6. sent \in WordBits
  <2>1. ASSUME NEW i \in Places PROVE sent[i] \in {0, 1}
    <3>1. i = 0 \/ i = 1 \/ i = 2 \/ i = 3 \/ i = 4 \/ i = 5 \/ i = 6 \/ i = 7 \/ i = 8
      BY DEF Places
    <3> QED BY <1>1, <1>4, <1>5, <3>1, PlacesAre
  <2> QED BY <2>1 DEF SentBits, WordBits
<1>7. SumOf(sent) = SumOf(bit) + par
  <2> HIDE DEF bit, sent, par
  <2>1. PICK b0, b1, b2, b3, b4, b5, b6, b7, b8 \in Nat :
          /\ bit[0] = b0 /\ bit[1] = b1 /\ bit[2] = b2 /\ bit[3] = b3 /\ bit[4] = b4
          /\ bit[5] = b5 /\ bit[6] = b6 /\ bit[7] = b7 /\ bit[8] = b8
    BY <1>1, BitsAreNumbers
  <2> QED BY <1>1, <1>4, <1>5, <2>1 DEF SumOf
<1>8. WordOf(bit) = byte
  <2>1. \A i \in Places : bit[i] = Zac!Bit(byte, i)
    OBVIOUS
  <2> HIDE DEF bit
  <2>2. /\ bit[0] = byte % 2 /\ bit[1] = (byte \div 2) % 2 /\ bit[2] = (byte \div 4) % 2
        /\ bit[3] = (byte \div 8) % 2 /\ bit[4] = (byte \div 16) % 2 /\ bit[5] = (byte \div 32) % 2
        /\ bit[6] = (byte \div 64) % 2 /\ bit[7] = (byte \div 128) % 2
    BY <2>1 DEF Zac!Bit, Places, Byte
  <2>3. /\ 2 * (byte \div 2) + bit[0] = byte
        /\ 2 * (byte \div 4) + bit[1] = byte \div 2
        /\ 2 * (byte \div 8) + bit[2] = byte \div 4
        /\ 2 * (byte \div 16) + bit[3] = byte \div 8
        /\ 2 * (byte \div 32) + bit[4] = byte \div 16
        /\ 2 * (byte \div 64) + bit[5] = byte \div 32
        /\ 2 * (byte \div 128) + bit[6] = byte \div 64
        /\ bit[7] = byte \div 128
    BY <2>2 DEF Byte
  <2>4. PICK b0, b1, b2, b3, b4, b5, b6, b7, b8 \in Nat :
          /\ bit[0] = b0 /\ bit[1] = b1 /\ bit[2] = b2 /\ bit[3] = b3 /\ bit[4] = b4
          /\ bit[5] = b5 /\ bit[6] = b6 /\ bit[7] = b7 /\ bit[8] = b8
    BY <1>1, BitsAreNumbers
  <2>5. PICK d1, d2, d3, d4, d5, d6 \in Int :
          /\ byte \div 2 = d1 /\ byte \div 4 = d2 /\ byte \div 8 = d3
          /\ byte \div 16 = d4 /\ byte \div 32 = d5 /\ byte \div 64 = d6
    BY DEF Byte
  <2>6. byte = b0 + 2 * b1 + 4 * b2 + 8 * b3 + 16 * b4 + 32 * b5 + 64 * b6 + 128 * b7
    BY <2>3, <2>4, <2>5 DEF Byte
  <2>7. WordOf(bit) = b0 + 2 * b1 + 4 * b2 + 8 * b3 + 16 * b4 + 32 * b5 + 64 * b6 + 128 * b7
    BY <1>1, <2>4 DEF WordOf
  <2> QED BY <2>6, <2>7
<1>9. WordOf(sent) = 2 * WordOf(bit) + par
  <2> HIDE DEF bit, sent, par
  <2>1. PICK b0, b1, b2, b3, b4, b5, b6, b7, b8 \in Nat :
          /\ bit[0] = b0 /\ bit[1] = b1 /\ bit[2] = b2 /\ bit[3] = b3 /\ bit[4] = b4
          /\ bit[5] = b5 /\ bit[6] = b6 /\ bit[7] = b7 /\ bit[8] = b8
    BY <1>1, BitsAreNumbers
  <2>2. PICK p \in Nat : p = par
    BY <1>4
  <2>3. WordOf(sent) = p + 2 * b0 + 4 * b1 + 8 * b2 + 16 * b3 + 32 * b4 + 64 * b5 + 128 * b6 + 256 * b7
    BY ONLY <1>5, <2>1, <2>2 DEF WordOf
  <2>4. WordOf(bit) = b0 + 2 * b1 + 4 * b2 + 8 * b3 + 16 * b4 + 32 * b5 + 64 * b6 + 128 * b7
    BY <1>1, <2>1 DEF WordOf
  <2> QED BY ONLY <2>2, <2>3, <2>4
<1>10. WordOf(sent) \div 2 = byte
  <2> HIDE DEF bit, sent, par
  <2> QED BY <1>4, <1>8, <1>9 DEF Byte
<1>11. SumOf(sent) % 2 = 0
  BY <1>4, <1>7
<1> QED BY <1>6, <1>10, <1>11

(* One wrong bit changes the parity. *)
Flipped(bit, j) == [bit EXCEPT ![j] = 1 - bit[j]]

(* A word of even parity with one bit flipped is one of odd parity.        *)
LEMMA FlippedWord ==
  ASSUME NEW bit \in WordBits, NEW j \in Places, SumOf(bit) % 2 = 0
  PROVE  Flipped(bit, j) \in WordBits /\ SumOf(Flipped(bit, j)) % 2 # 0
PROOF
<1> DEFINE f == Flipped(bit, j)
<1>1. f \in WordBits /\ f[j] = 1 - bit[j] /\ \A i \in Places : i # j => f[i] = bit[i]
  BY PlacesAre DEF WordBits, Flipped
<1>2. SumOf(f) = SumOf(bit) + 1 - 2 * bit[j]
  <2> HIDE DEF f
  <2>1. j = 0 \/ j = 1 \/ j = 2 \/ j = 3 \/ j = 4 \/ j = 5 \/ j = 6 \/ j = 7 \/ j = 8
    BY DEF Places
  <2> QED BY <1>1, <2>1, PlacesAre DEF SumOf, Places
<1>3. SumOf(bit) \in Nat
  BY SumIsNat
<1>4. bit[j] \in {0, 1}
  BY DEF WordBits
<1> QED BY <1>1, <1>2, <1>3, <1>4

-----------------------------------------------------------------------------
(* The decoder at its edges.                                               *)
Fields == {"lastFall", "lastRise", "index", "strobe", "packet", "high", "out"}

(* A decoder that has seen nothing.                                        *)
LEMMA NewDecoderIs ==
  LET d == Zac!NewDecoder
  IN  DOMAIN d = Fields /\ d.lastRise = Zac!None
PROOF BY DEF Zac!NewDecoder, Fields

(* A falling edge notes its time and, after a gap, begins a frame.         *)
LEMMA FallIs ==
  ASSUME NEW d, DOMAIN d = Fields, NEW t
  PROVE  LET f == Zac!Fall(d, t)
         IN  /\ DOMAIN f = Fields /\ f.lastFall = t /\ f.lastRise = d.lastRise
             /\ f.strobe = d.strobe /\ f.packet = d.packet /\ f.high = d.high
             /\ f.out = Zac!Nothing
             /\ f.index = IF d.lastRise = Zac!None \/ t - d.lastRise >= Zac!FrameGap THEN 0
                          ELSE d.index
PROOF
<1>1. PICK next : next = IF d.lastRise = Zac!None \/ t - d.lastRise >= Zac!FrameGap THEN 0
                         ELSE d.index
  OBVIOUS
<1>2. Zac!Fall(d, t) = [d EXCEPT !.lastFall = t, !.out = Zac!Nothing, !.index = next]
  BY <1>1, Zenon DEF Zac!Fall
<1>3. PICK f : f = [d EXCEPT !.lastFall = t, !.out = Zac!Nothing, !.index = next]
  OBVIOUS
<1>4. /\ DOMAIN f = Fields /\ f.lastFall = t /\ f.lastRise = d.lastRise
      /\ f.strobe = d.strobe /\ f.packet = d.packet /\ f.high = d.high
      /\ f.out = Zac!Nothing /\ f.index = next
  BY <1>3 DEF Fields
<1> QED BY <1>1, <1>2, <1>3, <1>4, Zenon

Shift(packet, low, strobe) == 2 * packet + (IF low < strobe THEN 1 ELSE 0)

(* A decoder that has stopped waits for the next frame.                    *)
LEMMA RisesStopped ==
  ASSUME NEW d, DOMAIN d = Fields, d.index = Zac!None, NEW t
  PROVE  LET f == Zac!Rise(d, t)
         IN  DOMAIN f = Fields /\ f.lastRise = t /\ f.index = Zac!None /\ f.out = Zac!Nothing
PROOF
<1>1. Zac!Rise(d, t) = [d EXCEPT !.lastRise = t, !.out = Zac!Nothing]
  BY Zenon DEF Zac!Rise
<1>2. PICK f : f = [d EXCEPT !.lastRise = t, !.out = Zac!Nothing]
  OBVIOUS
<1>3. DOMAIN f = Fields /\ f.lastRise = t /\ f.index = Zac!None /\ f.out = Zac!Nothing
  BY <1>2 DEF Fields
<1> QED BY <1>1, <1>2, <1>3, Zenon

(* The low of a start bit is the strobe, or no sensor's.                   *)
LEMMA RisesAtStart ==
  ASSUME NEW d, DOMAIN d = Fields, d.index \in {0, 10}, d.lastFall \in Nat, NEW t \in Nat
  PROVE  LET f == Zac!Rise(d, t)
             low == t - d.lastFall
         IN  /\ DOMAIN f = Fields /\ f.lastRise = t
             /\ low \in Zac!StartBit =>
                  /\ f.index = d.index + 1 /\ f.packet = 0 /\ f.strobe = low /\ f.high = d.high
                  /\ f.out = Zac!Nothing
             /\ low \notin Zac!StartBit => f.index = Zac!None /\ f.out = Zac!Framing
PROOF
<1>1. PICK low : low = t - d.lastFall
  OBVIOUS
<1>2. /\ d.lastFall # Zac!None /\ d.index # Zac!None /\ d.index % 10 = 0 /\ ~(d.index % 10 = 9)
      /\ d.index # 19 /\ d.index # 9
  BY DEF Zac!None
<1>3. PICK f : f = Zac!Rise(d, t)
  OBVIOUS
<1>4. CASE low \in Zac!StartBit
  <2>1. f = [d EXCEPT !.lastRise = t, !.index = d.index + 1, !.packet = 0, !.out = Zac!Nothing,
                      !.strobe = low, !.high = d.high]
    BY ONLY <1>1, <1>2, <1>3, <1>4 DEF Zac!Rise
  <2>2. /\ DOMAIN f = Fields /\ f.lastRise = t /\ f.index = d.index + 1 /\ f.packet = 0
        /\ f.strobe = low /\ f.high = d.high /\ f.out = Zac!Nothing
    BY ONLY DOMAIN d = Fields, <2>1 DEF Fields
  <2> QED BY <1>1, <1>3, <1>4, <2>2
<1>5. CASE low \notin Zac!StartBit
  <2>1. f = [d EXCEPT !.lastRise = t, !.index = Zac!None, !.packet = 0, !.out = Zac!Framing]
    BY ONLY <1>1, <1>2, <1>3, <1>5 DEF Zac!Rise
  <2>2. DOMAIN f = Fields /\ f.lastRise = t /\ f.index = Zac!None /\ f.out = Zac!Framing
    BY ONLY DOMAIN d = Fields, <2>1 DEF Fields
  <2> QED BY <1>1, <1>3, <1>5, <2>2
<1> QED BY <1>4, <1>5

(* A bit within a word is shifted in.                                      *)
LEMMA RisesWithin ==
  ASSUME NEW d, DOMAIN d = Fields, d.index \in (1 .. 8) \cup (11 .. 18), d.lastFall \in Nat,
         NEW t \in Nat
  PROVE  LET f == Zac!Rise(d, t)
         IN  /\ DOMAIN f = Fields /\ f.lastRise = t /\ f.index = d.index + 1
             /\ f.packet = Shift(d.packet, t - d.lastFall, d.strobe)
             /\ f.strobe = d.strobe /\ f.high = d.high /\ f.out = Zac!Nothing
PROOF
<1>1. PICK word : word = Shift(d.packet, t - d.lastFall, d.strobe)
  OBVIOUS
<1>2. /\ d.lastFall # Zac!None /\ d.index # Zac!None /\ ~(d.index % 10 = 0) /\ ~(d.index % 10 = 9)
      /\ d.index # 19 /\ d.index # 9
      /\ word = 2 * d.packet + (IF t - d.lastFall < d.strobe THEN 1 ELSE 0)
  BY <1>1 DEF Zac!None, Shift
<1>3. PICK f : f = Zac!Rise(d, t)
  OBVIOUS
<1>4. f = [d EXCEPT !.lastRise = t, !.index = d.index + 1, !.packet = word, !.out = Zac!Nothing,
                    !.strobe = d.strobe, !.high = d.high]
  BY ONLY <1>2, <1>3 DEF Zac!Rise
<1>5. /\ DOMAIN f = Fields /\ f.lastRise = t /\ f.index = d.index + 1 /\ f.packet = word
      /\ f.strobe = d.strobe /\ f.high = d.high /\ f.out = Zac!Nothing
  BY ONLY DOMAIN d = Fields, <1>4 DEF Fields
<1> QED BY <1>1, <1>3, <1>5

(* The last bit of a word settles the word, or the frame.                  *)
LEMMA RisesAtParity ==
  ASSUME NEW d, DOMAIN d = Fields, d.index \in {9, 19}, d.lastFall \in Nat, NEW t \in Nat,
         NEW word, word = Shift(d.packet, t - d.lastFall, d.strobe)
  PROVE  LET f == Zac!Rise(d, t)
         IN  /\ DOMAIN f = Fields /\ f.lastRise = t
             /\ Zac!Ones(word) % 2 # 0 => f.index = Zac!None /\ f.out = Zac!Parity
             /\ Zac!Ones(word) % 2 = 0 /\ d.index = 9 =>
                  /\ f.index = 10 /\ f.packet = word /\ f.strobe = d.strobe
                  /\ f.high = word \div 2 /\ f.out = Zac!Nothing
             /\ Zac!Ones(word) % 2 = 0 /\ d.index = 19 =>
                  /\ f.index = Zac!None
                  /\ f.out = IF d.high > 7 THEN Zac!Framing
                             ELSE Zac!Ok(256 * d.high + (word \div 2))
PROOF
<1>1. PICK odd \in BOOLEAN : odd <=> Zac!Ones(word) % 2 # 0
  BY Zenon
<1>2. /\ d.lastFall # Zac!None /\ d.index # Zac!None /\ ~(d.index % 10 = 0) /\ d.index % 10 = 9
      /\ word = 2 * d.packet + (IF t - d.lastFall < d.strobe THEN 1 ELSE 0)
  BY DEF Zac!None, Shift
<1>3. PICK f : f = Zac!Rise(d, t)
  OBVIOUS
<1>4. CASE odd
  <2>1. f = [d EXCEPT !.lastRise = t, !.index = Zac!None, !.packet = word, !.out = Zac!Parity]
    BY ONLY <1>1, <1>2, <1>3, <1>4 DEF Zac!Rise
  <2>2. DOMAIN f = Fields /\ f.lastRise = t /\ f.index = Zac!None /\ f.out = Zac!Parity
    BY ONLY DOMAIN d = Fields, <2>1 DEF Fields
  <2> QED BY <1>1, <1>3, <1>4, <2>2
<1>5. CASE ~odd /\ d.index = 9
  <2>1. d.index + 1 = 10 /\ d.index # 19
    BY <1>5
  <2>2. f = [d EXCEPT !.lastRise = t, !.index = 10, !.packet = word, !.out = Zac!Nothing,
                      !.strobe = d.strobe, !.high = word \div 2]
    BY ONLY <1>1, <1>2, <1>3, <1>5, <2>1 DEF Zac!Rise
  <2>3. /\ DOMAIN f = Fields /\ f.lastRise = t /\ f.index = 10 /\ f.packet = word
        /\ f.strobe = d.strobe /\ f.high = word \div 2 /\ f.out = Zac!Nothing
    BY ONLY DOMAIN d = Fields, <2>2 DEF Fields
  <2> QED BY <1>1, <1>3, <1>5, <2>3
<1>6. CASE ~odd /\ d.index = 19
  <2>1. PICK result : result = IF d.high > 7 THEN Zac!Framing
                               ELSE Zac!Ok(256 * d.high + (word \div 2))
    OBVIOUS
  <2>2. f = [d EXCEPT !.lastRise = t, !.index = Zac!None, !.packet = word, !.out = result]
    BY ONLY <1>1, <1>2, <1>3, <1>6, <2>1 DEF Zac!Rise
  <2>3. DOMAIN f = Fields /\ f.lastRise = t /\ f.index = Zac!None /\ f.out = result
    BY ONLY DOMAIN d = Fields, <2>2 DEF Fields
  <2> QED BY <1>1, <1>3, <1>6, <2>1, <2>3
<1> QED BY <1>1, <1>4, <1>5, <1>6

(* The bits of a word come in from the left.                               *)
LEMMA ShiftsIn ==
  ASSUME NEW bit \in WordBits, NEW i \in 0 .. 8
  PROVE  bit[i] \in {0, 1} /\ 2 * (WordOf(bit) \div 2^(i + 1)) + bit[i] = WordOf(bit) \div 2^i
PROOF
<1>1. WordOf(bit) \in Word /\ i \in Places /\ Zac!Bit(WordOf(bit), i) = bit[i] /\ bit[i] \in {0, 1}
  BY BitsOfWord DEF Places, WordBits
<1> QED BY <1>1, BitShiftsIn

-----------------------------------------------------------------------------
(* The lows of twenty bits, of which those after a start bit read as the   *)
(* bits of two words, the highest first.                                   *)
Reads(low, one, two) ==
  /\ low \in [0 .. 19 -> Nat] /\ one \in WordBits /\ two \in WordBits
  /\ low[10] \in Zac!StartBit
  /\ \A k \in 1 .. 9 : /\ low[0] \in Zac!StartBit => (low[k] < low[0] <=> one[9 - k] = 1)
                       /\ low[10 + k] < low[10] <=> two[9 - k] = 1

(* What such bits decode to.                                               *)
Verdict(low, one, two) ==
  IF low[0] \notin Zac!StartBit THEN Zac!Framing
  ELSE IF SumOf(one) % 2 # 0 \/ SumOf(two) % 2 # 0 THEN Zac!Parity
  ELSE IF WordOf(one) \div 2 > 7 THEN Zac!Framing
  ELSE Zac!Ok(256 * (WordOf(one) \div 2) + (WordOf(two) \div 2))

(* The decoder after the rising edge of a bit, and the last result: it has *)
(* read the bits so far, or come to its verdict and waits.                 *)
HasRead(k, low, one, two, d) ==
  /\ k < 19 /\ low[0] \in Zac!StartBit
  /\ d.index = k + 1
  /\ d.strobe = IF k < 10 THEN low[0] ELSE low[10]
  /\ d.packet = IF k < 10 THEN WordOf(one) \div 2^(9 - k) ELSE WordOf(two) \div 2^(19 - k)
  /\ k >= 9 => SumOf(one) % 2 = 0 /\ d.high = WordOf(one) \div 2
AtBit(k, low, one, two, t, d, r) ==
  /\ t \in Nat /\ DOMAIN d = Fields /\ d.lastRise = t
  /\ \/ HasRead(k, low, one, two, d) /\ r = Zac!Nothing
     \/ d.index = Zac!None /\ r = Verdict(low, one, two)

(* A result is never nothing.                                              *)
LEMMA Results ==
  /\ Zac!Framing # Zac!Nothing /\ Zac!Parity # Zac!Nothing
  /\ \A raw : Zac!Ok(raw) # Zac!Nothing
PROOF BY DEF Zac!Framing, Zac!Parity, Zac!Nothing, Zac!Ok

(* The first start bit.                                                    *)
LEMMA FirstBit ==
  ASSUME NEW low, NEW one, NEW two, Reads(low, one, two), NEW r, r = Zac!Nothing
  PROVE  LET fallen == Zac!Fall(Zac!NewDecoder, 0)
             risen == Zac!Rise(fallen, low[0])
         IN  /\ AtBit(0, low, one, two, low[0], risen, Zac!Latest(risen, Zac!Latest(fallen, r)))
PROOF
<1>1. PICK fallen : fallen = Zac!Fall(Zac!NewDecoder, 0)
  OBVIOUS
<1>2. /\ DOMAIN fallen = Fields /\ fallen.lastFall = 0 /\ fallen.index = 0
      /\ fallen.out = Zac!Nothing
  BY <1>1, NewDecoderIs, FallIs
<1>3. PICK risen : risen = Zac!Rise(fallen, low[0])
  OBVIOUS
<1>4. low[0] \in Nat /\ low[0] - 0 = low[0] /\ WordOf(one) \in Word
  BY BitsOfWord DEF Reads
<1>5. /\ DOMAIN risen = Fields /\ risen.lastRise = low[0]
      /\ low[0] \in Zac!StartBit => /\ risen.index = 1 /\ risen.packet = 0
                                    /\ risen.strobe = low[0] /\ risen.out = Zac!Nothing
      /\ low[0] \notin Zac!StartBit => risen.index = Zac!None /\ risen.out = Zac!Framing
  <2>1. fallen.index \in {0, 10} /\ fallen.lastFall \in Nat /\ fallen.index + 1 = 1
        /\ low[0] - fallen.lastFall = low[0]
    BY <1>2, <1>4
  <2> QED BY <1>2, <1>3, <1>4, <2>1, RisesAtStart
<1>6. PICK result : result = Zac!Latest(risen, Zac!Latest(fallen, r))
  OBVIOUS
<1>7. result = IF risen.out = Zac!Nothing THEN Zac!Nothing ELSE risen.out
  BY <1>2, <1>6 DEF Zac!Latest
<1>8. CASE low[0] \in Zac!StartBit
  <2>1. 0 + 1 = 1 /\ 9 - 0 = 9 /\ WordOf(one) \div 2^9 = 0
    BY <1>4 DEF Word
  <2>2. HasRead(0, low, one, two, risen)
    BY <1>5, <1>8, <2>1 DEF HasRead
  <2>3. AtBit(0, low, one, two, low[0], risen, result)
    BY <1>4, <1>5, <1>7, <1>8, <2>2 DEF AtBit
  <2> QED BY <1>1, <1>3, <1>6, <2>3
<1>9. CASE low[0] \notin Zac!StartBit
  <2>1. result = Verdict(low, one, two)
    BY <1>5, <1>7, <1>9, Results DEF Verdict
  <2>2. AtBit(0, low, one, two, low[0], risen, result)
    BY <1>4, <1>5, <1>9, <2>1 DEF AtBit
  <2> QED BY <1>1, <1>3, <1>6, <2>2
<1> QED BY <1>8, <1>9

(* From the rising edge of one bit, over its high and the next low.        *)
LEMMA NextBit ==
  ASSUME NEW low, NEW one, NEW two, Reads(low, one, two), NEW k \in 0 .. 18,
         NEW t, NEW d, NEW r, AtBit(k, low, one, two, t, d, r),
         NEW t1 \in Nat, t1 - t < 1000, NEW t2, t2 = t1 + low[k + 1]
  PROVE  LET fallen == Zac!Fall(d, t1)
             risen == Zac!Rise(fallen, t2)
         IN  AtBit(k + 1, low, one, two, t2, risen, Zac!Latest(risen, Zac!Latest(fallen, r)))
PROOF
<1>1. PICK n, l : n = k + 1 /\ l = low[k + 1]
  OBVIOUS
<1>2. n \in 1 .. 19 /\ l \in Nat /\ t \in Nat /\ t2 - t1 = l /\ t2 \in Nat
  BY <1>1 DEF Reads, AtBit
<1>3. PICK fallen : fallen = Zac!Fall(d, t1)
  OBVIOUS
<1>4. /\ DOMAIN fallen = Fields /\ fallen.lastFall = t1 /\ fallen.out = Zac!Nothing
      /\ fallen.strobe = d.strobe /\ fallen.packet = d.packet /\ fallen.high = d.high
      /\ fallen.index = d.index
  <2>1. d.lastRise # Zac!None /\ ~(t1 - d.lastRise >= Zac!FrameGap) /\ DOMAIN d = Fields
    BY <1>2 DEF AtBit, Zac!None, Zac!FrameGap
  <2> QED BY <1>3, <2>1, FallIs
<1>5. PICK risen : risen = Zac!Rise(fallen, t2)
  OBVIOUS
<1>6. PICK result : result = Zac!Latest(risen, Zac!Latest(fallen, r))
  OBVIOUS
<1>7. result = IF risen.out = Zac!Nothing THEN r ELSE risen.out
  BY <1>4, <1>6 DEF Zac!Latest
<1>8. SUFFICES AtBit(n, low, one, two, t2, risen, result)
  BY <1>1, <1>3, <1>5, <1>6
<1>9. CASE d.index = Zac!None /\ r = Verdict(low, one, two)
  <2>1. /\ DOMAIN risen = Fields /\ risen.lastRise = t2 /\ risen.index = Zac!None
        /\ risen.out = Zac!Nothing
    BY <1>4, <1>5, <1>9, RisesStopped
  <2> QED BY <1>2, <1>7, <1>9, <2>1 DEF AtBit
<1>10. CASE HasRead(k, low, one, two, d) /\ r = Zac!Nothing
  <2>1. /\ fallen.index = n /\ low[0] \in Zac!StartBit
        /\ fallen.strobe = IF k < 10 THEN low[0] ELSE low[10]
        /\ fallen.packet = IF k < 10 THEN WordOf(one) \div 2^(9 - k) ELSE WordOf(two) \div 2^(19 - k)
        /\ k >= 9 => SumOf(one) % 2 = 0 /\ fallen.high = WordOf(one) \div 2
    BY <1>1, <1>4, <1>10 DEF HasRead
  <2>2. PICK word : word = Shift(fallen.packet, l, fallen.strobe)
    OBVIOUS
  <2>3. fallen.lastFall \in Nat /\ word = Shift(fallen.packet, t2 - fallen.lastFall, fallen.strobe)
    BY <1>2, <1>4, <2>2
  <2>4. n # 10 => word = IF n < 10 THEN WordOf(one) \div 2^(9 - n) ELSE WordOf(two) \div 2^(19 - n)
    <3>1. CASE n \in 1 .. 9
      <4>1. l < fallen.strobe <=> one[9 - n] = 1
        BY <1>1, <2>1, <3>1 DEF Reads
      <4>2. /\ one \in WordBits /\ fallen.packet = WordOf(one) \div 2^((9 - n) + 1)
            /\ 9 - n \in 0 .. 8
        BY <1>1, <2>1, <3>1 DEF Reads
      <4>3. word = WordOf(one) \div 2^(9 - n)
        <5>1. PICK i, b : i = 9 - n /\ b = one[i]
          OBVIOUS
        <5>2. b \in {0, 1} /\ 2 * fallen.packet + b = WordOf(one) \div 2^i
          BY <4>2, <5>1, ShiftsIn
        <5>3. word = 2 * fallen.packet + b
          BY <2>2, <4>1, <5>1, <5>2 DEF Shift
        <5> QED BY <5>1, <5>2, <5>3
      <4> QED BY <3>1, <4>3
    <3>2. CASE n \in 11 .. 19
      <4>1. l < fallen.strobe <=> two[19 - n] = 1
        <5>1. n - 10 \in 1 .. 9 /\ 10 + (n - 10) = n /\ 9 - (n - 10) = 19 - n
          BY <3>2
        <5> QED BY <1>1, <2>1, <3>2, <5>1 DEF Reads
      <4>2. /\ two \in WordBits /\ fallen.packet = WordOf(two) \div 2^((19 - n) + 1)
            /\ 19 - n \in 0 .. 8
        BY <1>1, <2>1, <3>2 DEF Reads
      <4>3. word = WordOf(two) \div 2^(19 - n)
        <5>1. PICK i, b : i = 19 - n /\ b = two[i]
          OBVIOUS
        <5>2. b \in {0, 1} /\ 2 * fallen.packet + b = WordOf(two) \div 2^i
          BY <4>2, <5>1, ShiftsIn
        <5>3. word = 2 * fallen.packet + b
          BY <2>2, <4>1, <5>1, <5>2 DEF Shift
        <5> QED BY <5>1, <5>2, <5>3
      <4> QED BY <3>2, <4>3
    <3> QED BY <1>2, <3>1, <3>2
  <2>5. CASE n \in (1 .. 8) \cup (11 .. 18)
    <3>1. /\ DOMAIN risen = Fields /\ risen.lastRise = t2 /\ risen.index = n + 1
          /\ risen.packet = word /\ risen.strobe = fallen.strobe /\ risen.high = fallen.high
          /\ risen.out = Zac!Nothing
      BY <1>2, <1>4, <1>5, <2>1, <2>3, <2>5, RisesWithin
    <3>2. /\ fallen.strobe = IF n < 10 THEN low[0] ELSE low[10]
          /\ n < 19 /\ n # 10
          /\ n >= 9 => SumOf(one) % 2 = 0 /\ fallen.high = WordOf(one) \div 2
      BY <1>1, <2>1, <2>5
    <3>3. HasRead(n, low, one, two, risen)
      BY <2>1, <2>4, <3>1, <3>2 DEF HasRead
    <3> QED BY <1>2, <1>7, <1>10, <3>1, <3>3 DEF AtBit
  <2>6. CASE n = 10
    <3>1. l \in Zac!StartBit /\ l = low[10] /\ t2 - fallen.lastFall = l /\ fallen.index + 1 = 11
      BY <1>1, <1>2, <1>4, <2>1, <2>6 DEF Reads
    <3>2. /\ DOMAIN risen = Fields /\ risen.lastRise = t2 /\ risen.index = 11
          /\ risen.packet = 0 /\ risen.strobe = l /\ risen.high = fallen.high
          /\ risen.out = Zac!Nothing
      BY <1>2, <1>4, <1>5, <2>1, <2>3, <2>6, <3>1, RisesAtStart
    <3>3. WordOf(two) \div 2^(19 - n) = 0
      <4>1. WordOf(two) \in Word
        BY BitsOfWord DEF Reads
      <4>2. 19 - n = 9
        BY <2>6
      <4>3. WordOf(two) \div 2^9 = 0
        BY <4>1 DEF Word
      <4> QED BY <4>2, <4>3
    <3>4. /\ n < 19 /\ ~(n < 10) /\ n + 1 = 11 /\ SumOf(one) % 2 = 0
          /\ fallen.high = WordOf(one) \div 2
      BY <1>1, <2>1, <2>6
    <3>5. HasRead(n, low, one, two, risen)
      BY <2>1, <3>1, <3>2, <3>3, <3>4 DEF HasRead
    <3> QED BY <1>2, <1>7, <1>10, <3>2, <3>5 DEF AtBit
  <2>7. CASE n = 9
    <3>1. word = WordOf(one)
      <4>1. WordOf(one) \in Word
        BY BitsOfWord DEF Reads
      <4>2. 9 - n = 0 /\ WordOf(one) \div 2^0 = WordOf(one)
        BY <2>7, <4>1 DEF Word
      <4> QED BY <2>4, <2>7, <4>2
    <3>2. Zac!Ones(word) = SumOf(one)
      BY <3>1, OnesOfWord DEF Reads
    <3>3. /\ DOMAIN risen = Fields /\ risen.lastRise = t2
          /\ Zac!Ones(word) % 2 # 0 => risen.index = Zac!None /\ risen.out = Zac!Parity
          /\ Zac!Ones(word) % 2 = 0 => /\ risen.index = 10 /\ risen.packet = word
                                       /\ risen.strobe = fallen.strobe
                                       /\ risen.high = word \div 2 /\ risen.out = Zac!Nothing
      BY <1>2, <1>4, <1>5, <2>1, <2>3, <2>7, RisesAtParity
    <3>4. CASE SumOf(one) % 2 # 0
      <4>1. Verdict(low, one, two) = Zac!Parity
        BY <2>1, <3>4 DEF Verdict
      <4> QED BY <1>2, <1>7, <3>2, <3>3, <3>4, <4>1, Results DEF AtBit
    <3>5. CASE SumOf(one) % 2 = 0
      <4>1. n < 19 /\ n < 10 /\ n + 1 = 10 /\ fallen.strobe = low[0] /\ n >= 9 /\ n # 10
        BY <1>1, <2>1, <2>7
      <4>2. HasRead(n, low, one, two, risen)
        BY <2>1, <2>4, <3>1, <3>2, <3>3, <3>5, <4>1 DEF HasRead
      <4> QED BY <1>2, <1>7, <1>10, <3>2, <3>3, <3>5, <4>2 DEF AtBit
    <3> QED BY <3>4, <3>5
  <2>8. CASE n = 19
    <3>1. word = WordOf(two)
      <4>1. WordOf(two) \in Word
        BY BitsOfWord DEF Reads
      <4>2. 19 - n = 0 /\ WordOf(two) \div 2^0 = WordOf(two)
        BY <2>8, <4>1 DEF Word
      <4> QED BY <2>4, <2>8, <4>2
    <3>2. Zac!Ones(word) = SumOf(two)
      BY <3>1, OnesOfWord DEF Reads
    <3>3. /\ DOMAIN risen = Fields /\ risen.lastRise = t2
          /\ Zac!Ones(word) % 2 # 0 => risen.index = Zac!None /\ risen.out = Zac!Parity
          /\ Zac!Ones(word) % 2 = 0 => /\ risen.index = Zac!None
                                       /\ risen.out = IF fallen.high > 7 THEN Zac!Framing
                                            ELSE Zac!Ok(256 * fallen.high + (word \div 2))
      BY <1>2, <1>4, <1>5, <2>1, <2>3, <2>8, RisesAtParity
    <3>4. SumOf(one) % 2 = 0 /\ fallen.high = WordOf(one) \div 2
      BY <1>1, <2>1, <2>8
    <3>5. risen.index = Zac!None /\ risen.out = Verdict(low, one, two)
      <4>1. SumOf(two) % 2 = 0 \/ SumOf(two) % 2 # 0
        OBVIOUS
      <4> QED BY <2>1, <3>1, <3>2, <3>3, <3>4, <4>1 DEF Verdict
    <3>6. Verdict(low, one, two) # Zac!Nothing
      BY Results, ZenonT(30) DEF Verdict
    <3> QED BY <1>2, <1>7, <3>3, <3>5, <3>6 DEF AtBit
  <2> QED BY <1>2, <2>5, <2>6, <2>7, <2>8
<1> QED BY <1>9, <1>10 DEF AtBit

-----------------------------------------------------------------------------
(* The decoder is fed by recursion over the pulses.                        *)
Unfed == [decoder |-> Zac!NewDecoder, t |-> 0, result |-> Zac!Nothing]
FedOf(pulses, n, f) == f = [k \in 0 .. n |-> IF k = 0 THEN Unfed ELSE Zac!Feed(f[k - 1], pulses[k])]

(* The states of the decoder along a capture, as a function.               *)
LEMMA FedExists ==
  ASSUME NEW pulses, NEW n \in Nat
  PROVE  \E f : FedOf(pulses, n, f)
PROOF
<1> DEFINE Fails == {m \in Nat : ~\E f : FedOf(pulses, m, f)}
<1>1. 0 \notin Fails
  <2>1. FedOf(pulses, 0, [k \in 0 .. 0 |-> Unfed])
    BY DEF FedOf
  <2> QED BY <2>1
<1>2. ASSUME NEW m \in Nat, m \notin Fails PROVE m + 1 \notin Fails
  <2>1. PICK f : FedOf(pulses, m, f)
    BY <1>2
  <2> DEFINE g == [k \in 0 .. m + 1 |-> IF k = m + 1 THEN Zac!Feed(f[m], pulses[m + 1]) ELSE f[k]]
  <2>2. FedOf(pulses, m + 1, g)
    BY <2>1 DEF FedOf
  <2> QED BY <2>2
<1> HIDE DEF Fails
<1>3. Fails \subseteq Nat
  BY DEF Fails
<1>4. Fails = {}
  BY <1>1, <1>2, <1>3, NoLeastFailure
<1> QED BY <1>4 DEF Fails

(* The states of the decoder between the pulses.                           *)
Feeds(pulses, n, f) == f[0] = Unfed /\ \A i \in 1 .. n : f[i] = Zac!Feed(f[i - 1], pulses[i])

(* The last of them is what the capture is fed to.                         *)
LEMMA FeedAllIs ==
  ASSUME NEW pulses, NEW n \in Nat, Len(pulses) = n
  PROVE  \E f : Feeds(pulses, n, f) /\ Zac!FeedAll(pulses) = f[n]
PROOF
<1> DEFINE f == CHOOSE g : FedOf(pulses, n, g)
<1>1. FedOf(pulses, n, f)
  BY FedExists
<1>2. Zac!FeedAll(pulses) = f[n]
  BY Zenon DEF Zac!FeedAll, FedOf, Unfed
<1>3. PICK g : g = f
  OBVIOUS
<1>4. g = [k \in 0 .. n |-> IF k = 0 THEN Unfed ELSE Zac!Feed(g[k - 1], pulses[k])]
  BY <1>1, <1>3, Zenon DEF FedOf
<1>5. g[0] = Unfed
  BY <1>4
<1>6. ASSUME NEW i \in 1 .. n PROVE g[i] = Zac!Feed(g[i - 1], pulses[i])
  <2>1. i \in 0 .. n /\ i # 0
    OBVIOUS
  <2> QED BY <1>4, <2>1
<1> QED BY <1>2, <1>3, <1>5, <1>6 DEF Feeds

(* The pulses of twenty bits, as many of them as were captured; the lows   *)
(* and highs are those of bit 0 to 19.                                     *)
LowPulse(length) == <<FALSE, length>>
HighPulse(length) == <<TRUE, length>>
PulseAt(i, low, high) == IF i % 2 = 1 THEN LowPulse(low[i \div 2]) ELSE HighPulse(high[(i \div 2) - 1])
IsFrame(pulses, n, low, high) ==
  /\ n = 39 \/ n = 40
  /\ Len(pulses) = n
  /\ \A k \in 0 .. 19 : high[k] \in Nat /\ high[k] < 1000
  /\ \A i \in 1 .. n : pulses[i] = PulseAt(i, low, high)

Rising(s) == Zac!Rise(s.decoder, s.t)

(* A high pulse begins with a rising edge.                                 *)
LEMMA FeedsHigh ==
  ASSUME NEW s, NEW length
  PROVE  LET fed == Zac!Feed(s, HighPulse(length))
         IN  /\ fed.decoder = Rising(s) /\ fed.t = s.t + length
             /\ fed.result = Zac!Latest(Rising(s), s.result)
PROOF
<1>1. PICK d, r : d = Rising(s) /\ r = Zac!Latest(Rising(s), s.result)
  OBVIOUS
<1>2. Zac!Feed(s, HighPulse(length)) = [decoder |-> d, t |-> s.t + length, result |-> r]
  BY <1>1 DEF Zac!Feed, Zac!Edge, Rising, HighPulse
<1> QED BY <1>1, <1>2

(* A low pulse begins with a falling edge.                                 *)
LEMMA FeedsLow ==
  ASSUME NEW s, NEW length
  PROVE  LET fed == Zac!Feed(s, LowPulse(length))
             fallen == Zac!Fall(s.decoder, s.t)
         IN  /\ fed.decoder = fallen /\ fed.t = s.t + length
             /\ fed.result = Zac!Latest(fallen, s.result)
PROOF
<1>1. PICK d, r : d = Zac!Fall(s.decoder, s.t) /\ r = Zac!Latest(Zac!Fall(s.decoder, s.t), s.result)
  OBVIOUS
<1>2. Zac!Feed(s, LowPulse(length)) = [decoder |-> d, t |-> s.t + length, result |-> r]
  BY <1>1 DEF Zac!Feed, Zac!Edge, LowPulse
<1> QED BY <1>1, <1>2

LowOf(k, i) == i \in Nat /\ i = 2 * k + 1
HighOf(k, i) == i \in Nat /\ i = 2 * k + 2

(* The low and the high of a bit in their places.                          *)
LEMMA FramePulse ==
  ASSUME NEW pulses, NEW low, NEW high, NEW n, IsFrame(pulses, n, low, high),
         NEW k \in 0 .. 19, NEW i
  PROVE  /\ LowOf(k, i) => i \in 1 .. n /\ pulses[i] = LowPulse(low[k])
         /\ HighOf(k, i) /\ i <= n =>
              i \in 1 .. n /\ pulses[i] = HighPulse(high[k])
         /\ high[k] \in Nat /\ high[k] < 1000
PROOF
<1>1. n \in Nat /\ (n = 39 \/ n = 40)
  BY DEF IsFrame
<1>2. ASSUME i \in 1 .. n PROVE pulses[i] = PulseAt(i, low, high)
  BY <1>1, <1>2 DEF IsFrame
<1>3. ASSUME LowOf(k, i) PROVE i \in 1 .. n /\ pulses[i] = LowPulse(low[k])
  <2>1. i \in Nat /\ i = 2 * k + 1 /\ k \in Nat /\ k <= 19
    BY <1>3 DEF LowOf
  <2>2. i % 2 = 1 /\ i \div 2 = k
    BY ONLY <2>1
  <2>3. i \in 1 .. n
    BY ONLY <1>1, <2>1
  <2> QED BY <1>2, <2>2, <2>3 DEF PulseAt
<1>4. ASSUME HighOf(k, i), i <= n PROVE i \in 1 .. n /\ pulses[i] = HighPulse(high[k])
  <2>1. i \in 1 .. n /\ ~(i % 2 = 1) /\ (i \div 2) - 1 = k
    BY <1>1, <1>4 DEF HighOf
  <2> QED BY <1>2, <2>1 DEF PulseAt
<1>5. high[k] \in Nat /\ high[k] < 1000
  BY ZenonT(60) DEF IsFrame
<1> QED BY <1>1, <1>3, <1>4, <1>5

(* From the rising edge of one bit to that of the next. *)
LEMMA FeedsBit ==
  ASSUME NEW low, NEW one, NEW two, Reads(low, one, two), NEW k \in 0 .. 18,
         NEW a, AtBit(k, low, one, two, a.t, Rising(a), Zac!Latest(Rising(a), a.result)),
         NEW high \in Nat, high < 1000
  PROVE  LET b == Zac!Feed(a, HighPulse(high))
             c == Zac!Feed(b, LowPulse(low[k + 1]))
         IN  AtBit(k + 1, low, one, two, c.t, Rising(c), Zac!Latest(Rising(c), c.result))
PROOF
<1>1. PICK b, c : b = Zac!Feed(a, HighPulse(high)) /\ c = Zac!Feed(b, LowPulse(low[k + 1]))
  OBVIOUS
<1>2. PICK d, r, t, t1, t2, fallen :
        /\ d = Rising(a) /\ r = Zac!Latest(Rising(a), a.result) /\ t = a.t
        /\ t1 = t + high /\ t2 = t1 + low[k + 1] /\ fallen = Zac!Fall(d, t1)
  OBVIOUS
<1>3. b.decoder = d /\ b.t = t1 /\ b.result = r
  BY <1>1, <1>2, FeedsHigh
<1>4. c.decoder = fallen /\ c.t = t2 /\ c.result = Zac!Latest(fallen, r)
  <2>1. b.decoder = d /\ b.t = t1 /\ b.result = r /\ c = Zac!Feed(b, LowPulse(low[k + 1]))
    BY <1>1, <1>3
  <2>2. c.decoder = Zac!Fall(b.decoder, b.t) /\ c.t = b.t + low[k + 1]
        /\ c.result = Zac!Latest(Zac!Fall(b.decoder, b.t), b.result)
    BY <2>1, FeedsLow, ZenonT(30)
  <2>3. fallen = Zac!Fall(d, t1) /\ t2 = t1 + low[k + 1]
    BY <1>2
  <2> QED BY ONLY <2>1, <2>2, <2>3
<1>5. AtBit(k, low, one, two, t, d, r)
  BY <1>2
<1>6. t1 \in Nat /\ t1 - t < 1000
  BY <1>2, <1>5 DEF AtBit
<1>7. t2 = t1 + low[k + 1]
  BY <1>2
<1>8. AtBit(k + 1, low, one, two, t2, Zac!Rise(fallen, t2),
            Zac!Latest(Zac!Rise(fallen, t2), Zac!Latest(fallen, r)))
  BY <1>2, <1>5, <1>6, <1>7, NextBit
<1>9. AtBit(k + 1, low, one, two, c.t, Rising(c), Zac!Latest(Rising(c), c.result))
  BY <1>4, <1>8 DEF Rising
<1> QED BY <1>1, <1>9

(* Bit by bit the decoder reads the frame.                                 *)
LEMMA EveryBitIsRead ==
  ASSUME NEW low, NEW one, NEW two, Reads(low, one, two), NEW high,
         NEW pulses, NEW n \in Nat, IsFrame(pulses, n, low, high), NEW f, Feeds(pulses, n, f)
  PROVE  AtBit(19, low, one, two, f[39].t, Rising(f[39]), Zac!Latest(Rising(f[39]), f[39].result))
PROOF
<1> DEFINE Good(k) == \A i \in Nat : LowOf(k, i) =>
             AtBit(k, low, one, two, f[i].t, Rising(f[i]), Zac!Latest(Rising(f[i]), f[i].result))
           Fails == {k \in 0 .. 19 : ~Good(k)}
<1>1. Good(0)
  <2>1. f[0] = Unfed
    BY DEF Feeds
  <2>2. 1 \in 1 .. n /\ pulses[1] = LowPulse(low[0])
    <3>1. PICK k \in 0 .. 19, i \in Nat : k = 0 /\ i = 1
      OBVIOUS
    <3>2. LowOf(k, i)
      BY <3>1 DEF LowOf
    <3>3. i \in 1 .. n /\ pulses[i] = LowPulse(low[k])
      BY <3>2, FramePulse
    <3> QED BY <3>1, <3>3
  <2>3. f[1] = Zac!Feed(Unfed, LowPulse(low[0]))
    <3>1. f[1] = Zac!Feed(f[1 - 1], pulses[1])
      BY <2>2 DEF Feeds
    <3>2. 1 - 1 = 0
      OBVIOUS
    <3> QED BY <2>1, <2>2, <3>1, <3>2
  <2>4. PICK s, fallen : s = f[1] /\ fallen = Zac!Fall(Zac!NewDecoder, 0)
    OBVIOUS
  <2>5. Unfed.decoder = Zac!NewDecoder /\ Unfed.t = 0 /\ Unfed.result = Zac!Nothing
    BY DEF Unfed
  <2>6. s.decoder = fallen /\ s.t = 0 + low[0] /\ s.result = Zac!Latest(fallen, Zac!Nothing)
    BY <2>3, <2>4, <2>5, FeedsLow
  <2>7. 0 + low[0] = low[0]
    BY DEF Reads
  <2>8. AtBit(0, low, one, two, s.t, Rising(s), Zac!Latest(Rising(s), s.result))
    BY <2>4, <2>6, <2>7, FirstBit DEF Rising
  <2>9. \A i \in Nat : LowOf(0, i) => i = 1
    BY DEF LowOf
  <2> QED BY <2>4, <2>8, <2>9
<1>2. ASSUME NEW k \in 0 .. 18, Good(k) PROVE Good(k + 1)
  <2>1. PICK i, j, m \in Nat, l \in 0 .. 19 :
          /\ LowOf(k, i) /\ HighOf(k, j) /\ LowOf(l, m) /\ l = k + 1
          /\ i = j - 1 /\ j = m - 1 /\ j <= 39
    <3>1. PICK i, j, m, l \in Nat : i = 2 * k + 1 /\ j = 2 * k + 2 /\ m = 2 * k + 3 /\ l = k + 1
      OBVIOUS
    <3>2. l \in 0 .. 19 /\ i = j - 1 /\ j = m - 1 /\ j <= 39 /\ m = 2 * l + 1
      BY <3>1
    <3> QED BY <3>1, <3>2 DEF LowOf, HighOf
  <2>2. AtBit(k, low, one, two, f[i].t, Rising(f[i]), Zac!Latest(Rising(f[i]), f[i].result))
    BY <1>2, <2>1
  <2>3. j <= n
    <3>1. n = 39 \/ n = 40
      BY DEF IsFrame
    <3> QED BY ONLY <2>1, <3>1
  <2>4. /\ j \in 1 .. n /\ pulses[j] = HighPulse(high[k])
        /\ high[k] \in Nat /\ high[k] < 1000
    <3>1. k \in 0 .. 19
      OBVIOUS
    <3> QED BY <2>1, <2>3, <3>1, FramePulse
  <2>5. m \in 1 .. n /\ pulses[m] = LowPulse(low[l])
    BY <2>1, FramePulse
  <2>6. f[j] = Zac!Feed(f[i], HighPulse(high[k])) /\ f[m] = Zac!Feed(f[j], LowPulse(low[l]))
    BY <2>1, <2>4, <2>5 DEF Feeds
  <2>7. AtBit(l, low, one, two, f[m].t, Rising(f[m]), Zac!Latest(Rising(f[m]), f[m].result))
    <3>1. PICK a, b, c, h : a = f[i] /\ b = f[j] /\ c = f[m] /\ h = high[k]
      OBVIOUS
    <3>2. /\ AtBit(k, low, one, two, a.t, Rising(a), Zac!Latest(Rising(a), a.result))
          /\ h \in Nat /\ h < 1000 /\ l = k + 1
          /\ b = Zac!Feed(a, HighPulse(h)) /\ c = Zac!Feed(b, LowPulse(low[l]))
      BY <2>1, <2>2, <2>4, <2>6, <3>1, ZenonT(30)
    <3>3. AtBit(l, low, one, two, c.t, Rising(c), Zac!Latest(Rising(c), c.result))
      <4>1. Reads(low, one, two) /\ k \in 0 .. 18
        OBVIOUS
      <4>2. LET z == Zac!Feed(Zac!Feed(a, HighPulse(h)), LowPulse(low[k + 1]))
            IN  AtBit(k + 1, low, one, two, z.t, Rising(z), Zac!Latest(Rising(z), z.result))
        BY ONLY <3>2, <4>1, FeedsBit, ZenonT(30)
      <4> QED BY ONLY <3>2, <4>2, ZenonT(30)
    <3> QED BY <3>1, <3>3, ZenonT(30)
  <2>8. \A o \in Nat : LowOf(k + 1, o) => o = m
    BY <2>1 DEF LowOf
  <2> QED BY <2>1, <2>7, <2>8
<1> HIDE DEF Good
<1>3. 0 \notin Fails /\ Fails \subseteq Nat
  BY <1>1
<1>4. \A m \in Nat : m + 1 \in Fails => m \in Fails
  <2> SUFFICES ASSUME NEW m \in Nat, m + 1 \in Fails PROVE m \in Fails
    OBVIOUS
  <2>1. m \in 0 .. 18 /\ m \in 0 .. 19 /\ ~Good(m + 1)
    OBVIOUS
  <2> QED BY <1>2, <2>1
<1>5. Fails = {}
  <2> HIDE DEF Fails
  <2> QED BY <1>3, <1>4, NoLeastFailure
<1>6. Good(19)
  BY <1>5
<1> QED
  <2>1. LowOf(19, 39)
    BY DEF LowOf
  <2> QED BY <1>6, <2>1 DEF Good

(* The level and the length of a pulse.                                    *)
LEMMA PulsesAre ==
  ASSUME NEW length
  PROVE  /\ ~LowPulse(length)[1] /\ LowPulse(length)[2] = length
         /\ HighPulse(length)[1] /\ HighPulse(length)[2] = length
PROOF BY DEF LowPulse, HighPulse

(* The result after the last pulse, which may be the low of the last bit.  *)
LEMMA LastResult ==
  ASSUME NEW low, NEW one, NEW two, Reads(low, one, two), NEW high,
         NEW pulses, NEW n, IsFrame(pulses, n, low, high)
  PROVE  LET fed == Zac!FeedAll(pulses)
         IN  Verdict(low, one, two)
               = IF pulses[n][1] THEN fed.result
                 ELSE Zac!Latest(Zac!Edge(fed.decoder, TRUE, fed.t), fed.result)
PROOF
<1>1. n \in Nat /\ (n = 39 \/ n = 40) /\ Len(pulses) = n
  BY DEF IsFrame
<1>2. PICK f : Feeds(pulses, n, f) /\ Zac!FeedAll(pulses) = f[n]
  BY <1>1, FeedAllIs
<1>3. PICK s : s = f[39]
  OBVIOUS
<1>4. Zac!Latest(Rising(s), s.result) = Verdict(low, one, two)
  <2>1. AtBit(19, low, one, two, s.t, Rising(s), Zac!Latest(Rising(s), s.result))
    BY <1>1, <1>2, <1>3, EveryBitIsRead
  <2>2. ~(19 < 19)
    OBVIOUS
  <2> QED BY <2>1, <2>2 DEF AtBit, HasRead
<1>5. /\ LowOf(19, 39) /\ HighOf(19, 40) /\ 19 \in 0 .. 19
  BY DEF LowOf, HighOf
<1>6. CASE n = 39
  <2>1. pulses[39] = LowPulse(low[19])
    BY <1>5, FramePulse
  <2>2. ~pulses[39][1]
    BY <2>1, PulsesAre
  <2>3. Zac!Edge(s.decoder, TRUE, s.t) = Rising(s)
    BY DEF Zac!Edge, Rising
  <2> QED BY <1>2, <1>3, <1>4, <1>6, <2>2, <2>3
<1>7. CASE n = 40
  <2>1. pulses[40] = HighPulse(high[19]) /\ 40 \in 1 .. 40
    BY <1>5, <1>7, FramePulse
  <2>2. pulses[40][1]
    BY <2>1, PulsesAre
  <2>3. f[40] = Zac!Feed(s, HighPulse(high[19]))
    <3>1. f[40] = Zac!Feed(f[40 - 1], pulses[40])
      BY <1>2, <1>7, <2>1 DEF Feeds
    <3>2. 40 - 1 = 39
      OBVIOUS
    <3> QED BY <1>3, <2>1, <3>1, <3>2
  <2>4. f[40].result = Zac!Latest(Rising(s), s.result)
    BY <2>3, FeedsHigh
  <2> QED BY <1>2, <1>4, <1>7, <2>2, <2>4
<1> QED BY <1>1, <1>6, <1>7

(* A frame decodes to its verdict, unless its start bits differ.           *)
LEMMA FrameDecodes ==
  ASSUME NEW low, NEW one, NEW two, Reads(low, one, two), NEW high,
         NEW pulses, NEW n, IsFrame(pulses, n, low, high)
  PROVE  /\ low[0] = low[10] => Zac!DecodePulses(pulses) = Verdict(low, one, two)
         /\ Zac!DecodePulses(pulses) \in {Verdict(low, one, two), Zac!Framing}
         /\ low[0] < low[10] /\ low[10] - low[0] > low[10] \div 4 =>
              Zac!DecodePulses(pulses) = Zac!Framing
PROOF
<1>1. n \in Nat /\ (n = 39 \/ n = 40) /\ Len(pulses) = n
  BY DEF IsFrame
<1>2. PICK a, b \in Nat : a = low[0] /\ b = low[10]
  BY DEF Reads
<1>3. ~pulses[1][1] /\ pulses[1][2] = a /\ pulses[21][2] = b
  <2>1. LowOf(0, 1) /\ LowOf(10, 21) /\ 0 \in 0 .. 19 /\ 10 \in 0 .. 19
    BY DEF LowOf
  <2>2. pulses[1] = LowPulse(low[0]) /\ pulses[21] = LowPulse(low[10])
    BY <2>1, FramePulse
  <2> QED BY <1>2, <2>2, PulsesAre
<1>4. PICK verdict : verdict = Verdict(low, one, two) /\ verdict # Zac!Nothing
  BY Results, Zenon DEF Verdict
<1> DEFINE starts == {a, b}
           longest == CHOOSE x \in starts : \A y \in starts : y <= x
           shortest == CHOOSE x \in starts : \A y \in starts : x <= y
           differ == longest - shortest > longest \div 4
<1>5. Zac!DecodePulses(pulses) = IF differ THEN Zac!Framing ELSE verdict
  <2>1. starts = {pulses[1][2], IF n > 20 THEN pulses[21][2] ELSE 0}
    <3>1. n > 20
      BY <1>1
    <3> QED BY <1>3, <3>1, Zenon
  <2>2. Len(pulses) \in Zac!FramePulses
    BY <1>1 DEF Zac!FramePulses
  <2>3. PICK fed : fed = Zac!FeedAll(pulses)
    OBVIOUS
  <2>4. verdict = IF pulses[Len(pulses)][1] THEN fed.result
                  ELSE Zac!Latest(Zac!Edge(fed.decoder, TRUE, fed.t), fed.result)
    <3>1. verdict = IF pulses[n][1] THEN fed.result
                    ELSE Zac!Latest(Zac!Edge(fed.decoder, TRUE, fed.t), fed.result)
      BY <1>4, <2>3, LastResult, ZenonT(30)
    <3> QED BY <1>1, <3>1, Zenon
  <2> HIDE DEF starts
  <2> QED BY <1>1, <1>3, <1>4, <2>1, <2>2, <2>3, <2>4, Zenon DEF Zac!DecodePulses
<1>6. /\ longest \in starts /\ \A y \in starts : y <= longest
      /\ shortest \in starts /\ \A y \in starts : shortest <= y
  <2>1. \E x \in starts : \A y \in starts : y <= x
    OBVIOUS
  <2>2. \E x \in starts : \A y \in starts : x <= y
    OBVIOUS
  <2> HIDE DEF starts
  <2> QED BY <2>1, <2>2
<1> HIDE DEF longest, shortest
<1>7. a = b => ~differ
  BY <1>6
<1>8. a < b => longest = b /\ shortest = a
  BY <1>6
<1> QED BY <1>2, <1>4, <1>5, <1>7, <1>8

-----------------------------------------------------------------------------
(* What the sensor sends: the bits of a byte, and their lows and highs.    *)
LEMMA BitsOfByte ==
  ASSUME NEW byte \in Byte
  PROVE  LET bits == Zac!Bits(byte)
         IN  /\ bits \in Seq({0, 1, 2}) /\ Len(bits) = 10 /\ bits[1] = Zac!Start
             /\ \A j \in 2 .. 10 : bits[j] = SentBits(byte)[10 - j]
PROOF
<1> DEFINE data == [i \in 1 .. 8 |-> Zac!Bit(byte, 8 - i)]
           par == ParityOf(byte)
           sent == SentBits(byte)
           S == {0, 1, 2}
<1>1. Zac!Bits(byte) = (<<Zac!Start>> \o data) \o <<par>>
  <2>1. Zac!Cardinality({i \in 0 .. 7 : Zac!Bit(byte, i) = 1}) % 2 = par
    BY SameCardinality, Zenon DEF ParityOf
  <2> QED BY <2>1, Zenon DEF Zac!Bits
<1>2. sent \in WordBits /\ sent[0] = par
  BY SentWord DEF SentBits, Places
<1>3. \A i \in 1 .. 8 : Zac!Bit(byte, 8 - i) = sent[9 - i]
  <2> SUFFICES ASSUME NEW i \in 1 .. 8 PROVE Zac!Bit(byte, 8 - i) = sent[9 - i]
    OBVIOUS
  <2>1. PICK p \in 1 .. 8 : p = 9 - i /\ p - 1 = 8 - i
    OBVIOUS
  <2>2. sent[p] = Zac!Bit(byte, p - 1)
    BY DEF SentBits, Places
  <2> QED BY <2>1, <2>2
<1>4. \A p \in 0 .. 8 : sent[p] \in S
  BY <1>2 DEF WordBits, Places
<1> HIDE DEF par, sent, S
<1>5. data \in Seq(S) /\ Len(data) = 8 /\ \A i \in 1 .. 8 : data[i] = sent[9 - i]
  <2>1. \A i \in 1 .. 8 : data[i] = sent[9 - i] /\ data[i] \in S
    BY <1>3, <1>4
  <2>2. data \in [1 .. 8 -> S]
    BY <2>1
  <2>3. data \in Seq(S)
    BY <2>2, SeqDef
  <2>4. Len(data) = 8
    <3>1. DOMAIN data = 1 .. 8 /\ DOMAIN data = 1 .. Len(data) /\ Len(data) \in Nat
      BY <2>3, LenProperties
    <3> HIDE DEF data
    <3> QED BY <3>1
  <2> QED BY <2>1, <2>3, <2>4
<1> HIDE DEF data
<1>6. PICK head, tail : head = <<Zac!Start>> /\ tail = <<par>>
  OBVIOUS
<1>a. /\ head \in Seq(S) /\ Len(head) = 1 /\ head[1] = Zac!Start
      /\ tail \in Seq(S) /\ Len(tail) = 1 /\ tail[1] = sent[0]
  <2>1. par \in S /\ Zac!Start \in S
    BY <1>2, <1>4 DEF S, Zac!Start
  <2> QED BY <1>2, <1>6, <2>1
<1>7. PICK first : first = head \o data
  OBVIOUS
<1>8. /\ first \in Seq(S) /\ Len(first) = 9 /\ first[1] = Zac!Start
      /\ \A j \in 2 .. 9 : first[j] = sent[10 - j]
  <2>1. /\ first \in Seq(S) /\ Len(first) = 9
        /\ \A j \in 1 .. 9 : first[j] = IF j <= 1 THEN head[j] ELSE data[j - 1]
    <3>1. Len(head) + Len(data) = 9 /\ Len(head) = 1
      BY <1>5, <1>a
    <3>2. /\ first \in Seq(S) /\ Len(first) = Len(head) + Len(data)
          /\ \A i \in 1 .. Len(head) + Len(data) :
               first[i] = IF i <= Len(head) THEN head[i] ELSE data[i - Len(head)]
      BY <1>5, <1>a, <1>7, ConcatProperties, Zenon
    <3>3. Len(head) = 1
      BY <1>a
    <3> QED BY ONLY <3>1, <3>2, <3>3
  <2>2. ASSUME NEW j \in 2 .. 9 PROVE first[j] = sent[10 - j]
    <3>1. PICK i \in 1 .. 8 : i = j - 1 /\ 9 - i = 10 - j
      OBVIOUS
    <3> QED BY <1>5, <2>1, <3>1
  <2>3. first[1] = Zac!Start
    BY <1>a, <2>1
  <2> QED BY <2>1, <2>2, <2>3
<1>9. PICK bits : bits = first \o tail
  OBVIOUS
<1>10. /\ bits \in Seq(S) /\ Len(bits) = 10
       /\ \A j \in 1 .. 10 : bits[j] = IF j <= 9 THEN first[j] ELSE tail[j - 9]
  <2>1. Len(first) + Len(tail) = 10 /\ Len(first) = 9
    BY <1>8, <1>a
  <2>2. /\ bits \in Seq(S) /\ Len(bits) = Len(first) + Len(tail)
        /\ \A i \in 1 .. Len(first) + Len(tail) :
             bits[i] = IF i <= Len(first) THEN first[i] ELSE tail[i - Len(first)]
    BY <1>8, <1>a, <1>9, ConcatProperties, Zenon
  <2> QED BY ONLY <2>1, <2>2
<1>11. bits[1] = Zac!Start /\ \A j \in 2 .. 10 : bits[j] = sent[10 - j]
  <2>1. bits[1] = Zac!Start /\ \A j \in 2 .. 9 : bits[j] = sent[10 - j]
    BY <1>8, <1>10
  <2>2. bits[10] = sent[0]
    BY <1>a, <1>10
  <2> QED BY <2>1, <2>2
<1> QED BY <1>1, <1>6, <1>7, <1>9, <1>10, <1>11 DEF sent, S

(* A raw value is sent in two bytes. *)
HighByte(value) == value \div 256
LowByte(value) == value % 256

(* The bit that is sent in a place, its low and its high.                  *)
SentBit(value, k) ==
  IF k < 10 THEN IF k = 0 THEN Zac!Start ELSE SentBits(HighByte(value))[9 - k]
  ELSE IF k = 10 THEN Zac!Start ELSE SentBits(LowByte(value))[19 - k]
Lows(value, strobe) == [k \in 0 .. 19 |-> Zac!Low(SentBit(value, k), strobe)]
Highs(value, strobe) == [k \in 0 .. 19 |-> 2 * strobe - Lows(value, strobe)[k]]

RawValue == 0 .. 2047

(* The two bytes of a raw value.                                           *)
LEMMA BytesOfValue ==
  ASSUME NEW value \in RawValue
  PROVE  /\ HighByte(value) \in Byte /\ LowByte(value) \in Byte /\ HighByte(value) \in 0 .. 7
         /\ 256 * HighByte(value) + LowByte(value) = value
PROOF BY DEF Byte, RawValue, HighByte, LowByte

(* A one is shorter than the strobe, a zero longer; highs the reverse.     *)
LEMMA LowsAre ==
  ASSUME NEW value \in RawValue, NEW strobe \in Zac!StartBit, NEW k \in 0 .. 19
  PROVE  LET low == Lows(value, strobe)[k]
             high == Highs(value, strobe)[k]
         IN  /\ low \in Nat /\ low < 1000 /\ high \in Nat /\ high < 1000
             /\ k \in {0, 10} => low = strobe /\ high = strobe
             /\ k \notin {0, 10} =>
                  /\ SentBit(value, k) \in {0, 1}
                  /\ low < strobe <=> SentBit(value, k) = 1
                  /\ high < strobe <=> SentBit(value, k) = 0
                  /\ low < strobe => low = strobe \div 2
PROOF
<1>1. PICK low, high, bit : low = Lows(value, strobe)[k] /\ high = Highs(value, strobe)[k]
                            /\ bit = SentBit(value, k)
  OBVIOUS
<1>2. low = Zac!Low(bit, strobe) /\ high = 2 * strobe - low
  BY <1>1 DEF Lows, Highs
<1>3. k \in {0, 10} => bit = Zac!Start
  BY <1>1 DEF SentBit
<1>4. k \notin {0, 10} => bit \in {0, 1}
  <2>1. SentBits(HighByte(value)) \in WordBits /\ SentBits(LowByte(value)) \in WordBits
    BY BytesOfValue, SentWord
  <2>2. k \in 1 .. 9 => 9 - k \in Places
    BY DEF Places
  <2>3. k \in 11 .. 19 => 19 - k \in Places
    BY DEF Places
  <2> QED BY <1>1, <2>1, <2>2, <2>3 DEF SentBit, WordBits
<1>5. strobe \in 20 .. 200
  BY DEF Zac!StartBit
<1>6. ASSUME bit = Zac!Start PROVE low = strobe
  BY <1>2, <1>6 DEF Zac!Low, Zac!Start
<1>7. ASSUME bit = 1 PROVE low = strobe \div 2
  BY <1>2, <1>7 DEF Zac!Low, Zac!Start
<1>8. ASSUME bit = 0 PROVE low = strobe + (strobe \div 2)
  BY <1>2, <1>8 DEF Zac!Low, Zac!Start
<1>9. CASE k \in {0, 10}
  <2>1. low = strobe /\ high = 2 * strobe - strobe
    BY <1>2, <1>3, <1>6, <1>9
  <2> QED BY <1>1, <1>5, <1>9, <2>1
<1>10. CASE k \notin {0, 10} /\ bit = 1
  <2>1. low = strobe \div 2 /\ high = 2 * strobe - (strobe \div 2)
    BY <1>2, <1>7, <1>10
  <2> QED BY <1>1, <1>5, <1>10, <2>1
<1>11. CASE k \notin {0, 10} /\ bit = 0
  <2>1. low = strobe + (strobe \div 2) /\ high = 2 * strobe - (strobe + (strobe \div 2))
    BY <1>2, <1>8, <1>11
  <2> QED BY <1>1, <1>5, <1>11, <2>1
<1> QED BY <1>4, <1>9, <1>10, <1>11

(* The frame of a value is made of those lows and highs.                   *)
LEMMA FrameBits ==
  ASSUME NEW value \in RawValue, NEW j \in 1 .. 20
  PROVE  (Zac!Bits(HighByte(value)) \o Zac!Bits(LowByte(value)))[j] = SentBit(value, j - 1)
PROOF
<1>1. PICK hi, lo : hi = Zac!Bits(HighByte(value)) /\ lo = Zac!Bits(LowByte(value))
  OBVIOUS
<1>2. PICK one, two : one = SentBits(HighByte(value)) /\ two = SentBits(LowByte(value))
  OBVIOUS
<1>a. HighByte(value) \in Byte /\ LowByte(value) \in Byte
  BY BytesOfValue, Zenon
<1>3. PICK S : /\ hi \in Seq(S) /\ Len(hi) = 10 /\ hi[1] = Zac!Start
               /\ \A l \in 2 .. 10 : hi[l] = one[10 - l]
               /\ lo \in Seq(S) /\ Len(lo) = 10 /\ lo[1] = Zac!Start
               /\ \A l \in 2 .. 10 : lo[l] = two[10 - l]
  <2>1. /\ hi \in Seq({0, 1, 2}) /\ Len(hi) = 10 /\ hi[1] = Zac!Start
        /\ \A l \in 2 .. 10 : hi[l] = one[10 - l]
    BY <1>1, <1>2, <1>a, BitsOfByte, ZenonT(30)
  <2>2. /\ lo \in Seq({0, 1, 2}) /\ Len(lo) = 10 /\ lo[1] = Zac!Start
        /\ \A l \in 2 .. 10 : lo[l] = two[10 - l]
    BY <1>1, <1>2, <1>a, BitsOfByte, ZenonT(30)
  <2> QED BY <2>1, <2>2, Zenon
<1>4. PICK bits : bits = hi \o lo
  BY Zenon
<1>5. \A l \in 1 .. Len(hi) + Len(lo) : bits[l] = IF l <= Len(hi) THEN hi[l] ELSE lo[l - Len(hi)]
  BY <1>3, <1>4, ConcatProperties, ZenonT(30)
<1>6. bits[j] = IF j <= 10 THEN hi[j] ELSE lo[j - 10]
  <2>1. Len(hi) + Len(lo) = 20 /\ Len(hi) = 10
    BY <1>3
  <2> QED BY ONLY <1>5, <2>1, j \in 1 .. 20
<1>7. SentBit(value, j - 1) = IF j <= 10 THEN IF j = 1 THEN Zac!Start ELSE one[10 - j]
                              ELSE IF j = 11 THEN Zac!Start ELSE two[20 - j]
  <2>1. /\ j <= 10 <=> j - 1 < 10
        /\ j = 1 <=> j - 1 = 0
        /\ j = 11 <=> j - 1 = 10
        /\ 9 - (j - 1) = 10 - j /\ 19 - (j - 1) = 20 - j
    OBVIOUS
  <2> QED BY <1>2, <2>1 DEF SentBit
<1>b. SUFFICES bits[j] = SentBit(value, j - 1)
  BY <1>1, <1>4, Zenon
<1>8. CASE j = 1
  BY <1>3, <1>6, <1>7, <1>8
<1>9. CASE j \in 2 .. 10
  BY <1>3, <1>6, <1>7, <1>9
<1>10. CASE j = 11
  <2>1. j - 10 = 1
    BY <1>10
  <2> QED BY <1>3, <1>6, <1>7, <1>10, <2>1
<1>11. CASE j \in 12 .. 20
  <2>1. PICK l \in 2 .. 10 : l = j - 10 /\ 10 - l = 20 - j
    BY <1>11
  <2>2. lo[l] = two[10 - l]
    BY <1>3
  <2>3. bits[j] = lo[l]
    BY <1>6, <1>11, <2>1
  <2> QED BY <1>7, <1>11, <2>1, <2>2, <2>3
<1> QED BY <1>8, <1>9, <1>10, <1>11

(* The pulses of a frame in their places.                                  *)
LEMMA FramePulsesAre ==
  ASSUME NEW value \in RawValue, NEW strobe \in Zac!StartBit
  PROVE  LET f == Zac!Frame(value, strobe)
         IN  /\ DOMAIN f = 1 .. 40 /\ f = [i \in 1 .. 40 |-> f[i]]
             /\ \A i \in 1 .. 40 : f[i] = PulseAt(i, Lows(value, strobe), Highs(value, strobe))
PROOF
<1>7. PICK bits : bits = Zac!Bits(HighByte(value)) \o Zac!Bits(LowByte(value))
  BY Zenon
<1> DEFINE low(i) == Zac!Low(bits[(i + 1) \div 2], strobe)
           pulse(i) == IF i % 2 = 1 THEN LowPulse(low(i)) ELSE HighPulse(2 * strobe - low(i))
<1>1. Zac!Frame(value, strobe) = [i \in 1 .. 40 |-> pulse(i)]
  BY <1>7, ZenonT(30) DEF Zac!Frame, LowPulse, HighPulse, HighByte, LowByte
<1>2. PICK lows, highs : lows = Lows(value, strobe) /\ highs = Highs(value, strobe)
  OBVIOUS
<1>3. \A k \in 0 .. 19 : lows[k] = Zac!Low(SentBit(value, k), strobe) /\ highs[k] = 2 * strobe - lows[k]
  BY <1>2 DEF Lows, Highs
<1>4. ASSUME NEW i \in 1 .. 40 PROVE pulse(i) = PulseAt(i, lows, highs)
  <2>1. CASE i % 2 = 1
    <3>1. PICK j \in 1 .. 20, k \in 0 .. 19 : j = (i + 1) \div 2 /\ k = i \div 2 /\ j - 1 = k
      <4>1. (i + 1) \div 2 \in 1 .. 20 /\ i \div 2 \in 0 .. 19 /\ (i + 1) \div 2 - 1 = i \div 2
        BY <2>1
      <4> QED BY <4>1
    <3>2. bits[j] = SentBit(value, k)
      BY <1>7, <3>1, FrameBits, ZenonT(30)
    <3>3. low(i) = lows[i \div 2]
      BY <1>3, <3>1, <3>2
    <3> QED BY <2>1, <3>3, Zenon DEF PulseAt
  <2>2. CASE i % 2 # 1
    <3>1. PICK j \in 1 .. 20, k \in 0 .. 19 : j = (i + 1) \div 2 /\ k = (i \div 2) - 1 /\ j - 1 = k
      <4>1. (i + 1) \div 2 \in 1 .. 20 /\ (i \div 2) - 1 \in 0 .. 19 /\ (i + 1) \div 2 = i \div 2
        BY <2>2
      <4> QED BY <4>1
    <3>2. bits[j] = SentBit(value, k)
      BY <1>7, <3>1, FrameBits, ZenonT(30)
    <3>3. 2 * strobe - low(i) = highs[(i \div 2) - 1]
      BY <1>3, <3>1, <3>2
    <3> QED BY <2>2, <3>3, Zenon DEF PulseAt
  <2> QED BY <2>1, <2>2
<1>5. PICK f : f = [i \in 1 .. 40 |-> pulse(i)]
  OBVIOUS
<1> HIDE DEF pulse
<1>6. DOMAIN f = 1 .. 40 /\ f = [i \in 1 .. 40 |-> f[i]] /\ \A i \in 1 .. 40 : f[i] = pulse(i)
  BY <1>5
<1> QED BY <1>1, <1>2, <1>4, <1>5, <1>6, Zenon

(* A sequence of a length. *)
LEMMA Sequence ==
  ASSUME NEW n \in Nat, NEW f, f = [i \in 1 .. n |-> f[i]]
  PROVE  Len(f) = n /\ \E S : f \in Seq(S) /\ \A i \in 1 .. n : f[i] \in S
PROOF
<1> DEFINE S == {f[i] : i \in 1 .. n}
<1>1. f \in [1 .. n -> S]
  BY Zenon
<1>2. f \in Seq(S)
  BY <1>1, SeqDef
<1>3. Len(f) \in Nat /\ DOMAIN f = 1 .. Len(f)
  BY <1>2, LenProperties
<1>4. DOMAIN f = 1 .. n
  BY <1>1
<1>5. Len(f) = n
  <2>1. PICK m \in Nat : m = Len(f)
    BY <1>3
  <2>2. 1 .. m = 1 .. n
    BY <1>3, <1>4, <2>1, Zenon
  <2>3. m = n
    <3>1. \A i \in Int : i \in 1 .. m <=> i \in 1 .. n
      BY <2>2, Zenon
    <3>2. (m <= n <=> ~(n < m)) /\ (n <= m <=> ~(m < n)) /\ (m \in 1 .. m \/ m = 0) /\ (n \in 1 .. n \/ n = 0)
      OBVIOUS
    <3> QED BY <3>1, <3>2
  <2> QED BY <2>1, <2>3
<1>6. \A i \in 1 .. n : f[i] \in S
  BY Zenon
<1> HIDE DEF S
<1> QED BY <1>2, <1>5, <1>6, Zenon

(* An undisturbed frame is one.                                            *)
LEMMA WholeFrame ==
  ASSUME NEW value \in RawValue, NEW strobe \in Zac!StartBit
  PROVE  IsFrame(Zac!Frame(value, strobe), 40, Lows(value, strobe), Highs(value, strobe))
PROOF
<1>1. \A k \in 0 .. 19 : Highs(value, strobe)[k] \in Nat /\ Highs(value, strobe)[k] < 1000
  BY LowsAre
<1>2. Len(Zac!Frame(value, strobe)) = 40
  BY FramePulsesAre, Sequence
<1> QED BY <1>1, <1>2, FramePulsesAre DEF IsFrame

(* So is one whose last high was not captured.                             *)
LEMMA OpenFrame ==
  ASSUME NEW value \in RawValue, NEW strobe \in Zac!StartBit
  PROVE  IsFrame(SubSeq(Zac!Frame(value, strobe), 1, 39), 39,
                 Lows(value, strobe), Highs(value, strobe))
PROOF
<1>1. PICK f, g : f = Zac!Frame(value, strobe) /\ g = SubSeq(f, 1, 39)
  BY Zenon
<1>2. PICK S : \A i \in 1 .. 40 : f[i] \in S
  BY <1>1, FramePulsesAre, Sequence
<1>3. Len(g) = 39 /\ \A i \in 1 .. 39 : g[i] = f[i]
  <2>1. PICK m, n \in Int : m = 1 /\ n = 39
    OBVIOUS
  <2>2. \A i \in m .. n : f[i] \in S
    BY <1>2, <2>1
  <2>3. /\ Len(SubSeq(f, m, n)) = IF m <= n THEN n - m + 1 ELSE 0
        /\ \A i \in 1 .. n - m + 1 : SubSeq(f, m, n)[i] = f[m + i - 1]
    BY <2>2, SubSeqProperties
  <2>4. n - m + 1 = 39 /\ m <= n /\ \A i \in 1 .. 39 : m + i - 1 = i
    BY <2>1
  <2> QED BY <1>1, <2>1, <2>3, <2>4
<1>4. \A k \in 0 .. 19 : Highs(value, strobe)[k] \in Nat /\ Highs(value, strobe)[k] < 1000
  BY LowsAre
<1>5. \A i \in 1 .. 39 : f[i] = PulseAt(i, Lows(value, strobe), Highs(value, strobe))
  BY <1>1, FramePulsesAre
<1> QED BY <1>1, <1>3, <1>4, <1>5 DEF IsFrame

One(value) == SentBits(HighByte(value))
Two(value) == SentBits(LowByte(value))

(* The words of a value have even parity and are its bytes.                *)
LEMMA SentWords ==
  ASSUME NEW value \in RawValue
  PROVE  /\ One(value) \in WordBits /\ Two(value) \in WordBits
         /\ SumOf(One(value)) % 2 = 0 /\ SumOf(Two(value)) % 2 = 0
         /\ WordOf(One(value)) \div 2 = HighByte(value) /\ WordOf(Two(value)) \div 2 = LowByte(value)
PROOF
<1>1. HighByte(value) \in Byte /\ LowByte(value) \in Byte
  BY BytesOfValue, Zenon
<1> QED BY <1>1, SentWord DEF One, Two

(* The bits of a word in their places. *)
LEMMA SentPlaces ==
  ASSUME NEW value, NEW k \in 1 .. 9
  PROVE  SentBit(value, k) = One(value)[9 - k] /\ SentBit(value, 10 + k) = Two(value)[9 - k]
PROOF
<1>1. k < 10 /\ k # 0
  OBVIOUS
<1>2. SentBit(value, k) = One(value)[9 - k]
  BY <1>1 DEF SentBit, One
<1>3. PICK l : l = 10 + k /\ ~(l < 10) /\ l # 10 /\ 19 - l = 9 - k
  OBVIOUS
<1>4. SentBit(value, l) = Two(value)[9 - k]
  BY <1>3 DEF SentBit, Two
<1> QED BY <1>2, <1>3, <1>4

(* The lows of a value read as its words.                                  *)
LEMMA LowsRead ==
  ASSUME NEW value \in RawValue, NEW strobe \in Zac!StartBit
  PROVE  LET low == Lows(value, strobe)
         IN  /\ Reads(low, One(value), Two(value)) /\ low[0] = strobe /\ low[10] = strobe
             /\ low \in [0 .. 19 -> Nat]
PROOF
<1>1. PICK low, one, two : low = Lows(value, strobe) /\ one = One(value) /\ two = Two(value)
  OBVIOUS
<1>2. one \in WordBits /\ two \in WordBits
  BY <1>1, SentWords
<1>3. \A k \in 0 .. 19 : low[k] \in Nat
  BY <1>1, LowsAre
<1>4. low \in [0 .. 19 -> Nat]
  <2>1. low = [k \in 0 .. 19 |-> low[k]]
    BY <1>1 DEF Lows
  <2> QED BY <1>3, <2>1
<1>5. low[0] = strobe /\ low[10] = strobe
  <2>1. 0 \in {0, 10} /\ 10 \in {0, 10} /\ 0 \in 0 .. 19 /\ 10 \in 0 .. 19
    OBVIOUS
  <2> QED BY <1>1, <2>1, LowsAre
<1>6. ASSUME NEW k \in 1 .. 9
      PROVE  (low[k] < strobe <=> one[9 - k] = 1) /\ (low[10 + k] < strobe <=> two[9 - k] = 1)
  <2>1. PICK l \in 0 .. 19, h \in 0 .. 19 : l = k /\ h = 10 + k /\ l \notin {0, 10} /\ h \notin {0, 10}
    OBVIOUS
  <2>2. (low[l] < strobe <=> SentBit(value, l) = 1) /\ (low[h] < strobe <=> SentBit(value, h) = 1)
    BY <1>1, <2>1, LowsAre
  <2>3. SentBit(value, l) = one[9 - k] /\ SentBit(value, h) = two[9 - k]
    BY <1>1, <2>1, SentPlaces
  <2> QED BY <2>1, <2>2, <2>3
<1>7. Reads(low, one, two)
  BY <1>2, <1>4, <1>5, <1>6 DEF Reads
<1> QED BY <1>1, <1>4, <1>5, <1>7

(* Bits that read as the words of a value decode to it. *)
LEMMA RightVerdict ==
  ASSUME NEW value \in RawValue, NEW low, low[0] \in Zac!StartBit
  PROVE  Verdict(low, One(value), Two(value)) = Zac!Ok(value)
PROOF
<1>1. ~(WordOf(One(value)) \div 2 > 7)
  BY SentWords, BytesOfValue
<1>2. 256 * (WordOf(One(value)) \div 2) + (WordOf(Two(value)) \div 2) = value
  BY SentWords, BytesOfValue
<1> QED BY <1>1, <1>2, SentWords, Zenon DEF Verdict

(* A frame of the lows of a value decodes to it.                           *)
LEMMA WholeDecodes ==
  ASSUME NEW value \in RawValue, NEW strobe \in Zac!StartBit, NEW pulses, NEW n,
         IsFrame(pulses, n, Lows(value, strobe), Highs(value, strobe))
  PROVE  Zac!DecodePulses(pulses) = Zac!Ok(value)
PROOF
<1>1. PICK low : low = Lows(value, strobe) /\ Reads(low, One(value), Two(value))
                 /\ low[0] = strobe /\ low[10] = strobe
  BY LowsRead
<1>2. Zac!DecodePulses(pulses) = Verdict(low, One(value), Two(value))
  BY <1>1, FrameDecodes
<1>3. low[0] \in Zac!StartBit
  BY <1>1
<1> QED BY <1>2, <1>3, RightVerdict

(* A frame of which the first low was shortened. *)
Put(low, k, length) == [low EXCEPT ![k] = length]

(* With its first low shortened it decodes to it, or fails.                *)
LEMMA ShortenedDecodes ==
  ASSUME NEW value \in RawValue, NEW strobe \in Zac!StartBit, NEW pulses, NEW n, NEW m \in Nat,
         m <= strobe,
         IsFrame(pulses, n, Put(Lows(value, strobe), 0, m), Highs(value, strobe))
  PROVE  Zac!DecodePulses(pulses) \in {Zac!Ok(value), Zac!Framing}
PROOF
<1>1. PICK sent : /\ sent = Lows(value, strobe) /\ Reads(sent, One(value), Two(value))
                  /\ sent[0] = strobe /\ sent[10] = strobe /\ sent \in [0 .. 19 -> Nat]
  BY LowsRead
<1>2. PICK low : low = Put(sent, 0, m)
  OBVIOUS
<1>3. /\ low \in [0 .. 19 -> Nat] /\ low[0] = m /\ low[10] = strobe
      /\ \A k \in 1 .. 19 : low[k] = sent[k]
  BY <1>1, <1>2 DEF Put
<1>4. IsFrame(pulses, n, low, Highs(value, strobe))
  BY <1>1, <1>2
<1>5. PICK word : /\ word \in WordBits
                  /\ \A k \in 1 .. 9 : low[k] < m <=> word[9 - k] = 1
  <2> DEFINE w == [p \in Places |-> IF low[9 - p] < m THEN 1 ELSE 0]
  <2>1. w \in WordBits
    BY DEF WordBits
  <2>2. ASSUME NEW k \in 1 .. 9 PROVE low[k] < m <=> w[9 - k] = 1
    <3>1. PICK p \in Places : p = 9 - k /\ 9 - p = k
      BY DEF Places
    <3>2. w[p] = IF low[k] < m THEN 1 ELSE 0
      BY <3>1
    <3> HIDE DEF w
    <3> QED BY <3>1, <3>2
  <2> HIDE DEF w
  <2> QED BY <2>1, <2>2
<1>6. \A k \in 1 .. 9 : low[10 + k] = sent[10 + k]
  BY <1>3
<1>7. ASSUME m \notin Zac!StartBit PROVE Zac!DecodePulses(pulses) = Zac!Framing
  <2>1. Reads(low, One(value), Two(value))
    BY <1>1, <1>3, <1>6, <1>7 DEF Reads
  <2>2. Verdict(low, One(value), Two(value)) = Zac!Framing
    BY <1>3, <1>7, Zenon DEF Verdict
  <2> QED BY <1>4, <2>1, <2>2, FrameDecodes
<1>8. ASSUME m \in Zac!StartBit, strobe - m > strobe \div 4
      PROVE  Zac!DecodePulses(pulses) = Zac!Framing
  <2>1. Reads(low, word, Two(value))
    BY <1>1, <1>3, <1>5, <1>6, <1>8 DEF Reads
  <2>2. low[0] < low[10] /\ low[10] - low[0] > low[10] \div 4
    BY <1>3, <1>8 DEF Zac!StartBit
  <2> QED BY <1>4, <2>1, <2>2, FrameDecodes
<1>9. ASSUME m \in Zac!StartBit, ~(strobe - m > strobe \div 4)
      PROVE  Zac!DecodePulses(pulses) \in {Zac!Ok(value), Zac!Framing}
  <2>1. ASSUME NEW k \in 1 .. 9 PROVE sent[k] < m <=> sent[k] < strobe
    <3>1. PICK l \in 0 .. 19 : l = k /\ l \notin {0, 10}
      OBVIOUS
    <3>2. sent[l] < strobe => sent[l] = strobe \div 2
      BY <1>1, <3>1, LowsAre
    <3>3. PICK s \in Nat, h \in Nat : s = sent[k] /\ h = strobe \div 2
      BY <1>1 DEF Zac!StartBit
    <3>4. s < strobe => s = h
      BY <3>1, <3>2, <3>3
    <3>5. h < m
      BY <1>9, <3>3 DEF Zac!StartBit
    <3>6. strobe \in Nat
      BY DEF Zac!StartBit
    <3>7. s < m <=> s < strobe
      BY ONLY <3>3, <3>4, <3>5, <3>6, m \in Nat, m <= strobe
    <3> QED BY <3>3, <3>7
  <2>2. Reads(low, One(value), Two(value))
    BY <1>1, <1>3, <1>6, <2>1 DEF Reads
  <2>3. Verdict(low, One(value), Two(value)) = Zac!Ok(value)
    BY <1>3, <1>9, RightVerdict
  <2> QED BY <1>4, <2>2, <2>3, FrameDecodes
<1> QED BY <1>7, <1>8, <1>9

(* A frame of which one bit was read the other way round, but the last.    *)
LEMMA FlippedDecodes ==
  ASSUME NEW value \in RawValue, NEW strobe \in Zac!StartBit, NEW pulses, NEW n, NEW k \in 0 .. 18,
         NEW high, IsFrame(pulses, n, Put(Lows(value, strobe), k, Highs(value, strobe)[k]), high)
  PROVE  Zac!DecodePulses(pulses) \in {Zac!Ok(value), Zac!Parity}
PROOF
<1>1. PICK sent, one, two :
        /\ sent = Lows(value, strobe) /\ one = One(value) /\ two = Two(value)
        /\ Reads(sent, one, two)
        /\ sent[0] = strobe /\ sent[10] = strobe /\ sent \in [0 .. 19 -> Nat]
  BY LowsRead
<1>2. PICK h : h = Highs(value, strobe)[k] /\ h \in Nat
               /\ (k \in {0, 10} => h = strobe)
               /\ (k \notin {0, 10} =>
                     /\ SentBit(value, k) \in {0, 1}
                     /\ h < strobe <=> SentBit(value, k) = 0)
  <2>1. k \in 0 .. 19
    OBVIOUS
  <2> QED BY <2>1, LowsAre
<1>a. PICK low : low = Put(sent, k, h) /\ IsFrame(pulses, n, low, high)
  BY <1>1, <1>2
<1>3. low \in [0 .. 19 -> Nat] /\ low[k] = h /\ \A l \in 0 .. 19 : l # k => low[l] = sent[l]
  <2>1. low = [sent EXCEPT ![k] = h]
    BY <1>a DEF Put
  <2> QED BY <1>1, <1>2, <2>1
<1>4. low[0] = strobe /\ low[10] = strobe
  <2>1. CASE k \in {0, 10}
    <3>1. low[k] = strobe
      BY <1>2, <1>3, <2>1
    <3> QED BY <1>1, <1>3, <2>1, <3>1
  <2>2. CASE k \notin {0, 10}
    BY <1>1, <1>3, <2>2
  <2> QED BY <2>1, <2>2
<1>5. CASE k \in {0, 10}
  <2>1. Reads(low, one, two)
    <3>1. \A l \in 0 .. 19 : low[l] = sent[l]
      BY <1>1, <1>2, <1>3, <1>5
    <3>2. ASSUME NEW l \in 1 .. 9 PROVE low[l] = sent[l] /\ low[10 + l] = sent[10 + l]
      <4>1. l \in 0 .. 19 /\ 10 + l \in 0 .. 19
        OBVIOUS
      <4> QED BY <3>1, <4>1
    <3> QED BY <1>1, <1>3, <1>4, <3>2 DEF Reads
  <2>2. Zac!DecodePulses(pulses) = Verdict(low, one, two)
    BY <1>a, <1>4, <2>1, FrameDecodes
  <2> QED BY <1>1, <1>4, <2>2, RightVerdict
<1>6. CASE k \in 1 .. 9
  <2>1. PICK p \in Places : p = 9 - k
    BY <1>6 DEF Places
  <2>2. one[p] \in {0, 1} /\ SentBit(value, k) = one[p]
    BY <1>1, <1>6, <2>1, SentPlaces DEF Reads, WordBits
  <2>3. PICK flipped : /\ flipped = Flipped(one, p) /\ flipped \in WordBits
                       /\ SumOf(flipped) % 2 # 0
    BY <1>1, FlippedWord, SentWords
  <2>4. flipped[p] = 1 - one[p] /\ \A q \in Places : q # p => flipped[q] = one[q]
    BY <1>1, <2>3 DEF Flipped, Reads, WordBits
  <2>5. ASSUME NEW l \in 1 .. 9
        PROVE  (low[l] < strobe <=> flipped[9 - l] = 1) /\ low[10 + l] = sent[10 + l]
    <3>1. PICK q \in Places : q = 9 - l /\ (q = p <=> l = k)
      BY <2>1 DEF Places
    <3>2. low[10 + l] = sent[10 + l]
      <4>1. 10 + l \in 0 .. 19 /\ 10 + l # k
        BY <1>6
      <4> QED BY <1>3, <4>1
    <3>3. CASE l = k
      <4>1. low[l] < strobe <=> one[p] = 0
        BY <1>2, <1>3, <1>6, <2>2, <3>3
      <4>2. flipped[q] = 1 - one[p]
        BY <2>4, <3>1, <3>3
      <4> QED BY <2>2, <3>1, <3>2, <4>1, <4>2
    <3>4. CASE l # k
      <4>1. low[l] = sent[l]
        BY <1>3, <3>4
      <4>2. sent[l] < strobe <=> one[q] = 1
        BY <1>1, <3>1 DEF Reads
      <4>3. flipped[q] = one[q]
        BY <2>4, <3>1, <3>4
      <4> QED BY <3>1, <3>2, <4>1, <4>2, <4>3
    <3> QED BY <3>3, <3>4
  <2>6. Reads(low, flipped, two)
    BY <1>1, <1>3, <1>4, <2>3, <2>5 DEF Reads
  <2>7. Verdict(low, flipped, two) = Zac!Parity
    BY <1>4, <2>3, Zenon DEF Verdict
  <2> QED BY <1>a, <1>4, <2>6, <2>7, FrameDecodes
<1>7. CASE k \in 11 .. 18
  <2>1. PICK p \in Places : p = 19 - k
    BY <1>7 DEF Places
  <2>2. two[p] \in {0, 1} /\ SentBit(value, k) = two[p]
    <3>1. PICK l \in 1 .. 9 : k = 10 + l /\ p = 9 - l
      <4>1. k - 10 \in 1 .. 9 /\ k = 10 + (k - 10) /\ p = 9 - (k - 10)
        BY <1>7, <2>1
      <4> QED BY <4>1
    <3>2. SentBit(value, 10 + l) = two[9 - l]
      BY <1>1, SentPlaces
    <3>3. two[p] \in {0, 1}
      BY <1>1 DEF Reads, WordBits
    <3> QED BY <3>1, <3>2, <3>3
  <2>3. PICK flipped : /\ flipped = Flipped(two, p) /\ flipped \in WordBits
                       /\ SumOf(flipped) % 2 # 0
    BY <1>1, FlippedWord, SentWords
  <2>4. flipped[p] = 1 - two[p] /\ \A q \in Places : q # p => flipped[q] = two[q]
    BY <1>1, <2>3 DEF Flipped, Reads, WordBits
  <2>5. ASSUME NEW l \in 1 .. 9
        PROVE  (low[10 + l] < strobe <=> flipped[9 - l] = 1) /\ low[l] = sent[l]
    <3>1. PICK q \in Places, m \in 11 .. 19 : q = 9 - l /\ m = 10 + l /\ (q = p <=> m = k)
      BY <2>1 DEF Places
    <3>2. low[l] = sent[l]
      <4>1. l \in 0 .. 19 /\ l # k
        BY <1>7
      <4> QED BY <1>3, <4>1
    <3>3. CASE m = k
      <4>1. low[m] < strobe <=> two[p] = 0
        BY <1>2, <1>3, <1>7, <2>2, <3>3
      <4>2. flipped[q] = 1 - two[p]
        BY <2>4, <3>1, <3>3
      <4> QED BY <2>2, <3>1, <3>2, <4>1, <4>2
    <3>4. CASE m # k
      <4>1. low[m] = sent[m]
        BY <1>3, <3>4
      <4>2. sent[m] < strobe <=> two[q] = 1
        BY <1>1, <3>1 DEF Reads
      <4>3. flipped[q] = two[q]
        BY <2>4, <3>1, <3>4
      <4> QED BY <3>1, <3>2, <4>1, <4>2, <4>3
    <3> QED BY <3>3, <3>4
  <2>6. Reads(low, one, flipped)
    BY <1>1, <1>3, <1>4, <2>3, <2>5 DEF Reads
  <2>7. Verdict(low, one, flipped) = Zac!Parity
    BY <1>4, <2>3, Zenon DEF Verdict
  <2> QED BY <1>a, <1>4, <2>6, <2>7, FrameDecodes
<1> QED BY <1>5, <1>6, <1>7

-----------------------------------------------------------------------------
(* What becomes of a frame on the way.                                     *)
Flip(f, i) == [f EXCEPT ![i] = LowPulse(f[i + 1][2]), ![i + 1] = HighPulse(f[i][2])]
Becomes(f, noise, i, pulses) ==
  /\ noise[1] = "none" => pulses = f
  /\ noise[1] = "open end" => pulses = SubSeq(f, 1, 39)
  /\ noise[1] = "late" =>
       pulses = <<<<f[i][1], IF noise[3] < f[i][2] THEN noise[3] ELSE f[i][2]>>>> \o SubSeq(f, i + 1, 40)
  /\ noise[1] = "flip" => pulses = Flip(f, i)
  /\ noise[1] = "merge" =>
       pulses = SubSeq(f, 1, i - 1) \o <<LowPulse(f[i][2] + f[i + 1][2] + f[i + 2][2])>>
                \o SubSeq(f, i + 3, 40)
  /\ noise[1] = "split" =>
       pulses = SubSeq(f, 1, i - 1) \o <<LowPulse(5), HighPulse(1), LowPulse(f[i][2] - 6)>>
                \o SubSeq(f, i + 1, 40)

(* Each kind of noise, with pulses as opaque pairs.                        *)
LEMMA DisturbedIs ==
  ASSUME NEW f, NEW noise
  PROVE  Becomes(f, noise, noise[2], Zac!Disturbed(f, noise))
PROOF
<1> DEFINE i == noise[2]
<1>1. ASSUME noise[1] = "none" PROVE Zac!Disturbed(f, noise) = f
  BY <1>1, Zenon DEF Zac!Disturbed
<1>2. ASSUME noise[1] = "open end" PROVE Zac!Disturbed(f, noise) = SubSeq(f, 1, 39)
  BY <1>2, Zenon DEF Zac!Disturbed
<1>3. ASSUME noise[1] = "late"
      PROVE  Zac!Disturbed(f, noise)
               = <<<<f[i][1], IF noise[3] < f[i][2] THEN noise[3] ELSE f[i][2]>>>> \o SubSeq(f, i + 1, 40)
  BY <1>3, Zenon DEF Zac!Disturbed
<1>4. ASSUME noise[1] = "flip"
      PROVE  Zac!Disturbed(f, noise) = Flip(f, i)
  BY <1>4, Zenon DEF Zac!Disturbed, Flip, LowPulse, HighPulse
<1>5. ASSUME noise[1] = "merge"
      PROVE  Zac!Disturbed(f, noise)
               = SubSeq(f, 1, i - 1) \o <<LowPulse(f[i][2] + f[i + 1][2] + f[i + 2][2])>>
                 \o SubSeq(f, i + 3, 40)
  BY <1>5, Zenon DEF Zac!Disturbed, LowPulse
<1>6. ASSUME noise[1] = "split"
      PROVE  Zac!Disturbed(f, noise)
               = SubSeq(f, 1, i - 1) \o <<LowPulse(5), HighPulse(1), LowPulse(f[i][2] - 6)>>
                 \o SubSeq(f, i + 1, 40)
  BY <1>6, Zenon DEF Zac!Disturbed, LowPulse, HighPulse
<1> QED BY <1>1, <1>2, <1>3, <1>4, <1>5, <1>6, Zenon DEF Becomes

(* Captures that are no frames, by their length or their first pulse.      *)
LEMMA WrongLength ==
  ASSUME NEW pulses, Len(pulses) # 39, Len(pulses) # 40
  PROVE  Zac!DecodePulses(pulses) = Zac!Framing
PROOF
<1>1. Len(pulses) \notin Zac!FramePulses
  BY Zenon DEF Zac!FramePulses
<1> QED BY <1>1, Zenon DEF Zac!DecodePulses

LEMMA BeginsHigh ==
  ASSUME NEW pulses, pulses[1][1]
  PROVE  Zac!DecodePulses(pulses) = Zac!Framing
PROOF BY Zenon DEF Zac!DecodePulses

(* What is left of a frame, with something in between. *)
MiddleLength(f, a, middle, b) ==
  Len(SubSeq(f, 1, a) \o middle \o SubSeq(f, b, 40)) = a + Len(middle) + (41 - b)

LEMMA Middle ==
  ASSUME NEW S, NEW f, \A i \in 1 .. 40 : f[i] \in S,
         NEW a \in Nat, a <= 40, NEW middle \in Seq(S), NEW b \in Nat, 1 <= b, b <= 41
  PROVE  MiddleLength(f, a, middle, b)
PROOF
<1>1. PICK x, y : x = SubSeq(f, 1, a) /\ y = SubSeq(f, b, 40)
  BY Zenon
<1>2. x \in Seq(S) /\ Len(x) = a
  <2>1. PICK m, n \in Int : m = 1 /\ n = a
    OBVIOUS
  <2>2. \A i \in m .. n : f[i] \in S
    <3>1. \A i \in m .. n : i \in 1 .. 40
      BY <2>1
    <3> QED BY <3>1, Zenon
  <2>3. x = SubSeq(f, m, n)
    BY <1>1, <2>1, Zenon
  <2>4. x \in Seq(S) /\ Len(x) = IF m <= n THEN n - m + 1 ELSE 0
    <3>1. SubSeq(f, m, n) \in Seq(S) /\ Len(SubSeq(f, m, n)) = IF m <= n THEN n - m + 1 ELSE 0
      BY ONLY m \in Int, n \in Int, <2>2, SubSeqProperties, Zenon
    <3> QED BY <2>3, <3>1, Zenon
  <2> QED BY <2>1, <2>4
<1>3. y \in Seq(S) /\ Len(y) = 41 - b
  <2>1. PICK m, n \in Int : m = b /\ n = 40
    OBVIOUS
  <2>2. \A i \in m .. n : f[i] \in S
    <3>1. \A i \in m .. n : i \in 1 .. 40
      BY <2>1
    <3> QED BY <3>1, Zenon
  <2>3. y = SubSeq(f, m, n)
    BY <1>1, <2>1, Zenon
  <2>4. y \in Seq(S) /\ Len(y) = IF m <= n THEN n - m + 1 ELSE 0
    <3>1. SubSeq(f, m, n) \in Seq(S) /\ Len(SubSeq(f, m, n)) = IF m <= n THEN n - m + 1 ELSE 0
      BY ONLY m \in Int, n \in Int, <2>2, SubSeqProperties, Zenon
    <3> QED BY <2>3, <3>1, Zenon
  <2> QED BY <2>1, <2>4
<1>4. x \o middle \in Seq(S) /\ Len(x \o middle) = Len(x) + Len(middle)
  BY <1>2, ConcatProperties, Zenon
<1>5. PICK z : z = x \o middle
  BY Zenon
<1>6. Len(z \o y) = Len(z) + Len(y)
  BY <1>3, <1>4, <1>5, ConcatProperties, Zenon
<1>7. Len(z \o y) = (Len(x) + Len(middle)) + Len(y)
  BY <1>4, <1>5, <1>6, Zenon
<1>8. PICK l, m : l = Len(z \o y) /\ m = Len(middle)
  BY Zenon
<1>9. l = (a + m) + (41 - b)
  BY <1>2, <1>3, <1>7, <1>8, Zenon
<1> QED BY <1>1, <1>5, <1>8, <1>9, Zenon DEF MiddleLength

(* Short sequences.                                                        *)
LEMMA Tuples ==
  ASSUME NEW x, NEW y, NEW z, NEW S, x \in S, y \in S, z \in S
  PROVE  /\ <<x>> \in Seq(S) /\ Len(<<x>>) = 1 /\ <<x>>[1] = x
         /\ <<x, y, z>> \in Seq(S) /\ Len(<<x, y, z>>) = 3
PROOF OBVIOUS

(* The kinds of noise and where they strike.                               *)
LEMMA NoiseIs ==
  ASSUME NEW noise \in Zac!Noises
  PROVE  \/ noise[1] = "none"
         \/ noise[1] = "open end"
         \/ noise[1] = "late" /\ noise[2] \in 1 .. 40 /\ noise[3] \in Stubs
         \/ noise[1] \in {"flip", "merge", "split"} /\ noise[2] \in {n \in 1 .. 37 : n % 2 = 1}
PROOF
<1> DEFINE Places40 == 1 .. 40
           Odd == {n \in 1 .. 37 : n % 2 = 1}
           Ops == {"flip", "merge", "split"}
<1>1. \/ noise = <<"none">> \/ noise = <<"open end">>
      \/ noise \in {"late"} \X Places40 \X Stubs
      \/ noise \in Ops \X Odd
  BY Zenon DEF Zac!Noises
<1>2. CASE noise = <<"none">>
  BY <1>2
<1>3. CASE noise = <<"open end">>
  BY <1>3
<1> HIDE DEF Places40, Odd, Ops
<1>4. ASSUME noise \in {"late"} \X Places40 \X Stubs
      PROVE  noise[1] = "late" /\ noise[2] \in Places40 /\ noise[3] \in Stubs
  BY ONLY <1>4
<1>5. ASSUME noise \in Ops \X Odd PROVE noise[1] \in Ops /\ noise[2] \in Odd
  BY ONLY <1>5
<1> QED BY <1>1, <1>2, <1>3, <1>4, <1>5, Zenon DEF Places40, Odd, Ops

(* A capture that began in pulse i. *)
Captured(f, i, x) == <<x>> \o SubSeq(f, i + 1, 40)
CaptureIs(pulses, f, i, x) ==
  /\ Len(pulses) = 41 - i /\ pulses[1] = x
  /\ i = 1 => \A j \in 2 .. 40 : pulses[j] = f[j]
PulsesIn(f, S) == \A j \in 1 .. 40 : f[j] \in S

(* The length and the first pulse of a late capture.                       *)
LEMMA LateIs ==
  ASSUME NEW S, NEW f, PulsesIn(f, S), NEW i, i \in 1 .. 40, NEW x \in S
  PROVE  CaptureIs(Captured(f, i, x), f, i, x)
PROOF
<1>a. PICK pulses : pulses = Captured(f, i, x)
  OBVIOUS
<1>b. i \in Nat /\ 1 <= i /\ i <= 40
  OBVIOUS
<1>1. PICK head, rest : head = <<x>> /\ rest = SubSeq(f, i + 1, 40)
  BY Zenon
<1>2. head \in Seq(S) /\ Len(head) = 1 /\ head[1] = x
  BY <1>1, Tuples
<1>3. PICK m, n \in Int : m = i + 1 /\ n = 40
  OBVIOUS
<1>4. /\ rest \in Seq(S) /\ Len(rest) = IF m <= n THEN n - m + 1 ELSE 0
      /\ \A j \in 1 .. n - m + 1 : rest[j] = f[m + j - 1]
  <2>1. \A j \in m .. n : f[j] \in S
    <3>1. \A j \in m .. n : j \in 1 .. 40
      BY ONLY <1>3, <1>b
    <3> QED BY <3>1, Zenon DEF PulsesIn
  <2>2. /\ SubSeq(f, m, n) \in Seq(S) /\ Len(SubSeq(f, m, n)) = IF m <= n THEN n - m + 1 ELSE 0
        /\ \A j \in 1 .. n - m + 1 : SubSeq(f, m, n)[j] = f[m + j - 1]
    BY ONLY m \in Int, n \in Int, <2>1, SubSeqProperties
  <2> QED BY <1>1, <1>3, <2>2, Zenon
<1>5. Len(rest) = 40 - i
  BY ONLY <1>3, <1>4, <1>b
<1>6. /\ Len(pulses) = Len(head) + Len(rest)
      /\ \A j \in 1 .. Len(head) + Len(rest) :
           pulses[j] = IF j <= Len(head) THEN head[j] ELSE rest[j - Len(head)]
  <2>1. pulses = head \o rest
    BY <1>a, <1>1, Zenon DEF Captured
  <2>2. /\ Len(head \o rest) = Len(head) + Len(rest)
        /\ \A j \in 1 .. Len(head) + Len(rest) :
             (head \o rest)[j] = IF j <= Len(head) THEN head[j] ELSE rest[j - Len(head)]
    BY <1>2, <1>4, ConcatProperties, Zenon
  <2> QED BY <2>1, <2>2, Zenon
<1>7. PICK l \in Nat : l = Len(head) + Len(rest) /\ l = 41 - i
  <2>1. Len(head) + Len(rest) = 1 + (40 - i)
    BY <1>2, <1>5, Zenon
  <2>2. 1 + (40 - i) = 41 - i /\ 41 - i \in Nat
    BY ONLY <1>b
  <2> QED BY <2>1, <2>2, Zenon
<1>8. Len(pulses) = 41 - i
  BY <1>6, <1>7, Zenon
<1>9. \A j \in 1 .. l : pulses[j] = IF j <= 1 THEN head[j] ELSE rest[j - 1]
  BY <1>2, <1>6, <1>7, Zenon
<1>10. pulses[1] = x
  <2>1. 1 \in 1 .. l /\ 1 <= 1
    BY <1>7
  <2>2. pulses[1] = head[1]
    BY ONLY <1>9, <2>1
  <2> QED BY <1>2, <2>2, Zenon
<1>11. ASSUME i = 1, NEW j \in 2 .. 40 PROVE pulses[j] = f[j]
  <2>1. PICK o \in 1 .. 39 : o = j - 1
    OBVIOUS
  <2>2. rest[o] = f[j]
    <3>1. o \in 1 .. n - m + 1 /\ m + o - 1 = j
      BY <1>3, <1>11, <2>1
    <3> QED BY <1>4, <3>1
  <2>3. j \in 1 .. l /\ ~(j <= 1)
    BY <1>7, <1>11
  <2> QED BY <1>9, <2>1, <2>2, <2>3
<1> QED BY <1>a, <1>8, <1>10, <1>11, Zenon DEF CaptureIs

(* The levels of the two kinds of pulses.                                  *)
LEMMA LevelsAre == \A length : LowPulse(length)[1] = FALSE /\ HighPulse(length)[1] = TRUE
PROOF BY DEF LowPulse, HighPulse

(* A late capture: of the first low, of its high, or too short.            *)
LEMMA LateDecodes ==
  ASSUME NEW value \in RawValue, NEW strobe \in Zac!StartBit, NEW i \in 1 .. 40, NEW stub \in Nat
  PROVE  LET f == Zac!Frame(value, strobe)
             pulses == <<<<f[i][1], IF stub < f[i][2] THEN stub ELSE f[i][2]>>>>
                       \o SubSeq(f, i + 1, 40)
         IN  Zac!DecodePulses(pulses) \in {Zac!Ok(value), Zac!Framing}
PROOF
<1>1. PICK f, lows, highs : /\ f = Zac!Frame(value, strobe)
                            /\ lows = Lows(value, strobe) /\ highs = Highs(value, strobe)
  BY Zenon
<1>2. /\ f = [j \in 1 .. 40 |-> f[j]]
      /\ \A j \in 1 .. 40 : f[j] = PulseAt(j, lows, highs)
  BY <1>1, FramePulsesAre, Zenon
<1>3. PICK S : \A j \in 1 .. 40 : f[j] \in S
  BY <1>2, Sequence, ZenonT(30)
<1>4. PICK x, pulses, m : /\ m = IF stub < f[i][2] THEN stub ELSE f[i][2]
                          /\ x = <<f[i][1], m>>
                          /\ pulses = Captured(f, i, x)
  BY Zenon
<1>5. SUFFICES Zac!DecodePulses(pulses) \in {Zac!Ok(value), Zac!Framing}
  BY <1>1, <1>4, Zenon DEF Captured
<1>6. /\ Len(pulses) = 41 - i /\ pulses[1] = x
      /\ i = 1 => \A j \in 2 .. 40 : pulses[j] = f[j]
  <2>1. PICK T : x \in T /\ PulsesIn(f, T)
    <3>1. x \in S \cup {x} /\ \A j \in 1 .. 40 : f[j] \in S \cup {x}
      BY <1>3, Zenon
    <3> QED BY <3>1, Zenon DEF PulsesIn
  <2>2. CaptureIs(Captured(f, i, x), f, i, x)
    BY <2>1, LateIs, Zenon
  <2> QED BY <1>4, <2>2, Zenon DEF CaptureIs
<1>7. CASE i = 1
  <2>1. f[1] = LowPulse(strobe)
    <3>1. 1 \in 1 .. 40 /\ 1 % 2 = 1 /\ 1 \div 2 = 0
      OBVIOUS
    <3>2. f[1] = LowPulse(lows[0])
      BY <1>2, <3>1 DEF PulseAt
    <3>3. lows[0] = strobe
      BY <1>1, LowsRead
    <3> QED BY <3>2, <3>3
  <2>2. strobe \in Nat
    BY DEF Zac!StartBit
  <2>3. m \in Nat /\ m <= strobe
    <3>1. f[i][2] = strobe
      BY <1>7, <2>1, PulsesAre
    <3> QED BY <1>4, <2>2, <3>1
  <2>4. pulses[1] = LowPulse(m)
    <3>1. f[i][1] = FALSE
      BY <1>7, <2>1, LevelsAre, Zenon
    <3> QED BY <1>4, <1>6, <3>1, Zenon DEF LowPulse
  <2>5. PICK low : low = Put(lows, 0, m)
    OBVIOUS
  <2>6. low[0] = m /\ \A k \in 1 .. 19 : low[k] = lows[k]
    <3>1. lows \in [0 .. 19 -> Nat]
      BY <1>1, LowsRead
    <3> QED BY <2>5, <3>1 DEF Put
  <2>7. ASSUME NEW j \in 1 .. 40 PROVE pulses[j] = PulseAt(j, low, highs)
    <3>1. CASE j = 1
      <4>1. 1 % 2 = 1 /\ 1 \div 2 = 0
        OBVIOUS
      <4> QED BY <2>4, <2>6, <3>1, <4>1 DEF PulseAt
    <3>2. CASE j # 1
      <4>1. pulses[j] = PulseAt(j, lows, highs)
        BY <1>2, <1>6, <1>7, <3>2
      <4>2. PICK k : k = j \div 2 /\ (j % 2 = 1 => k \in 1 .. 19)
        <5>1. j % 2 = 1 => j \div 2 \in 1 .. 19
          BY <3>2
        <5> QED BY <5>1
      <4>3. j % 2 = 1 => low[j \div 2] = lows[j \div 2]
        BY <2>6, <4>2
      <4> QED BY <4>1, <4>3 DEF PulseAt
    <3> QED BY <3>1, <3>2
  <2>8. IsFrame(pulses, 40, low, highs)
    <3>1. \A k \in 0 .. 19 : highs[k] \in Nat /\ highs[k] < 1000
      BY <1>1, LowsAre
    <3>2. Len(pulses) = 40
      <4>1. 41 - i = 40
        BY <1>7
      <4> QED BY <1>6, <4>1, Zenon
    <3> QED BY <2>7, <3>1, <3>2 DEF IsFrame
  <2> QED BY <1>1, <2>3, <2>5, <2>8, ShortenedDecodes
<1>8. CASE i = 2
  <2>1. f[2] = HighPulse(highs[0])
    <3>1. 2 \in 1 .. 40 /\ 2 % 2 # 1 /\ (2 \div 2) - 1 = 0
      OBVIOUS
    <3> QED BY <1>2, <3>1 DEF PulseAt
  <2>2. f[i][1] = TRUE
    BY <1>8, <2>1, LevelsAre, Zenon
  <2>3. pulses[1] = HighPulse(m)
    BY <1>4, <1>6, <2>2, Zenon DEF HighPulse
  <2>4. pulses[1][1]
    BY <2>3, LevelsAre, Zenon
  <2> QED BY <2>4, BeginsHigh, Zenon
<1>9. CASE i > 2
  <2>1. 41 - i # 39 /\ 41 - i # 40
    BY <1>9
  <2>2. Len(pulses) # 39 /\ Len(pulses) # 40
    BY <1>6, <2>1, Zenon
  <2> QED BY <2>2, WrongLength, Zenon
<1> QED BY <1>7, <1>8, <1>9

(* A frame of which the low and the high of a bit changed places.          *)
Swapped(f, i, low, high) == [f EXCEPT ![i] = low, ![i + 1] = high]

Forty(f) == f = [j \in 1 .. 40 |-> f[j]]
SwapIs(pulses, f, i, low, high) ==
  /\ Len(pulses) = 40 /\ pulses[i] = low /\ pulses[i + 1] = high
  /\ \A j \in 1 .. 40 : j # i /\ j # i + 1 => pulses[j] = f[j]

(* Two pulses replaced, the others as they were.                           *)
LEMMA SwappedIs ==
  ASSUME NEW f, Forty(f), NEW i \in 1 .. 39, NEW low, NEW high
  PROVE  SwapIs(Swapped(f, i, low, high), f, i, low, high)
PROOF
<1>a. f = [j \in 1 .. 40 |-> f[j]]
  BY Zenon DEF Forty
<1>1. PICK pulses : pulses = Swapped(f, i, low, high)
  OBVIOUS
<1>2. PICK a, b : a = i /\ b = i + 1 /\ a \in 1 .. 40 /\ b \in 1 .. 40 /\ a # b
  OBVIOUS
<1>3. PICK D : D = 1 .. 40
  OBVIOUS
<1>4. pulses = [[j \in D |-> f[j]] EXCEPT ![a] = low, ![b] = high]
  BY <1>a, <1>1, <1>2, <1>3, Zenon DEF Swapped
<1>5. a \in D /\ b \in D
  BY <1>2, <1>3
<1>6. /\ pulses = [j \in D |-> pulses[j]] /\ pulses[a] = low /\ pulses[b] = high
      /\ \A j \in D : j # a /\ j # b => pulses[j] = f[j]
  BY ONLY <1>2, <1>4, <1>5
<1>7. pulses = [j \in 1 .. 40 |-> pulses[j]]
  BY <1>3, <1>6, Zenon
<1>8. Len(pulses) = 40
  <2>1. 40 \in Nat
    OBVIOUS
  <2> QED BY <1>7, <2>1, Sequence, Zenon
<1> QED BY <1>1, <1>2, <1>3, <1>6, <1>8, Zenon DEF SwapIs

(* A flipped bit: that low and that high changed places.                   *)
LEMMA FlippedFrame ==
  ASSUME NEW value \in RawValue, NEW strobe \in Zac!StartBit, NEW k \in 0 .. 18, NEW i, LowOf(k, i)
  PROVE  LET lows == Lows(value, strobe)
             highs == Highs(value, strobe)
         IN  IsFrame(Flip(Zac!Frame(value, strobe), i), 40,
                     Put(lows, k, highs[k]), Put(highs, k, lows[k]))
PROOF
<1>1. PICK f, lows, highs : /\ f = Zac!Frame(value, strobe)
                            /\ lows = Lows(value, strobe) /\ highs = Highs(value, strobe)
  BY Zenon
<1>2. /\ f = [j \in 1 .. 40 |-> f[j]]
      /\ \A j \in 1 .. 40 : f[j] = PulseAt(j, lows, highs)
  BY <1>1, FramePulsesAre, Zenon
<1>3. /\ lows = [l \in 0 .. 19 |-> lows[l]] /\ highs = [l \in 0 .. 19 |-> highs[l]]
      /\ \A l \in 0 .. 19 : lows[l] \in Nat /\ lows[l] < 1000 /\ highs[l] \in Nat /\ highs[l] < 1000
  BY <1>1, LowsAre DEF Lows, Highs
<1>4. /\ i \in 1 .. 39 /\ i + 1 \in 1 .. 40 /\ i \in 1 .. 40 /\ k \in 0 .. 19
      /\ i % 2 = 1 /\ i \div 2 = k /\ (i + 1) % 2 # 1 /\ ((i + 1) \div 2) - 1 = k
  BY DEF LowOf
<1>5. f[i] = LowPulse(lows[k]) /\ f[i + 1] = HighPulse(highs[k])
  BY <1>2, <1>4 DEF PulseAt
<1>6. f[i][2] = lows[k] /\ f[i + 1][2] = highs[k]
  BY <1>5, PulsesAre
<1>7. PICK x, y, pulses : /\ x = LowPulse(highs[k]) /\ y = HighPulse(lows[k])
                          /\ pulses = Swapped(f, i, x, y)
  OBVIOUS
<1>8. /\ Len(pulses) = 40 /\ pulses[i] = x /\ pulses[i + 1] = y
      /\ \A j \in 1 .. 40 : j # i /\ j # i + 1 => pulses[j] = f[j]
  <2>1. Forty(f)
    BY <1>2, Zenon DEF Forty
  <2>2. SwapIs(Swapped(f, i, x, y), f, i, x, y)
    BY <1>4, <2>1, SwappedIs, Zenon
  <2> QED BY <1>7, <2>2, Zenon DEF SwapIs
<1>9. PICK low, high : low = Put(lows, k, highs[k]) /\ high = Put(highs, k, lows[k])
  OBVIOUS
<1>10. /\ low[k] = highs[k] /\ high[k] = lows[k]
       /\ \A l \in 0 .. 19 : l # k => low[l] = lows[l] /\ high[l] = highs[l]
  <2>1. PICK a, b : a = highs[k] /\ b = lows[k]
    OBVIOUS
  <2>2. low = [lows EXCEPT ![k] = a] /\ high = [highs EXCEPT ![k] = b]
    BY <1>9, <2>1 DEF Put
  <2>3. DOMAIN lows = 0 .. 19 /\ DOMAIN highs = 0 .. 19
    BY <1>3, Zenon
  <2> QED BY ONLY <1>4, <2>1, <2>2, <2>3
<1>11. ASSUME NEW j \in 1 .. 40 PROVE pulses[j] = PulseAt(j, low, high)
  <2>1. CASE j = i
    BY <1>4, <1>7, <1>8, <1>10, <2>1 DEF PulseAt
  <2>2. CASE j = i + 1
    BY <1>4, <1>7, <1>8, <1>10, <2>2 DEF PulseAt
  <2>3. CASE j # i /\ j # i + 1
    <3>1. pulses[j] = PulseAt(j, lows, highs)
      BY <1>2, <1>8, <2>3
    <3>2. j % 2 = 1 => j \div 2 \in 0 .. 19 /\ j \div 2 # k
      BY <1>4, <2>3
    <3>3. j % 2 # 1 => (j \div 2) - 1 \in 0 .. 19 /\ (j \div 2) - 1 # k
      BY <1>4, <2>3
    <3> QED BY <1>10, <3>1, <3>2, <3>3 DEF PulseAt
  <2> QED BY <2>1, <2>2, <2>3
<1>12. \A l \in 0 .. 19 : high[l] \in Nat /\ high[l] < 1000
  BY <1>3, <1>4, <1>10
<1>13. IsFrame(pulses, 40, low, high)
  BY <1>8, <1>11, <1>12 DEF IsFrame
<1> QED BY <1>1, <1>6, <1>7, <1>9, <1>13, Zenon DEF Swapped, Flip

(* A frame that lost or gained a pulse has another length than frames.     *)
LEMMA MergedLength ==
  ASSUME NEW S, NEW f, PulsesIn(f, S), NEW i \in 1 .. 37, NEW x
  PROVE  Zac!DecodePulses(SubSeq(f, 1, i - 1) \o <<x>> \o SubSeq(f, i + 3, 40)) = Zac!Framing
PROOF
<1>1. PICK T : x \in T /\ \A j \in 1 .. 40 : f[j] \in T
  <2>1. x \in S \cup {x} /\ \A j \in 1 .. 40 : f[j] \in S \cup {x}
    BY Zenon DEF PulsesIn
  <2> QED BY <2>1, Zenon
<1>2. PICK a \in Nat, b \in Nat : a = i - 1 /\ b = i + 3 /\ a <= 40 /\ 1 <= b /\ b <= 41
  OBVIOUS
<1>3. PICK middle : middle = <<x>> /\ middle \in Seq(T) /\ Len(middle) = 1
  <2>1. <<x>> \in Seq(T) /\ Len(<<x>>) = 1
    BY ONLY <1>1, Tuples, Zenon
  <2> QED BY <2>1, Zenon
<1>4. MiddleLength(f, a, middle, b)
  <2>1. /\ a \in Nat /\ a <= 40 /\ b \in Nat /\ 1 <= b /\ b <= 41
        /\ middle \in Seq(T) /\ \A j \in 1 .. 40 : f[j] \in T
    BY <1>1, <1>2, <1>3, Zenon
  <2> QED BY ONLY <2>1, Middle, Zenon
<1>5. a + 1 + (41 - b) = 38
  BY <1>2
<1>6. Len(SubSeq(f, 1, i - 1) \o <<x>> \o SubSeq(f, i + 3, 40)) = 38
  BY <1>2, <1>3, <1>4, <1>5, Zenon DEF MiddleLength
<1>7. 38 # 39 /\ 38 # 40
  OBVIOUS
<1> QED BY <1>6, <1>7, WrongLength, Zenon

(* A spike in a low adds two pulses.                                       *)
LEMMA SplitLength ==
  ASSUME NEW S, NEW f, PulsesIn(f, S), NEW i \in 1 .. 37, NEW x, NEW y, NEW z
  PROVE  Zac!DecodePulses(SubSeq(f, 1, i - 1) \o <<x, y, z>> \o SubSeq(f, i + 1, 40)) = Zac!Framing
PROOF
<1>1. PICK T : x \in T /\ y \in T /\ z \in T /\ \A j \in 1 .. 40 : f[j] \in T
  <2>1. /\ x \in S \cup {x, y, z} /\ y \in S \cup {x, y, z} /\ z \in S \cup {x, y, z}
        /\ \A j \in 1 .. 40 : f[j] \in S \cup {x, y, z}
    BY Zenon DEF PulsesIn
  <2> QED BY <2>1, Zenon
<1>2. PICK a \in Nat, b \in Nat : a = i - 1 /\ b = i + 1 /\ a <= 40 /\ 1 <= b /\ b <= 41
  OBVIOUS
<1>3. PICK middle : middle = <<x, y, z>> /\ middle \in Seq(T) /\ Len(middle) = 3
  <2>1. <<x, y, z>> \in Seq(T) /\ Len(<<x, y, z>>) = 3
    BY ONLY <1>1, Tuples, Zenon
  <2> QED BY <2>1, Zenon
<1>4. MiddleLength(f, a, middle, b)
  <2>1. /\ a \in Nat /\ a <= 40 /\ b \in Nat /\ 1 <= b /\ b <= 41
        /\ middle \in Seq(T) /\ \A j \in 1 .. 40 : f[j] \in T
    BY <1>1, <1>2, <1>3, Zenon
  <2> QED BY ONLY <2>1, Middle, Zenon
<1>5. a + 3 + (41 - b) = 42
  BY <1>2
<1>6. Len(SubSeq(f, 1, i - 1) \o <<x, y, z>> \o SubSeq(f, i + 1, 40)) = 42
  BY <1>2, <1>3, <1>4, <1>5, Zenon DEF MiddleLength
<1>7. 42 # 39 /\ 42 # 40
  OBVIOUS
<1> QED BY <1>6, <1>7, WrongLength, Zenon

(* What a frame of a value decodes to, whatever happened to it.            *)
LEMMA CaptureDecodes ==
  ASSUME NEW value \in RawValue, NEW strobe \in Zac!StartBit, Stubs \subseteq Nat,
         NEW noise \in Zac!Noises
  PROVE  LET result == Zac!DecodePulses(Zac!Disturbed(Zac!Frame(value, strobe), noise))
         IN  /\ result \in {Zac!Ok(value), Zac!Parity, Zac!Framing}
             /\ noise[1] \in {"none", "open end"} => result = Zac!Ok(value)
PROOF
<1>1. PICK f, i, pulses : /\ f = Zac!Frame(value, strobe) /\ i = noise[2]
                          /\ pulses = Zac!Disturbed(f, noise)
  BY Zenon
<1>2. PICK S : PulsesIn(f, S)
  <2>1. Forty(f)
    BY <1>1, FramePulsesAre, Zenon DEF Forty
  <2>2. f = [j \in 1 .. 40 |-> f[j]]
    BY <2>1, Zenon DEF Forty
  <2>3. 40 \in Nat
    OBVIOUS
  <2> QED BY <2>2, <2>3, Sequence, Zenon DEF PulsesIn
<1>3. SUFFICES /\ Zac!DecodePulses(pulses) \in {Zac!Ok(value), Zac!Parity, Zac!Framing}
               /\ noise[1] \in {"none", "open end"} => Zac!DecodePulses(pulses) = Zac!Ok(value)
  BY <1>1, Zenon
<1>d. Becomes(f, noise, i, pulses)
  BY <1>1, DisturbedIs, Zenon
<1>4. CASE noise[1] = "none"
  <2>1. IsFrame(pulses, 40, Lows(value, strobe), Highs(value, strobe))
    BY <1>1, <1>4, <1>d, WholeFrame, Zenon DEF Becomes
  <2>2. Zac!DecodePulses(pulses) = Zac!Ok(value)
    BY <2>1, WholeDecodes, Zenon
  <2> QED BY <2>2, Zenon
<1>5. CASE noise[1] = "open end"
  <2>1. IsFrame(pulses, 39, Lows(value, strobe), Highs(value, strobe))
    BY <1>1, <1>5, <1>d, OpenFrame, Zenon DEF Becomes
  <2>2. Zac!DecodePulses(pulses) = Zac!Ok(value)
    BY <2>1, WholeDecodes, Zenon
  <2> QED BY <2>2, Zenon
<1>6. CASE noise[1] = "late" /\ i \in 1 .. 40 /\ noise[3] \in Stubs
  <2>1. PICK stub \in Nat : stub = noise[3]
    BY <1>6, Zenon
  <2>2. pulses = <<<<f[i][1], IF stub < f[i][2] THEN stub ELSE f[i][2]>>>> \o SubSeq(f, i + 1, 40)
    <3>1. pulses = <<<<f[i][1], IF noise[3] < f[i][2] THEN noise[3] ELSE f[i][2]>>>>
                   \o SubSeq(f, i + 1, 40)
      BY <1>6, <1>d, Zenon DEF Becomes
    <3> QED BY <2>1, <3>1
  <2>3. Zac!DecodePulses(pulses) \in {Zac!Ok(value), Zac!Framing}
    BY <1>1, <1>6, <2>2, LateDecodes, Zenon
  <2>4. noise[1] # "none" /\ noise[1] # "open end"
    BY <1>6
  <2> QED BY <2>3, <2>4, Zenon
<1>7. CASE noise[1] \in {"flip", "merge", "split"} /\ i \in {n \in 1 .. 37 : n % 2 = 1}
  <2>1. noise[1] # "none" /\ noise[1] # "open end"
    BY <1>7
  <2>2. PICK k \in 0 .. 18 : i = 2 * k + 1 /\ i \in 1 .. 37
    <3>1. i \in 1 .. 37 /\ i % 2 = 1
      BY <1>7, Zenon
    <3>2. i \div 2 \in 0 .. 18 /\ i = 2 * (i \div 2) + 1
      BY ONLY <3>1
    <3> QED BY <3>1, <3>2, Zenon
  <2>3. ASSUME noise[1] = "flip"
        PROVE  Zac!DecodePulses(pulses) \in {Zac!Ok(value), Zac!Parity}
    <3>1. PICK lows, highs : lows = Lows(value, strobe) /\ highs = Highs(value, strobe)
      OBVIOUS
    <3>2. IsFrame(pulses, 40, Put(lows, k, highs[k]), Put(highs, k, lows[k]))
      <4>1. pulses = Flip(f, i)
        BY <1>d, <2>3, Zenon DEF Becomes
      <4>2. LowOf(k, i)
        BY <2>2 DEF LowOf
      <4> QED BY <1>1, <3>1, <4>1, <4>2, FlippedFrame, Zenon
    <3> QED BY <3>1, <3>2, FlippedDecodes, Zenon
  <2>4. ASSUME noise[1] = "merge" PROVE Zac!DecodePulses(pulses) = Zac!Framing
    <3>1. pulses = SubSeq(f, 1, i - 1) \o <<LowPulse(f[i][2] + f[i + 1][2] + f[i + 2][2])>>
                   \o SubSeq(f, i + 3, 40)
      BY <1>d, <2>4, Zenon DEF Becomes
    <3>2. i \in 1 .. 37
      BY <2>2, Zenon
    <3> QED BY ONLY <1>2, <3>1, <3>2, MergedLength, Zenon
  <2>5. ASSUME noise[1] = "split" PROVE Zac!DecodePulses(pulses) = Zac!Framing
    <3>1. pulses = SubSeq(f, 1, i - 1) \o <<LowPulse(5), HighPulse(1), LowPulse(f[i][2] - 6)>>
                   \o SubSeq(f, i + 1, 40)
      BY <1>d, <2>5, Zenon DEF Becomes
    <3>2. i \in 1 .. 37
      BY <2>2, Zenon
    <3> QED BY ONLY <1>2, <3>1, <3>2, SplitLength, Zenon
  <2> QED BY <1>7, <2>1, <2>3, <2>4, <2>5, Zenon
<1> QED BY <1>1, <1>4, <1>5, <1>6, <1>7, NoiseIs, Zenon

-----------------------------------------------------------------------------
(* The sensor's frame takes a step of its own, or stays as it is.          *)
LEMMA FrameStep == [DeviceNext]_deviceVars => [Zac!Next]_capture
PROOF
<1>1. CASE UNCHANGED deviceVars
  BY <1>1 DEF deviceVars
<1>2. CASE DeviceNext
  <2>1. live = "frames" \/ UNCHANGED capture
    BY <1>2 DEF DeviceNext, Idle
  <2>2. live = "frames" => Zac!Next
    BY <1>2 DEF DeviceNext
  <2> QED BY <2>1, <2>2
<1> QED BY <1>1, <1>2

(* What the constants allow is what the lemmas are about.                  *)
LEMMA FramesAre ==
  ASSUME NEW value \in RawValues, NEW strobe \in Strobes
  PROVE  value \in RawValue /\ strobe \in Zac!StartBit /\ Stubs \subseteq Nat /\ value # Zac!None
PROOF
<1>1. RawValues \subseteq RawValue /\ Strobes \subseteq Zac!StartBit /\ Stubs \subseteq Nat
  BY DeviceConstants DEF Zac!FrameConstants, RawValue
<1>2. value \in RawValue /\ strobe \in Zac!StartBit
  BY <1>1, Zenon
<1>3. \A v \in RawValue : v # -1
  BY DEF RawValue
<1> QED BY <1>1, <1>2, <1>3, Zenon DEF Zac!None

(* Every reception gives the value that was sent, or an error only if the  *)
(* frame was disturbed.                                                    *)
LEMMA ReceivesTrue ==
  ASSUME NEW value \in RawValues, NEW strobe \in Strobes, NEW noise \in Zac!Noises,
         Zac!Receive(value, strobe, noise)
  PROVE  FramesDecode'
PROOF
<1>1. value \in RawValue /\ strobe \in Zac!StartBit /\ Stubs \subseteq Nat
  BY FramesAre
<1>2. PICK result : /\ result = Zac!DecodePulses(Zac!Disturbed(Zac!Frame(value, strobe), noise))
                    /\ result \in {Zac!Ok(value), Zac!Parity, Zac!Framing}
                    /\ noise[1] \in {"none", "open end"} => result = Zac!Ok(value)
  BY <1>1, CaptureDecodes, Zenon
<1>3. capture' = [sent |-> value, noise |-> noise, result |-> result]
  BY <1>2, Zenon DEF Zac!Receive
<1>4. capture'.sent = value /\ capture'.noise = noise /\ capture'.result = result
  BY <1>3
<1> QED BY <1>2, <1>4, Zenon DEF FramesDecode, Zac!WholeFramesDecode, Zac!OneFaultIsSeen

(* Nothing was sent yet.                                                   *)
LEMMA IdleDecodes == capture = Zac!Idle => FramesDecode
PROOF
<1>1. capture = Zac!Idle => capture.sent = Zac!None
  BY DEF Zac!Idle
<1> QED BY <1>1, Zenon DEF FramesDecode, Zac!WholeFramesDecode, Zac!OneFaultIsSeen

(* The decoder of the temperature sensor (tsic/src/lib.rs): a frame that   *)
(* arrives whole gives the value that was sent, whatever the sensor's      *)
(* clock; one that began late, lost or gained a pulse or has one bit the   *)
(* wrong way round gives that value or an error, never another value.      *)
THEOREM FramesAlwaysDecode == DeviceSpec => []FramesDecode
PROOF
<1>1. DeviceInit => FramesDecode
  BY IdleDecodes DEF DeviceInit, Zac!Init
<1>2. FramesDecode /\ [DeviceNext]_deviceVars => FramesDecode'
  <2> SUFFICES ASSUME FramesDecode, [DeviceNext]_deviceVars PROVE FramesDecode'
    OBVIOUS
  <2>1. [Zac!Next]_capture
    BY FrameStep
  <2>2. CASE UNCHANGED capture
    BY <2>2, Zenon DEF FramesDecode, Zac!WholeFramesDecode, Zac!OneFaultIsSeen
  <2>3. CASE Zac!Rest
    <3>1. capture' = Zac!Idle
      BY <2>3 DEF Zac!Rest
    <3>2. capture'.sent = Zac!None
      BY <3>1 DEF Zac!Idle
    <3> QED BY <3>2, Zenon DEF FramesDecode, Zac!WholeFramesDecode, Zac!OneFaultIsSeen
  <2>4. CASE \E value \in RawValues, strobe \in Strobes, noise \in Zac!Noises :
               Zac!Receive(value, strobe, noise)
    BY <2>4, ReceivesTrue, Zenon
  <2> QED BY <2>1, <2>2, <2>3, <2>4, Zenon DEF Zac!Next
<1> QED BY <1>1, <1>2, PTL DEF DeviceSpec
=============================================================================

------------------------------- MODULE Scale --------------------------------
(***************************************************************************)
(* The scale of the machine (core/src/scale.rs): averaging, tare,          *)
(* calibration and the weight of a shot, with the commands of the machine  *)
(* that drive it.                                                          *)
(*                                                                         *)
(* The load is in grams.  The cells of an HX711 scale are taken together,  *)
(* as their factors are; they give Gain counts per gram.  A Bluetooth      *)
(* scale gives grams, keeps its zero itself, and does a tare whenever its  *)
(* session takes it from SCALE_TARE.  Timers are what is left of them.     *)
(***************************************************************************)
EXTENDS Integers, Sequences, SequencesExt

CONSTANTS Samples,          \* hardware.sensors.scale.samples
          Gain,             \* counts per gram, what a calibration should find
          KnownWeight,      \* hardware.sensors.scale.known_weight
          CalibrationTare,  \* CALIBRATION_TARE_MS
          CalibrationPlace, \* CALIBRATION_PLACE_MS
          AutoTareTimeout,  \* AUTO_TARE_TIMEOUT_MS
          MaxLoad           \* bound of the load

VARIABLES bluetooth,  \* the scale's type
          load,       \* what stands on the scale
          zero,       \* the load at which a Bluetooth scale shows zero
          tare,       \* SCALE_TARE
          pending,    \* the Bluetooth reading that the next tick takes
          scale,      \* Scale, with the factor that the settings keep
          brew,       \* BrewWeight of the running shot
          shot        \* poured since its start, and whether the scale was
                      \* right and at rest then and kept its factor

outside == <<bluetooth, load, zero>>
vars == <<outside, tare, pending, scale, brew, shot>>

ScaleConstants ==
  /\ Samples \in Nat \ {0} /\ Gain \in Nat \ {0} /\ KnownWeight \in Nat \ {0}
  /\ {CalibrationTare, CalibrationPlace, AutoTareTimeout} \subseteq Nat /\ MaxLoad \in Nat

None == -(Gain * MaxLoad) - 1   \* what no scale shows
Idle == [at |-> "idle", left |-> 0]
Calibrating == scale.calibration.at \in {"taring", "placing"}
Sum(seq) == LET sum[n \in 0 .. Len(seq)] == IF n = 0 THEN 0 ELSE sum[n - 1] + seq[n]
            IN  sum[Len(seq)]

-----------------------------------------------------------------------------
Push(window, r) == Append(IF Len(window) >= Samples THEN Tail(window) ELSE window, r)
Mean(window) == IF window = <<>> THEN 0 ELSE (Gain * Sum(window)) \div Len(window)

(* A factor of zero divides like one; a negative one is a scale hung the   *)
(* other way round.                                                        *)
Grams(counts, factor) ==
  CASE factor = 0 -> counts
    [] factor > 0 -> counts \div factor
    [] factor < 0 -> (-counts) \div (-factor)

(* A step of the calibration, taken with a reading once its time is over.  *)
AdvanceCalibration(s) ==
  LET factor == (Mean(s.window) - s.tare) \div KnownWeight
  IN  IF s.calibration.left > 0 THEN s
      ELSE CASE s.calibration.at = "taring" ->
                  [s EXCEPT !.calibration = [at |-> "placing", left |-> CalibrationPlace]]
             [] s.calibration.at = "placing" /\ factor # 0 ->
                  [s EXCEPT !.calibration = [at |-> "done", left |-> 0], !.factor = factor]
             [] s.calibration.at = "placing" /\ factor = 0 ->
                  [s EXCEPT !.calibration = [at |-> "failed", left |-> 0]]
             [] OTHER -> s

OnCounts(s, r) ==
  LET window == Push(s.window, r)
      tared == [s EXCEPT !.window = window,
                         !.tare = IF s.tarePending THEN Mean(window) ELSE @,
                         !.tarePending = FALSE,
                         !.ownTare = @ \/ s.tarePending]
      next == AdvanceCalibration(tared)
  IN  [next EXCEPT !.grams = Grams(Mean(window) - next.tare, next.factor)]
OnGrams(s, g) == IF g = None THEN s ELSE [s EXCEPT !.grams = g]

Weight(s) == IF s.grams = None THEN 0 ELSE s.grams

(* The weight of a shot counts from the weight at its start, or, when a    *)
(* Bluetooth scale is asked to tare first, from its zero: `auto`, the      *)
(* settings want that, and brew by weight.  (The last weight of a shot     *)
(* stays on the display.)                                                  *)
NoBrew == [active |-> FALSE, pre |-> None, left |-> 0]
AsksTare(active, auto) == active /\ ~brew.active /\ bluetooth /\ auto /\ Weight(scale') # 0
TrackBrew(active, auto) ==
  LET w == Weight(scale')
  IN  brew' = CASE ~active -> NoBrew
                [] AsksTare(active, auto) -> [active |-> TRUE, pre |-> None, left |-> AutoTareTimeout]
                [] active /\ ~brew.active /\ ~AsksTare(active, auto) ->
                     [NoBrew EXCEPT !.active = TRUE, !.pre = w]
                [] active /\ brew.active /\ brew.pre = None /\ (brew.left = 0 \/ w = 0) ->
                     [NoBrew EXCEPT !.active = TRUE, !.pre = w]
                [] OTHER -> brew
BrewWeight == IF brew.pre = None THEN 0 ELSE Weight(scale) - brew.pre

NewScale == [window |-> <<>>, tare |-> 0, grams |-> None, tarePending |-> TRUE,
             calibration |-> Idle, factor |-> 0, ownTare |-> FALSE]

-----------------------------------------------------------------------------
Init ==
  /\ bluetooth \in BOOLEAN
  /\ load \in 0 .. MaxLoad
  /\ zero = 0 /\ tare = FALSE /\ pending = None
  /\ \E factor \in {0, Gain} : scale = [NewScale EXCEPT !.factor = factor]
  /\ brew = NoBrew
  /\ shot = [poured |-> 0, honest |-> FALSE]

(* Commands of the user. *)
ToggleScaleTare ==
  /\ tare' = (tare \/ bluetooth)
  /\ scale' = [scale EXCEPT !.tarePending = @ \/ ~bluetooth]
  /\ UNCHANGED <<outside, pending, brew, shot>>

(* A mutant: a calibration starts from the last tare. *)
StartCalibrationUntared == [scale EXCEPT !.ownTare = FALSE,
                              !.calibration = [at |-> "taring", left |-> CalibrationTare]]
StartCalibration == [scale EXCEPT !.tarePending = TRUE, !.ownTare = FALSE,
                       !.calibration = [at |-> "taring", left |-> CalibrationTare]]
ToggleScaleCalibration ==
  /\ scale' = CASE Calibrating -> [scale EXCEPT !.calibration = Idle]
                [] ~Calibrating /\ ~bluetooth -> StartCalibration
                [] OTHER -> scale
  /\ UNCHANGED <<outside, tare, pending, brew, shot>>

(* Things are put on the scale and taken off, but not during a shot. *)
Place(grams) == /\ ~brew.active /\ load' = grams
                /\ UNCHANGED <<bluetooth, zero, tare, pending, scale, brew, shot>>
Pour == /\ brew.active /\ load < MaxLoad
        /\ load' = load + 1
        /\ shot' = [shot EXCEPT !.poured = IF shot.honest THEN @ + 1 ELSE 0]
        /\ UNCHANGED <<bluetooth, zero, tare, pending, scale, brew>>

Down(n) == IF n = 0 THEN 0 ELSE n - 1
Clock == /\ scale' = [scale EXCEPT !.calibration.left = Down(@)]
         /\ brew' = [brew EXCEPT !.left = Down(@)]
         /\ UNCHANGED <<outside, tare, pending, shot>>

(* The Bluetooth scale's end. *)
Weighed == /\ bluetooth /\ pending' = load - zero
           /\ UNCHANGED <<outside, tare, scale, brew, shot>>
TareDone == /\ tare /\ tare' = FALSE
            /\ zero' = load
            /\ UNCHANGED <<bluetooth, load, pending, scale, brew, shot>>

(* A tick takes a reading or none, and tracks the shot; steady says that   *)
(* what the scale has read is what it would go on to read.                 *)
TickWith(next, active, auto, steady) ==
  /\ scale' = next
  /\ TrackBrew(active, auto)
  /\ shot' = IF active /\ ~brew.active
             THEN [poured |-> 0, honest |-> steady /\ (bluetooth \/ next.factor = Gain)]
             ELSE LET honest == active /\ shot.honest /\ next.factor = scale.factor
                  IN  [poured |-> IF honest THEN shot.poured ELSE 0, honest |-> honest]
  /\ UNCHANGED outside

Still == [i \in 1 .. Samples |-> load]
CellsTick(active) == /\ ~bluetooth
                     /\ TickWith(OnCounts(scale, load), active, FALSE, Push(scale.window, load) = Still)
                     /\ UNCHANGED <<tare, pending>>
NoReadingTick(active) == /\ ~bluetooth
                         /\ TickWith(scale, active, FALSE, scale.window = Still)
                         /\ UNCHANGED <<tare, pending>>
BleTick(active, auto) ==
  /\ bluetooth
  /\ LET next == OnGrams(scale, pending)
     IN  TickWith(next, active, auto, next.grams = load - zero)
  /\ pending' = None
  /\ tare' = (tare \/ AsksTare(active, auto))
Tick == \E active, auto \in BOOLEAN :
          CellsTick(active) \/ NoReadingTick(active) \/ BleTick(active, auto)

Next == \/ ToggleScaleTare \/ ToggleScaleCalibration \/ Clock \/ Pour \/ Weighed \/ TareDone \/ Tick
        \/ \E grams \in 0 .. MaxLoad : Place(grams)

(* Time passes, the loop ticks, and load cells give readings. *)
FairTick == \E active, auto \in BOOLEAN : CellsTick(active) \/ BleTick(active, auto)
Fairness == WF_vars(Clock) /\ WF_vars(FairTick)
Spec == Init /\ [][Next]_vars /\ Fairness

-----------------------------------------------------------------------------
TypeOK ==
  /\ bluetooth \in BOOLEAN /\ tare \in BOOLEAN
  /\ load \in 0 .. MaxLoad /\ zero \in 0 .. MaxLoad
  /\ pending \in {None} \cup (-MaxLoad .. MaxLoad)
  /\ scale.window \in BoundedSeq(0 .. MaxLoad, Samples)
  /\ brew.left \in 0 .. AutoTareTimeout

(* A shot is not stopped by weight before the weight is in the cup: the    *)
(* brew weight is at most what was poured, and what the scale read below   *)
(* zero at its start, whatever is tared meanwhile and however late.        *)
NoEarlyStop ==
  shot.honest =>
     BrewWeight <= shot.poured + (IF brew.pre \in -MaxLoad .. -1 THEN -brew.pre ELSE 0)

(* A factor comes from a tare of the same calibration, whatever was tared  *)
(* or cancelled before.                                                    *)
OwnTare == scale.calibration.at = "done" => scale.ownTare

(* The wait for a tare ends, though the scale may never do it: a shot by   *)
(* weight gets a weight that can end it.                                   *)
WeightCounts == brew.active ~> brew.pre # None \/ ~brew.active

(* A calibration ends by itself, whatever is tared and poured meanwhile.   *)
CalibrationEnds == Calibrating ~> ~Calibrating
=============================================================================

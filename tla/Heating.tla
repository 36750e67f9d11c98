------------------------------ MODULE Heating -------------------------------
(***************************************************************************)
(* The temperature control: the PID controller (crates/pid) as the machine *)
(* drives it in every tick (control_temperature in core/src/machine.rs).   *)
(*                                                                         *)
(* Temperatures, gains and duties are small integers; gains are per sample *)
(* time.  The code's hundredth of a unit that tells a saturated output     *)
(* from others is a whole unit here.  What the state machine decides, the  *)
(* state and whether it may heat, any reading and any setting may come.    *)
(***************************************************************************)
EXTENDS Integers

CONSTANTS Temps,            \* readings of the boiler
          Setpoint, SteamSetpoint,
          Offset,           \* brew.temp_offset: from the sensor to the coffee
          OutMax,           \* HEATER_WINDOW_MS: full duty
          Regular,          \* gains pid.regular.kp, tn and tv may come to
          Brewing, Steaming,   \* gains of the two other kinds of tunings
          Limits,           \* values pid.regular.i_max may have
          NewLimit,         \* the limit of a new controller
          Alpha, Parts,     \* the smoothing factor, as Alpha of so many Parts
          SampleTicks            \* PID_SAMPLE_MS, in ticks

Gains == [kp : Nat, ki : Nat, kd : Nat]

HeatingConstants ==
  /\ Temps \subseteq Int /\ Setpoint \in Int /\ SteamSetpoint \in Int /\ Offset \in Nat
  /\ Regular \cup {Brewing, Steaming} \subseteq Gains
  /\ OutMax \in Nat \ {0} /\ NewLimit \in Nat \ {0} /\ Limits \subseteq Nat
  /\ Parts \in Nat \ {0} /\ Alpha \in 0 .. Parts /\ SampleTicks \in Nat \ {0, 1}

VARIABLES settings,   \* pid.use_ponm, pid.bd.enabled, pid.regular and its i_max
          mode,       \* the state: "steam", "brew" or another, "regular"
          heat,       \* may the heater run
          input, setpoint,   \* pid_input and setpoint
          pid         \* Pid

heatingVars == <<settings, mode, heat, input, setpoint, pid>>

Proportional == {"OnError", "OnMeasurement"}
Settings == [ponm : BOOLEAN, bd : BOOLEAN, regular : Regular, limit : Limits]
Inputs == Temps \cup {t - Offset : t \in Temps}

TypeOK ==
  /\ settings \in Settings
  /\ mode \in {"regular", "brew", "steam"} /\ heat \in BOOLEAN
  /\ input \in Inputs /\ setpoint \in {Setpoint, SteamSetpoint}
  /\ pid.tunings.gains \in Regular \cup {Brewing, Steaming} /\ pid.tunings.on \in Proportional
  /\ pid.limit \in Limits \cup {NewLimit} /\ pid.automatic \in BOOLEAN
  /\ pid.integrator \in 0 .. OutMax /\ pid.output \in 0 .. OutMax
  /\ pid.lastInput \in Int /\ pid.filtered \in Int /\ pid.age \in 0 .. SampleTicks

-----------------------------------------------------------------------------
(* Pid *)

Clamp(x, low, high) == IF x < low THEN low ELSE IF x > high THEN high ELSE x

NewPid(tunings) ==
  [tunings |-> tunings, limit |-> NewLimit, automatic |-> FALSE, integrator |-> 0,
   lastInput |-> 0, filtered |-> 0, output |-> 0, age |-> SampleTicks]

SetTunings(p, tunings) ==
  IF tunings = p.tunings THEN p
  ELSE [p EXCEPT !.tunings = tunings, !.integrator = IF tunings.gains.ki = 0 THEN 0 ELSE @]

(* A limit of 0 is an empty range, and is ignored. *)
SetIntegratorLimits(p, limit) ==
  IF limit = 0 THEN p
  ELSE [p EXCEPT !.limit = limit, !.integrator = IF p.automatic THEN Clamp(@, 0, limit) ELSE @]

SetAutomatic(p, x) ==
  IF p.automatic THEN p
  ELSE [p EXCEPT !.automatic = TRUE, !.integrator = p.output, !.lastInput = x, !.filtered = x]

SetManual(p) == [p EXCEPT !.automatic = FALSE, !.output = 0]

Smoothed(p, x) == (Alpha * p.filtered + (Parts - Alpha) * x) \div Parts

(* A mutant: a saturated or an overheated boiler stops the integration. *)
IntegratesWhenCold(p, error) == error > 0 /\ 0 < p.output /\ p.output < OutMax
(* With P on the error, no integration while the output is saturated. *)
Integrates(p, error) == 0 < p.output /\ p.output < OutMax

(* A mutant: the smoothed reading is compared with the last raw one. *)
RiseOfRaw(p, x) == Smoothed(p, x) - p.lastInput
Rise(p, x) == Smoothed(p, x) - p.filtered

OnError(p, x, target) ==
  LET error == target - x
      g == p.tunings.gains
      sum == IF Integrates(p, error) THEN p.integrator + g.ki * error ELSE p.integrator
      integrator == Clamp(Clamp(sum, 0, OutMax), 0, p.limit)
  IN  [p EXCEPT !.integrator = integrator,
                !.output = Clamp(g.kp * error + integrator - g.kd * Rise(p, x), 0, OutMax)]

OnMeasurement(p, x, target) ==
  LET g == p.tunings.gains
      rise == x - p.lastInput
      integrator == Clamp(p.integrator + g.ki * (target - x) - g.kp * rise, 0, OutMax)
  IN  [p EXCEPT !.integrator = integrator,
                !.output = Clamp(integrator - g.kd * rise, 0, OutMax)]

(* compute, when automatic: once per sample time. *)
Compute(p, x, target) ==
  IF p.age < SampleTicks THEN p
  ELSE LET computed == IF p.tunings.on = "OnError" THEN OnError(p, x, target)
                                                   ELSE OnMeasurement(p, x, target)
       IN  [computed EXCEPT !.filtered = Smoothed(p, x), !.lastInput = x, !.age = 0]

Aged(p) == [p EXCEPT !.age = IF @ = SampleTicks THEN @ ELSE @ + 1]

-----------------------------------------------------------------------------
(* The machine *)

RegularTunings(s) ==
  [gains |-> s.regular, on |-> IF s.ponm THEN "OnMeasurement" ELSE "OnError"]

TuningsFor(m, s) ==
  CASE m = "steam" -> [gains |-> Steaming, on |-> "OnError"]
    [] m = "brew" /\ s.bd -> [gains |-> Brewing, on |-> "OnError"]
    [] OTHER -> RegularTunings(s)

(* control_temperature: gains and limits are set again in every tick. *)
ControlTemperature(m, raw, heats) ==
  LET x == IF m = "steam" THEN raw ELSE raw - Offset
      target == IF m = "steam" THEN SteamSetpoint ELSE Setpoint
      tuned == SetIntegratorLimits(SetTunings(Aged(pid), TuningsFor(m, settings)), settings.limit)
  IN  /\ mode' = m /\ heat' = heats
      /\ input' = x /\ setpoint' = target
      /\ pid' = IF heats THEN Compute(SetAutomatic(tuned, x), x, target) ELSE SetManual(tuned)

(* Without a reading raw is 0, and nothing heats. *)
Tick ==
  /\ \E m \in {"regular", "brew", "steam"}, raw \in Temps, heats \in BOOLEAN :
       ControlTemperature(m, raw, heats)
  /\ UNCHANGED settings

ParameterWritten ==
  /\ \/ settings' = [settings EXCEPT !.ponm = ~@]
     \/ settings' = [settings EXCEPT !.bd = ~@]
     \/ \E g \in Regular : settings' = [settings EXCEPT !.regular = g]
     \/ \E limit \in Limits : settings' = [settings EXCEPT !.limit = limit]
  /\ UNCHANGED <<mode, heat, input, setpoint, pid>>

Init ==
  /\ settings \in Settings
  /\ mode = "regular" /\ heat = FALSE
  /\ input \in Inputs /\ setpoint = Setpoint
  /\ pid = SetIntegratorLimits(NewPid(RegularTunings(settings)), settings.limit)

Next == Tick \/ ParameterWritten

(* The control loop ticks. *)
Spec == Init /\ [][Next]_heatingVars /\ WF_heatingVars(Tick)

-----------------------------------------------------------------------------
(* A sample that finds the boiler so hot that P outweighs the most the     *)
(* integrator may hold, and not cooling, turns the heater off, whatever    *)
(* mode, gains and limits came before.                                     *)
TooHotSample ==
  /\ pid.age # 0 /\ pid'.age = 0 /\ pid'.tunings.on = "OnError"
  /\ pid'.tunings.gains.kp * (input' - setpoint') >= pid'.limit
  /\ pid'.filtered >= (IF pid.automatic THEN pid.filtered ELSE input')
TooHotIsOff == [][TooHotSample => pid'.output = 0]_heatingVars

(* A boiler that stays above its setpoint is no longer heated after a      *)
(* while, even if the mode and the settings change on the way: nothing     *)
(* winds up that does not unwind.  Not so with P on the measurement and no *)
(* integral part (pid.regular.tn = 0), where only a rise takes anything    *)
(* from what the integrator has: there a steady boiler stays heated.       *)
Overheated == heat /\ input > setpoint
Holds == pid.tunings.on = "OnMeasurement" /\ pid.tunings.gains.ki = 0
OverheatEnds == Overheated ~> (pid.output = 0 \/ ~Overheated \/ Holds)

(* With P on the measurement the integrator is only limited by the output  *)
(* range: below the setpoint, without a rise, it never falls.  The code    *)
(* violates it, as the limit of the other mode is set in every tick.       *)
Measures == pid.automatic /\ pid.tunings.on = "OnMeasurement"
PonmOnlyRangeLimited ==
  [][ Measures /\ Measures' /\ input' <= pid.lastInput /\ input' <= setpoint'
        => pid'.integrator >= pid.integrator ]_heatingVars
=============================================================================

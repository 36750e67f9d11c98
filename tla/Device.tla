-------------------------------- MODULE Device --------------------------------
(***************************************************************************)
(* The parts of the machine's hardware: a switch, the frames and the tasks *)
(* of the sensors, the control of the temperature, the scale and its       *)
(* Bluetooth session, the display.  They share no state that their modules *)
(* keep, so that one behaviour takes the steps of one of them, `live'; the *)
(* others stay as they begin.                                              *)
(***************************************************************************)
EXTENDS SwitchDebounce

CONSTANTS RawValues, Strobes, Stubs,
          Right, Wrong, SilenceMax, Timeout, ErrorsMax, DallasMax,
          Samples, Gain, KnownWeight, CalibrationTare, CalibrationPlace, AutoTareTimeout, MaxLoad,
          HeartbeatPeriod, MaxPacketPeriod, Pause,
          Temps, Setpoint, SteamSetpoint, Offset, OutMax, Regular, Brewing, Steaming, Limits,
          NewLimit, Alpha, Parts, SampleTicks,
          Choices, Statuses, PostBrew, ResultShown

VARIABLES live,
          capture,
          sensor, sensorTask, readings, fresh,
          bluetooth, load, zero, tare, weighed, scale, brew, shot,
          session, finder, connected, beaten,
          gains, mode, heat, input, setpoint, pid,
          settings, status, timer, calibration, update, splash, pass, panel, past, hidden

Zac == INSTANCE Zacwire WITH Values <- RawValues
Sns == INSTANCE Sensing WITH task <- sensorTask, pending <- readings
Scl == INSTANCE Scale WITH pending <- weighed
Ble == INSTANCE BleSession WITH task <- session
Hea == INSTANCE Heating WITH settings <- gains
Dis == INSTANCE Display WITH task <- pass

ASSUME DeviceConstants ==
  /\ Zac!FrameConstants /\ Sns!SensingConstants /\ Scl!ScaleConstants /\ Ble!SessionConstants
  /\ Hea!HeatingConstants /\ Dis!DisplayConstants

heatingVars == <<gains, mode, heat, input, setpoint, pid>>
displayVars == <<settings, status, timer, calibration, update, splash, pass, panel, past, hidden>>
scaleVars == <<bluetooth, load, zero, tare, weighed, scale, brew, shot>>
sensingVars == <<sensor, sensorTask, readings, fresh>>
sessionVars == <<session, finder, connected, beaten>>
deviceVars == <<live, switchVars, capture, sensingVars, scaleVars, sessionVars,
                heatingVars, displayVars>>

DeviceInit ==
  /\ live \in {"switch", "frames", "sensors", "scale", "session", "heating", "display"}
  /\ Init /\ (live # "switch" => switch = New("toggle", "open") /\ ~contact.held)
  /\ Zac!Init
  /\ Sns!Init /\ (live # "sensors" => sensor = "tsic")
  /\ Scl!Init /\ (live # "scale" => ~bluetooth /\ load = 0 /\ scale.factor = 0)
  /\ Ble!Init
  /\ Hea!Init /\ (live # "heating" => /\ ~gains.ponm /\ ~gains.bd
                                       /\ gains.regular = (CHOOSE g \in Regular : TRUE)
                                       /\ gains.limit = (CHOOSE l \in Limits : TRUE)
                                       /\ input = (CHOOSE t \in Temps : TRUE))
  /\ Dis!Init /\ (live # "display" => past.whole)

Idle(part, partVars) == IF live = part THEN TRUE ELSE UNCHANGED partVars
DeviceNext ==
  /\ UNCHANGED live
  /\ \/ live = "switch" /\ Next
     \/ live = "frames" /\ Zac!Next
     \/ live = "sensors" /\ Sns!Next
     \/ live = "scale" /\ Scl!Next
     \/ live = "session" /\ Ble!Next
     \/ live = "heating" /\ Hea!Next
     \/ live = "display" /\ Dis!Next
  /\ Idle("switch", switchVars) /\ Idle("frames", capture) /\ Idle("sensors", sensingVars)
  /\ Idle("scale", scaleVars) /\ Idle("session", sessionVars)
  /\ Idle("heating", heatingVars) /\ Idle("display", displayVars)

(* The fairness of the parts, for the one that is live. *)
ScaleFairness ==
  /\ WF_scaleVars(live = "scale" /\ Scl!Clock)
  /\ WF_scaleVars(live = "scale" /\ Scl!FairTick)
SessionFairness ==
  /\ WF_sessionVars(live = "session" /\ Ble!Clock)
  /\ WF_sessionVars(live = "session" /\ Ble!Deadline)
  /\ WF_sessionVars(live = "session" /\ Ble!Found)

HeatingFairness == WF_heatingVars(live = "heating" /\ Hea!Tick)

DeviceSpec == /\ DeviceInit /\ [][DeviceNext]_deviceVars
              /\ ScaleFairness /\ SessionFairness /\ HeatingFairness

-----------------------------------------------------------------------------
(* The promises of the parts; each is stated and explained in its module.  *)

(* A frame gives the value that was sent, or, disturbed, an error.         *)
FramesDecode == Zac!WholeFramesDecode /\ Zac!OneFaultIsSeen

(* What the control loop takes is right, and not from before an outage.    *)
ReadingsTrue == /\ Sns!TypeOK /\ Sns!LoneSpikeDropped /\ Sns!OutageShown
                /\ Sns!OldReadingsForgotten /\ Sns!TakenOnce

(* No shot is stopped early by its weight, no calibration uses another     *)
(* tare than its own.                                                      *)
WeightTells == Scl!TypeOK /\ Scl!NoEarlyStop /\ Scl!OwnTare

(* A Bluetooth scale is kept alive, and can be found again.                *)
SessionKept == Ble!TypeOK /\ Ble!HeartbeatKept /\ Ble!CanBeFound

(* A boiler that is much too hot gets no heat from the next sample.        *)
HeatEnds == []Hea!TypeOK /\ Hea!TooHotIsOff

(* What the hardware waits for comes, or is given up: the weight of a      *)
(* shot, a calibration, a silent scale, an overheated boiler; the modules  *)
(* name the cases in which the code does wait for ever.                    *)
WaitsEnd == Scl!WeightCounts /\ Scl!CalibrationEnds /\ Ble!SilentEnds /\ Hea!OverheatEnds

(* The panel shows what was rendered, and an alarm that lasts.             *)
PanelTrue == Dis!TypeOK /\ Dis!PanelTells /\ Dis!AlarmShown

(* Documented, and not so; see Heating.                                    *)
PonmOnlyRangeLimited == Hea!PonmOnlyRangeLimited
=============================================================================

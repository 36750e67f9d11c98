------------------------------- MODULE Display ------------------------------
(***************************************************************************)
(* The display: which screen the machine's status gets (crates/display),   *)
(* and the task that brings it to the panel (firmware/src/display.rs) over *)
(* a bus that may fail in the middle of anything (crates/oled).            *)
(*                                                                         *)
(* A frame is taken for the screen it shows.  The machine's status, a      *)
(* calibration of the scale and an update come as they please; how long    *)
(* they last is in passes of the task.                                     *)
(***************************************************************************)
EXTENDS Integers, States

CONSTANTS Choices,       \* settings a user may have
          Statuses,      \* what the machine may report
          PostBrew,      \* display.post_brew_timer_duration
          ResultShown    \* how long the result of a calibration is shown

VARIABLES settings,   \* the template, and which screens it may use
          status,     \* Status: state, hot_water_ms > 0, setpoint far away,
                      \* display_off
          timer,      \* BrewTimer
          calibration, update, splash,
          task,       \* panel_on, shown
          panel,      \* the controller: on or asleep, its memory
          past,       \* of the last pass: had no operation failed, was the last
                      \* initialisation whole, what was rendered
          hidden      \* how long an alarm has lasted without its screen, and
                      \* nothing else happened

displayVars == <<settings, status, timer, calibration, update, splash, task, panel, past,
                 hidden>>

Templates == {"standard", "minimal", "temperature", "scale", "upright", "modern"}
Settings == [template : Templates, fullBrew : BOOLEAN, fullFlush : BOOLEAN,
             fullHotWater : BOOLEAN, heatingLogo : BOOLEAN, offLogo : BOOLEAN]
Status == [state : State, hotWater : BOOLEAN, cold : BOOLEAN, off : BOOLEAN]

DisplayConstants ==
  /\ Choices \subseteq Settings /\ Statuses \subseteq Status
  /\ PostBrew \in Nat /\ ResultShown \in Nat \ {0}

Alarms == {"WaterTankEmpty", "EmergencyStop", "SensorError"}
Screens == {"banner", "update", "brew", "ManualFlush", "hot_water", "calibration", "heating",
            "PidDisabled", "Standby", "Steam", "backflush", "main"} \cup Alarms
Blank == "blank"
HiddenMax == IF PostBrew >= ResultShown THEN PostBrew + 1 ELSE ResultShown
Torn == "torn"

TypeOK ==
  /\ settings \in Settings /\ status \in Status
  /\ timer \in [phase : {"Idle", "Running", "PostBrew"}, age : 0 .. PostBrew]
  /\ calibration \in [phase : {"Idle", "Taring", "Placing", "Told"}, age : 0 .. ResultShown]
  /\ update \in {"none", "running", "complete"} /\ splash \in BOOLEAN
  /\ task \in [panelOn : BOOLEAN, shown : Screens \cup {Blank, Torn}]
  /\ panel \in [on : BOOLEAN, memory : Screens \cup {Blank, Torn}]
  /\ past \in [ok : BOOLEAN, whole : BOOLEAN, rendered : Screens \cup {Blank}]
  /\ hidden \in 0 .. (HiddenMax + 1)

-----------------------------------------------------------------------------
(* Screens::draw: the first of these that applies. *)

HasHeatingLogo == settings.template \notin {"minimal", "temperature", "modern"}
FullscreenBrew == settings.template # "modern" /\ settings.fullBrew /\ timer.phase # "Idle"
FullscreenFlush == settings.fullFlush /\ status.state = "ManualFlush"
FullscreenHotWater ==
  settings.fullHotWater /\ status.hotWater /\ status.state \in {"PidNormal", "Steam"}

(* A mutant: the result stays until the next calibration. *)
CalibrationShownEver == calibration.phase # "Idle"
(* A result is shown for a while. *)
CalibrationShown ==
  /\ calibration.phase # "Idle"
  /\ calibration.phase = "Told" => calibration.age < ResultShown

HeatingLogoDue == settings.heatingLogo /\ status.state = "PidNormal" /\ status.cold

SystemScreen ==
  CASE HasHeatingLogo /\ HeatingLogoDue -> "heating"
    [] status.state \in {"PidDisabled", "Standby"} /\ settings.offLogo -> status.state
    [] status.state \in {"Steam"} \cup Alarms -> status.state
    [] status.state \in Backflush -> "backflush"
    [] OTHER -> "main"

Screen ==
  IF splash THEN "banner"
  ELSE IF update # "none" THEN "update"
  ELSE IF FullscreenBrew THEN "brew"
  ELSE IF FullscreenFlush THEN "ManualFlush"
  ELSE IF FullscreenHotWater THEN "hot_water"
  ELSE IF CalibrationShown THEN "calibration"
  ELSE SystemScreen

(* render: a dark panel gets no frame. *)
Render == IF status.off THEN Blank ELSE Screen

-----------------------------------------------------------------------------
(* Oled: each operation is a list of writes, any of which may be the first *)
(* to fail.  The outcomes of an operation on p.                            *)
Done(p) == [ok |-> TRUE, panel |-> p]
Failed(p) == [ok |-> FALSE, panel |-> p]

SetOn(p, on) == {Done([p EXCEPT !.on = on]), Failed(p)}
Flush(p, frame) ==
  {Done([p EXCEPT !.memory = frame]), Failed(p), Failed([p EXCEPT !.memory = Torn])}
Asleep(p) == [p EXCEPT !.on = FALSE]
Initialise(p) ==
  {Done([on |-> TRUE, memory |-> Blank]), Failed(p), Failed(Asleep(p)),
   Failed([on |-> FALSE, memory |-> Torn]), Failed([on |-> FALSE, memory |-> Blank])}

(* What a user sees. *)
Visible == IF panel.on THEN panel.memory ELSE Blank

-----------------------------------------------------------------------------
(* A mutant: what was shown is still taken for shown. *)
AfterErrorKept(t) == t
(* An error makes the next pass send its frame. *)
AfterError(t) == [t EXCEPT !.shown = Torn]

(* A pass of the task: render, switch the panel, send a frame that differs *)
(* from the last; any error initialises the panel again.                   *)
Switches(p) == IF status.off = task.panelOn THEN SetOn(p, ~status.off) ELSE {Done(p)}
Sends(p, frame) == IF ~status.off /\ frame # task.shown THEN Flush(p, frame) ELSE {Done(p)}

Pass ==
  LET switched == [task EXCEPT !.panelOn = ~status.off]
  IN  /\ \E a \in Switches(panel) :
           \E b \in IF a.ok THEN Sends(a.panel, Render) ELSE {a} :
             IF b.ok
             THEN /\ panel' = b.panel
                  /\ task' = IF status.off THEN switched ELSE [switched EXCEPT !.shown = Render]
                  /\ past' = [past EXCEPT !.ok = TRUE, !.rendered = Render]
             ELSE \E c \in Initialise(b.panel) :
                    /\ panel' = c.panel
                    /\ task' = AfterError(switched)
                    /\ past' = [ok |-> FALSE, whole |-> c.ok, rendered |-> Render]
      /\ UNCHANGED <<settings, status, timer, calibration, update, splash, hidden>>

-----------------------------------------------------------------------------
(* The machine between two passes.  BrewTimer::update runs in every tick,  *)
(* with the state's is_brew_active.                                        *)
TimerFollows(state) ==
  CASE state \in BrewActive -> [phase |-> "Running", age |-> 0]
    [] state \notin BrewActive /\ timer.phase = "Running" -> [phase |-> "PostBrew", age |-> 0]
    [] OTHER -> timer

StatusChanges ==
  /\ status' \in Statuses
  /\ timer' = TimerFollows(status'.state)
  /\ hidden' = 0
  /\ UNCHANGED <<settings, calibration, update, splash, task, panel, past>>

(* See module Scale; any phase may end in the result. *)
NextPhase(phase) == CASE phase \in {"Idle", "Told"} -> "Taring"
                      [] phase = "Taring" -> "Placing"
                      [] phase = "Placing" -> "Told"
CalibrationChanges ==
  /\ calibration' = [phase |-> NextPhase(calibration.phase), age |-> 0]
  /\ hidden' = 0
  /\ UNCHANGED <<settings, status, timer, update, splash, task, panel, past>>

(* "complete" stays until the restart. *)
UpdateChanges ==
  /\ \/ update = "none" /\ update' = "running"
     \/ update = "running" /\ update' \in {"none", "complete"}
  /\ hidden' = 0
  /\ UNCHANGED <<settings, status, timer, calibration, splash, task, panel, past>>

TimerAges == CASE timer.phase # "PostBrew" -> timer
               [] timer.age < PostBrew -> [timer EXCEPT !.age = @ + 1]
               [] OTHER -> [phase |-> "Idle", age |-> 0]
ResultAges == IF calibration.phase = "Told" /\ calibration.age < ResultShown
              THEN [calibration EXCEPT !.age = @ + 1] ELSE calibration
Lasting == status.state \in Alarms /\ ~status.off /\ update = "none"
Calibrating == calibration.phase \in {"Taring", "Placing"}
Clock ==
  /\ splash' = FALSE
  /\ timer' = TimerAges
  /\ calibration' = ResultAges
  /\ hidden' = IF Lasting /\ Screen # status.state /\ ~Calibrating
               THEN IF hidden <= HiddenMax THEN hidden + 1 ELSE hidden
               ELSE 0
  /\ UNCHANGED <<settings, status, update, task, panel, past>>

Init ==
  /\ settings \in Choices
  /\ status \in {s \in Statuses : s.state = "Init"}
  /\ timer = [phase |-> "Idle", age |-> 0]
  /\ calibration = [phase |-> "Idle", age |-> 0]
  /\ update = "none" /\ splash = TRUE /\ hidden = 0
  /\ task = [panelOn |-> TRUE, shown |-> Blank]
  /\ \E c \in Initialise([on |-> FALSE, memory |-> Torn]) :
       /\ panel = c.panel
       /\ past = [ok |-> FALSE, whole |-> c.ok, rendered |-> Blank]

Next == Pass \/ StatusChanges \/ CalibrationChanges \/ UpdateChanges \/ Clock

Spec == Init /\ [][Next]_displayVars

-----------------------------------------------------------------------------
(* After a pass without an error the panel shows what was rendered, as     *)
(* long as its last initialisation went through; what is sent is spared    *)
(* only if it is there already.                                            *)
PanelTells == past.ok /\ past.whole => Visible = past.rendered

(* An alarm that lasts has its screen soon: the brew timer and the result  *)
(* of a calibration give way.  Only an update and a calibration that runs  *)
(* hide it for longer, or a panel that is dark.                            *)
AlarmShown == hidden <= HiddenMax
=============================================================================

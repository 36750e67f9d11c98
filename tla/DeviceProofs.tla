----------------------------- MODULE DeviceProofs ----------------------------
(***************************************************************************)
(* Proofs about the parts of the machine's hardware, for any times, any    *)
(* bounce, any raw values of the sensor and any settings of the display.   *)
(***************************************************************************)
EXTENDS Device, FiniteSetTheorems, SequenceTheorems, TLAPS

(* Each part takes steps of its own, or stays as it is. *)
LEMMA PartsStart == DeviceInit => Init /\ Sns!Init /\ Ble!Init /\ Hea!Init /\ Dis!Init
PROOF
<1> QED BY DEF DeviceInit

LEMMA PartsStep ==
  [DeviceNext]_deviceVars =>
    /\ [Next]_switchVars /\ [Sns!Next]_sensingVars /\ [Ble!Next]_sessionVars
    /\ [Hea!Next]_heatingVars /\ [Dis!Next]_displayVars
PROOF
<1> SUFFICES ASSUME [DeviceNext]_deviceVars
             PROVE  /\ [Next]_switchVars /\ [Sns!Next]_sensingVars /\ [Ble!Next]_sessionVars
                    /\ [Hea!Next]_heatingVars /\ [Dis!Next]_displayVars
  OBVIOUS
<1>1. CASE UNCHANGED deviceVars
  BY <1>1 DEF deviceVars
<1>2. CASE DeviceNext
  <2>1. /\ live = "switch" \/ UNCHANGED switchVars
        /\ live = "sensors" \/ UNCHANGED sensingVars
        /\ live = "session" \/ UNCHANGED sessionVars
        /\ live = "heating" \/ UNCHANGED heatingVars
        /\ live = "display" \/ UNCHANGED displayVars
    BY <1>2 DEF DeviceNext, Idle
  <2>2. \/ live = "switch" /\ Next
        \/ live = "sensors" /\ Sns!Next
        \/ live = "session" /\ Ble!Next
        \/ live = "heating" /\ Hea!Next
        \/ live = "display" /\ Dis!Next
        \/ live \in {"frames", "scale"}
    BY <1>2 DEF DeviceNext
  <2> QED BY <2>1, <2>2
<1> QED BY <1>1, <1>2

-----------------------------------------------------------------------------
(* The debounced switch. *)

(* What a sample makes of the switch, without the record around it. *)
LEMMA Updated ==
  ASSUME TypeOK, NEW dt \in 1 .. MaxGap, NEW raw \in BOOLEAN
  PROVE  LET new == Update(raw, dt)
         IN  /\ new.kind = switch.kind /\ new.mode = switch.mode
             /\ new.lastRaw = raw
             /\ new.rawAge \in 0 .. Debounce + 1
             /\ new.rawAge = IF raw # switch.lastRaw THEN 0
                             ELSE Capped(switch.rawAge + dt, Debounce + 1)
             /\ new.pressed = IF new.rawAge > Debounce THEN Active(raw) ELSE switch.pressed
             /\ new.settled = (switch.settled \/ new.rawAge > Debounce)
             /\ new.pressedAge = IF new.pressed /\ switch.pressed
                                 THEN Capped(switch.pressedAge + dt, LongPress) ELSE 0
             /\ new.pressed \in BOOLEAN /\ new.settled \in BOOLEAN
             /\ new.pressedAge \in 0 .. LongPress
             /\ new \in [kind : {"momentary", "toggle"}, mode : {"open", "closed"},
                         lastRaw : BOOLEAN, rawAge : 0 .. Debounce + 1,
                         pressed : BOOLEAN, pressedAge : 0 .. LongPress, settled : BOOLEAN]
PROOF
<1> DEFINE new == Update(raw, dt)
           age == IF raw # switch.lastRaw THEN 0 ELSE Capped(switch.rawAge + dt, Debounce + 1)
           pressed == IF age > Debounce THEN Active(raw) ELSE switch.pressed
<1>1. age \in 0 .. Debounce + 1
  BY SwitchConstants DEF TypeOK, Capped
<1>2. pressed \in BOOLEAN
  BY DEF TypeOK, Active
<1>3. Capped(switch.pressedAge + dt, LongPress) \in 0 .. LongPress
  BY SwitchConstants DEF TypeOK, Capped
<1>4. /\ new.kind = switch.kind /\ new.mode = switch.mode
      /\ new.lastRaw = raw /\ new.rawAge = age /\ new.pressed = pressed
      /\ new.settled = (switch.settled \/ age > Debounce)
      /\ new.pressedAge = IF pressed /\ switch.pressed
                          THEN Capped(switch.pressedAge + dt, LongPress) ELSE 0
  BY DEF TypeOK, Update
<1>5. new \in [kind : {"momentary", "toggle"}, mode : {"open", "closed"},
               lastRaw : BOOLEAN, rawAge : 0 .. Debounce + 1,
               pressed : BOOLEAN, pressedAge : 0 .. LongPress, settled : BOOLEAN]
  <2> DEFINE settled == switch.settled \/ age > Debounce
             pressedAge == IF pressed /\ switch.pressed
                           THEN Capped(switch.pressedAge + dt, LongPress) ELSE 0
  <2>1. new = [switch EXCEPT !.lastRaw = raw, !.rawAge = age, !.pressed = pressed,
                             !.settled = settled, !.pressedAge = pressedAge]
    BY DEF TypeOK, Update
  <2>2. settled \in BOOLEAN /\ pressedAge \in 0 .. LongPress
    BY <1>3, SwitchConstants
  <2> HIDE DEF settled, pressedAge, age, pressed, new
  <2> QED BY <1>1, <1>2, <2>1, <2>2 DEF TypeOK
<1> QED BY <1>1, <1>2, <1>3, <1>4, <1>5

-----------------------------------------------------------------------------
LEMMA SwitchStarts == Init => SwitchInv
PROOF
<1> SUFFICES ASSUME Init PROVE SwitchInv
  OBVIOUS
<1>1. PICK kind \in {"momentary", "toggle"}, resting \in {"open", "closed"} : switch = New(kind, resting)
  BY DEF Init
<1>2. PICK held \in BOOLEAN :
        contact = [held |-> held, age |-> Late + 1, been |-> {held}, busy |-> 0]
  BY DEF Init
<1>3. Late \in Nat
  BY SwitchConstants DEF Late
<1>4. switch \in [kind : {"momentary", "toggle"}, mode : {"open", "closed"},
                  lastRaw : BOOLEAN, rawAge : 0 .. Debounce + 1,
                  pressed : BOOLEAN, pressedAge : 0 .. LongPress, settled : BOOLEAN]
  BY <1>1, SwitchConstants DEF New
<1>5. contact \in [held : BOOLEAN, age : Ages, been : SUBSET BOOLEAN, busy : 0 .. LongPress]
  BY <1>2, <1>3, SwitchConstants DEF Ages
<1>6. Active(switch.lastRaw) = FALSE /\ switch.pressed = FALSE /\ switch.settled = FALSE
  BY <1>1 DEF New, Active
<1>7. switch.rawAge = 0
  BY <1>1 DEF New
<1> QED
  BY <1>2, <1>4, <1>5, <1>6, <1>7, SwitchConstants
  DEF SwitchInv, TypeOK, Bouncing, Resting, Reported, Held

LEMMA MoveKeeps ==
  ASSUME SwitchInv, NEW after \in 0 .. MaxGap, Move(after)
  PROVE  SwitchInv'
PROOF
<1>1. /\ contact'.held = ~contact.held /\ contact'.age = -after /\ contact'.been = BOOLEAN
      /\ contact'.busy = contact.busy /\ switch' = switch
  BY DEF Move, SwitchInv, TypeOK
<1>2. TypeOK'
  <2>1. -after \in Ages
    BY SwitchConstants DEF Ages, Late
  <2> QED BY <2>1 DEF Move, SwitchInv, TypeOK
<1>3. Active(switch.lastRaw) \in BOOLEAN
  BY DEF Active
<1> QED
  BY <1>1, <1>2, <1>3, SwitchConstants
  DEF SwitchInv, TypeOK, Bouncing, Resting, Reported, Held, Active

(* A sample: what it makes of switch and contact, in small steps. *)
LEMMA SampleKeeps ==
  ASSUME SwitchInv, NEW dt \in 1 .. MaxGap, NEW raw \in BOOLEAN, Sample(dt, raw)
  PROVE  SwitchInv'
PROOF
<1> DEFINE age == Capped(contact.age + dt, Late + 1)
           busy == IF ~contact.held /\ age > Late THEN 0 ELSE Capped(contact.busy + dt, LongPress)
<1> USE DEF SwitchInv, TypeOK
<1>a. Late \in Nat /\ Debounce \in Nat /\ LongPress \in Nat /\ Bounce \in Nat /\ MaxGap \in Nat
  BY SwitchConstants DEF Late
<1>b. Bounce <= Debounce /\ Late = Bounce + MaxGap + Debounce
  BY SwitchConstants DEF Late
<1>1. age \in Ages /\ busy \in 0 .. LongPress
  BY <1>a, <1>b DEF Capped, Ages
<1>2. /\ age >= 0 /\ (age > Bounce => Active(raw) = contact.held)
      /\ switch' = Update(raw, dt)
      /\ contact'.held = contact.held /\ contact'.age = age /\ contact'.busy = busy
      /\ contact'.been = IF switch'.pressed # switch.pressed THEN {contact.held} ELSE contact.been
      /\ contact' \in [held : BOOLEAN, age : Ages, been : SUBSET BOOLEAN, busy : 0 .. LongPress]
  BY <1>1 DEF Sample
<1>3. /\ switch'.kind = switch.kind /\ switch'.mode = switch.mode
      /\ switch'.lastRaw = raw
      /\ switch'.rawAge \in 0 .. Debounce + 1
      /\ switch'.rawAge = IF raw # switch.lastRaw THEN 0
                          ELSE Capped(switch.rawAge + dt, Debounce + 1)
      /\ switch'.pressed = IF switch'.rawAge > Debounce THEN Active(raw) ELSE switch.pressed
      /\ switch'.settled = (switch.settled \/ switch'.rawAge > Debounce)
      /\ switch'.pressedAge = IF switch'.pressed /\ switch.pressed
                              THEN Capped(switch.pressedAge + dt, LongPress) ELSE 0
  BY <1>2, Updated
<1>4. TypeOK'
  BY <1>2, Updated
<1>5. Active(switch.lastRaw)' = Active(raw) /\ Active(raw) \in BOOLEAN
  BY <1>3 DEF Active
<1>6. contact.age \in Int /\ switch.rawAge \in Nat /\ switch'.rawAge \in Nat /\ dt \in Nat
  BY <1>a, <1>3 DEF Ages
<1>7. raw # switch.lastRaw => Active(raw) # Active(switch.lastRaw)
  BY DEF Active
<1>8. raw = switch.lastRaw => Active(raw) = Active(switch.lastRaw)
  OBVIOUS
<1>9. contact'.held \in contact'.been
  BY <1>2
<1>10. Reported'
  <2>1. CASE switch'.rawAge > Debounce
    BY <2>1, <1>3, <1>5 DEF Reported
  <2>2. CASE ~(switch'.rawAge > Debounce)
    BY <2>2 DEF Reported
  <2> QED BY <2>1, <2>2
<1>11. Bouncing'
  <2> SUFFICES ASSUME Active(raw) # switch'.pressed, Active(raw) \notin contact'.been
               PROVE  age <= Bounce /\ switch'.rawAge <= age
    BY <1>2, <1>5 DEF Bouncing
  <2>1. switch'.rawAge <= Debounce /\ switch'.pressed = switch.pressed
    BY <1>3, <1>6, <1>a
  <2>2. contact'.been = contact.been /\ Active(raw) # contact.held
    BY <2>1, <1>2
  <2>3. age <= Bounce
    BY <2>2, <1>2, <1>1, <1>a DEF Ages
  <2>4. CASE raw # switch.lastRaw
    BY <2>4, <2>3, <1>2, <1>3
  <2>5. CASE raw = switch.lastRaw
    <3>1. switch.rawAge <= contact.age
      BY <2>5, <2>1, <2>2, <1>8 DEF Bouncing
    <3> QED BY <3>1, <2>3, <2>5, <1>2, <1>3, <1>6, <1>a, <1>b DEF Capped
  <2> QED BY <2>3, <2>4, <2>5
<1>12. Resting'
  <2> SUFFICES ASSUME age > Bounce, switch'.settled
               PROVE  /\ Active(raw) = contact.held
                      /\ \/ switch'.rawAge > Debounce
                         \/ switch'.rawAge >= age - Bounce - MaxGap
    BY <1>2, <1>5 DEF Resting
  <2>1. Active(raw) = contact.held
    BY <1>2
  <2>2. CASE switch'.rawAge > Debounce
    BY <2>1, <2>2
  <2>3. CASE ~(switch'.rawAge > Debounce)
    <3>1. switch.settled
      BY <2>3, <1>3
    <3>2. CASE contact.age > Bounce
      <4>1. Active(switch.lastRaw) = contact.held
        BY <3>1, <3>2 DEF Resting
      <4>2. raw = switch.lastRaw
        BY <4>1, <2>1, <1>7
      <4>3. switch'.rawAge = switch.rawAge + dt
        BY <4>2, <2>3, <1>3, <1>6, <1>a DEF Capped
      <4>4. switch.rawAge >= contact.age - Bounce - MaxGap
        BY <3>1, <3>2, <4>3, <2>3, <1>6, <1>a DEF Resting
      <4>5. age <= contact.age + dt /\ age \in Int
        BY <1>6, <1>a, <1>b DEF Capped
      <4> HIDE DEF age
      <4>6. switch'.rawAge >= age - Bounce - MaxGap
        BY <4>3, <4>4, <4>5, <1>6, <1>a
      <4> QED BY <4>6, <2>1
    <3>3. CASE ~(contact.age > Bounce)
      <4>1. age - Bounce - MaxGap <= 0
        BY <3>3, <1>6, <1>a, <1>b DEF Capped
      <4>2. age \in Int
        BY <1>6, <1>a DEF Capped
      <4> HIDE DEF age
      <4>3. switch'.rawAge >= age - Bounce - MaxGap
        BY <4>1, <4>2, <1>6, <1>a
      <4> QED BY <4>3, <2>1
    <3> QED BY <3>2, <3>3
  <2> QED BY <2>2, <2>3
<1>13. Held'
  <2> SUFFICES ASSUME switch'.pressed
               PROVE  switch'.settled /\ switch'.pressedAge <= busy
    BY <1>2 DEF Held
  <2>1. switch'.settled
    BY <1>3 DEF Held
  <2>2. CASE ~switch.pressed
    <3>1. switch'.pressedAge = 0
      BY <2>2, <1>3
    <3> QED BY <2>1, <3>1, <1>1, <1>a
  <2>3. CASE switch.pressed
    <3>1. switch'.pressedAge = Capped(switch.pressedAge + dt, LongPress)
      BY <2>3, <1>3
    <3>2. switch.pressedAge <= contact.busy
      BY <2>3 DEF Held
    <3>3. CASE ~contact.held /\ age > Late
      (* The contact has rested: the switch has been told by now. *)
      <4>1. FALSE
        <5>1. Active(raw) = FALSE
          BY <3>3, <1>2, <1>5, <1>1, <1>a, <1>b DEF Ages
        <5>2. switch'.rawAge <= Debounce
          BY <5>1, <1>3, <1>6, <1>a
        <5>3. age - Bounce - MaxGap > Debounce
          BY <3>3, <1>1, <1>a, <1>b DEF Ages
        <5>4. age > Bounce
          BY <3>3, <1>1, <1>a, <1>b DEF Ages
        <5>5. switch'.rawAge >= age - Bounce - MaxGap
          BY <1>12, <2>1, <5>2, <5>4, <1>2, <1>6, <1>a DEF Resting
        <5> QED BY <5>2, <5>3, <5>5, <1>6, <1>1, <1>a DEF Ages
      <4> QED BY <4>1
    <3>4. CASE ~(~contact.held /\ age > Late)
      <4>1. busy = Capped(contact.busy + dt, LongPress)
        BY <3>4
      <4>2. switch.pressedAge \in Nat /\ contact.busy \in Nat
        BY <1>a
      <4>3. switch'.pressedAge <= busy
        BY <3>1, <3>2, <4>1, <4>2, <1>6, <1>a DEF Capped
      <4> QED BY <2>1, <4>3
    <3> QED BY <3>3, <3>4
  <2> QED BY <2>1, <2>2, <2>3
<1> QED BY <1>4, <1>9, <1>10, <1>11, <1>12, <1>13

LEMMA SwitchSteps == SwitchInv /\ [Next]_switchVars => SwitchInv'
PROOF
<1> SUFFICES ASSUME SwitchInv, [Next]_switchVars PROVE SwitchInv'
  OBVIOUS
<1>1. CASE \E after \in 0 .. MaxGap : Move(after)
  BY <1>1, MoveKeeps
<1>2. CASE \E dt \in 1 .. MaxGap, raw \in BOOLEAN : Sample(dt, raw)
  BY <1>2, SampleKeeps
<1>3. CASE UNCHANGED switchVars
  BY <1>3 DEF switchVars, SwitchInv, TypeOK, Bouncing, Resting, Reported, Held, Active
<1> QED BY <1>1, <1>2, <1>3 DEF Next

(* The switch's record and what it knows of the contact stay consistent,   *)
(* however the contact bounces between the samples (Switch::update).       *)
THEOREM SwitchInductive == DeviceSpec => []SwitchInv
PROOF
<1>1. DeviceInit => SwitchInv
  BY PartsStart, SwitchStarts
<1>2. SwitchInv /\ [DeviceNext]_deviceVars => SwitchInv'
  BY PartsStep, SwitchSteps
<1> QED BY <1>1, <1>2, PTL DEF DeviceSpec

-----------------------------------------------------------------------------
LEMMA SwitchFollows == SwitchInv => FollowsContact /\ LongIsHeld
PROOF
<1> SUFFICES ASSUME SwitchInv PROVE FollowsContact /\ LongIsHeld
  OBVIOUS
<1> USE DEF SwitchInv, TypeOK
<1>a. /\ Debounce \in Nat /\ LongPress \in Nat /\ Bounce \in Nat /\ MaxGap \in Nat
      /\ Late = Bounce + MaxGap + Debounce
      /\ contact.age \in Int /\ switch.rawAge \in Nat
  BY SwitchConstants DEF Late, Ages
<1>1. FollowsContact
  <2> SUFFICES ASSUME contact.age > Late, switch.settled PROVE switch.pressed = contact.held
    BY DEF FollowsContact
  <2>1. contact.age > Bounce
    BY <1>a
  <2>2. Active(switch.lastRaw) = contact.held
    BY <2>1 DEF Resting
  <2>3. switch.rawAge > Debounce \/ switch.rawAge >= contact.age - Bounce - MaxGap
    BY <2>1 DEF Resting
  <2>4. switch.rawAge > Debounce
    BY <2>3, <1>a
  <2> QED BY <2>2, <2>4 DEF Reported
<1>2. LongIsHeld
  BY <1>a DEF LongIsHeld, IsLongPress, Held
<1> QED BY <1>1, <1>2

(* An edge that a sample reports is a level the contact has had. *)
LEMMA StepIsMove ==
  SwitchInv /\ [Next]_switchVars => [switch'.pressed # switch.pressed => switch'.pressed \in contact.been]_switchVars
PROOF
<1> SUFFICES ASSUME SwitchInv, Next, switch'.pressed # switch.pressed
             PROVE  switch'.pressed \in contact.been
  BY DEF switchVars
<1>1. PICK dt \in 1 .. MaxGap, raw \in BOOLEAN : Sample(dt, raw)
  BY DEF Next, Move
<1> USE DEF SwitchInv, TypeOK
<1>2. switch' = Update(raw, dt)
  BY <1>1 DEF Sample
<1>3. /\ switch'.rawAge \in 0 .. Debounce + 1
      /\ switch'.rawAge = IF raw # switch.lastRaw THEN 0
                          ELSE Capped(switch.rawAge + dt, Debounce + 1)
      /\ switch'.pressed = IF switch'.rawAge > Debounce THEN Active(raw) ELSE switch.pressed
  BY <1>2, Updated
<1>4. switch'.rawAge > Debounce /\ switch'.pressed = Active(raw)
  BY <1>3
<1>5. raw = switch.lastRaw
  BY <1>3, <1>4, SwitchConstants
<1> SUFFICES ASSUME Active(raw) \notin contact.been PROVE FALSE
  BY <1>4
<1>6. contact.age <= Bounce /\ switch.rawAge <= contact.age
  BY <1>4, <1>5 DEF Bouncing
<1>a. /\ Debounce \in Nat /\ Bounce \in Nat /\ MaxGap \in Nat /\ Bounce <= Debounce
      /\ Late = Bounce + MaxGap + Debounce
      /\ contact.age \in Int /\ switch.rawAge \in Nat /\ dt \in Nat /\ dt >= 1
  BY SwitchConstants DEF Late, Ages
<1>7. Capped(contact.age + dt, Late + 1) <= Bounce
  BY <1>1, <1>a DEF Sample, Capped
<1>8. contact.age + dt <= Bounce
  BY <1>7, <1>a DEF Capped
<1>9. switch'.rawAge = switch.rawAge + dt
  BY <1>3, <1>5, <1>6, <1>8, <1>a DEF Capped
<1> QED BY <1>4, <1>6, <1>8, <1>9, <1>a

(* What the machine is told of a switch is true and told in time, for      *)
(* every debounce period and every bounce that is not longer.              *)
THEOREM SwitchAlwaysTells == DeviceSpec => SwitchTells
PROOF
<1>1. DeviceSpec => [](FollowsContact /\ LongIsHeld)
  BY SwitchInductive, SwitchFollows, PTL
<1>2. SwitchInv /\ [DeviceNext]_deviceVars =>
        [switch'.pressed # switch.pressed => switch'.pressed \in contact.been]_switchVars
  BY PartsStep, StepIsMove
<1>3. DeviceSpec => EdgesAreMoves
  BY <1>2, SwitchInductive, PTL DEF DeviceSpec, EdgesAreMoves
<1> QED BY <1>1, <1>3, PTL DEF SwitchTells

-----------------------------------------------------------------------------
(* The panel.  After an initialisation that went through, the task knows   *)
(* what the panel shows, unless it marks its last frame as torn; and a     *)
(* panel that it switched off is off, or was cleared after an error.       *)
PanelKnown ==
  past.whole = TRUE =>
    /\ pass.panelOn = TRUE => panel.on = TRUE
    /\ pass.panelOn = FALSE => panel.on = FALSE \/ panel.memory = Dis!Blank
    /\ pass.shown # Dis!Torn => pass.shown = panel.memory

Shown == Dis!Screens \cup {Dis!Blank}
PanelTypes ==
  /\ settings \in Dis!Settings /\ status \in Dis!Status
  /\ pass \in [panelOn : BOOLEAN, shown : Shown \cup {Dis!Torn}]
  /\ panel \in [on : BOOLEAN, memory : Shown \cup {Dis!Torn}]
  /\ past \in [ok : BOOLEAN, whole : BOOLEAN, rendered : Shown]

(* What is rendered is a screen, or nothing. *)
LEMMA RenderIsShown ==
  ASSUME status \in Dis!Status
  PROVE  Dis!Render \in Shown /\ Dis!Render # Dis!Torn
         /\ (status.off = TRUE => Dis!Render = Dis!Blank)
PROOF
<1>1. Dis!SystemScreen \in Dis!Screens
  <2>1. CASE Dis!HasHeatingLogo /\ Dis!HeatingLogoDue
    <3>1. status.state = "PidNormal"
      BY <2>1 DEF Dis!HeatingLogoDue
    <3> QED BY <2>1, <3>1 DEF Dis!SystemScreen, Dis!Screens, Dis!Alarms, Dis!Backflush
  <2>2. CASE ~(Dis!HasHeatingLogo /\ Dis!HeatingLogoDue)
    BY <2>2 DEF Dis!SystemScreen, Dis!Screens, Dis!Alarms, Dis!Backflush
  <2> QED BY <2>1, <2>2
<1>2. Dis!Screen \in Dis!Screens
  <2>1. Dis!FullscreenFlush => TRUE
    OBVIOUS
  <2> QED BY <1>1 DEF Dis!Screen, Dis!Screens
<1>3. Shown = Dis!Screens \cup {Dis!Blank} /\ Dis!Torn \notin Shown
  BY DEF Shown, Dis!Screens, Dis!Alarms, Dis!Blank, Dis!Torn
<1>4. Dis!Render = Dis!Blank \/ Dis!Render = Dis!Screen
  BY DEF Dis!Render
<1> QED BY <1>2, <1>3, <1>4 DEF Dis!Render

(* What an operation on the panel leaves, when it succeeds and when not.   *)
Panels == [on : BOOLEAN, memory : Shown \cup {Dis!Torn}]

LEMMA InitialiseGives ==
  ASSUME NEW p \in Panels, NEW c \in Dis!Initialise(p)
  PROVE  /\ c.ok \in BOOLEAN /\ c.panel \in Panels
         /\ c.ok = TRUE => c.panel.on = TRUE /\ c.panel.memory = Dis!Blank
PROOF
<1> USE DEF Dis!Done, Dis!Failed, Dis!Asleep, Panels, Shown
<1>1. CASE c = Dis!Done([on |-> TRUE, memory |-> Dis!Blank])
  BY <1>1
<1>2. CASE c = Dis!Failed(p)
  BY <1>2
<1>3. CASE c = Dis!Failed(Dis!Asleep(p))
  BY <1>3
<1>4. CASE c = Dis!Failed([on |-> FALSE, memory |-> Dis!Torn])
  BY <1>4
<1>5. CASE c = Dis!Failed([on |-> FALSE, memory |-> Dis!Blank])
  BY <1>5
<1> QED BY <1>1, <1>2, <1>3, <1>4, <1>5 DEF Dis!Initialise

LEMMA SetOnGives ==
  ASSUME NEW p \in Panels, NEW on \in BOOLEAN, NEW a \in Dis!SetOn(p, on)
  PROVE  /\ a.ok \in BOOLEAN /\ a.panel \in Panels
         /\ a.ok = TRUE => a.panel.on = on /\ a.panel.memory = p.memory
PROOF
<1>1. CASE a = Dis!Done([p EXCEPT !.on = on])
  BY <1>1 DEF Dis!Done, Panels
<1>2. CASE a = Dis!Failed(p)
  BY <1>2 DEF Dis!Failed
<1> QED BY <1>1, <1>2 DEF Dis!SetOn

LEMMA FlushGives ==
  ASSUME NEW p \in Panels, NEW frame \in Shown, NEW b \in Dis!Flush(p, frame)
  PROVE  /\ b.ok \in BOOLEAN /\ b.panel \in Panels
         /\ b.ok = TRUE => b.panel.on = p.on /\ b.panel.memory = frame
PROOF
<1>1. CASE b = Dis!Done([p EXCEPT !.memory = frame])
  BY <1>1 DEF Dis!Done, Panels
<1>2. CASE b = Dis!Failed(p)
  BY <1>2 DEF Dis!Failed
<1>3. CASE b = Dis!Failed([p EXCEPT !.memory = Dis!Torn])
  BY <1>3 DEF Dis!Failed, Panels
<1> QED BY <1>1, <1>2, <1>3 DEF Dis!Flush

(* A pass that switches the panel and sends its frame, and finds nothing   *)
(* wrong: the panel is as the status has it, and shows the frame.          *)
LEMMA SwitchesGive ==
  ASSUME PanelTypes, NEW a \in Dis!Switches(panel)
  PROVE  /\ a.ok \in BOOLEAN /\ a.panel \in Panels
         /\ a.ok = TRUE => /\ a.panel.memory = panel.memory
                           /\ pass.panelOn # status.off => a.panel.on = panel.on
                           /\ pass.panelOn = status.off => a.panel.on = ~status.off
PROOF
<1>1. status.off \in BOOLEAN /\ pass.panelOn \in BOOLEAN /\ panel \in Panels
  BY DEF PanelTypes, Dis!Status, Panels
<1>2. CASE status.off = pass.panelOn
  <2>1. a \in Dis!SetOn(panel, ~status.off)
    BY <1>2 DEF Dis!Switches
  <2> QED BY <1>1, <1>2, <2>1, SetOnGives
<1>3. CASE status.off # pass.panelOn
  <2>1. a = Dis!Done(panel)
    BY <1>3 DEF Dis!Switches
  <2> QED BY <1>1, <1>3, <2>1 DEF Dis!Done
<1> QED BY <1>2, <1>3

LEMMA SendsGive ==
  ASSUME PanelTypes, NEW p \in Panels, NEW b \in Dis!Sends(p, Dis!Render)
  PROVE  /\ b.ok \in BOOLEAN /\ b.panel \in Panels
         /\ b.ok = TRUE =>
              /\ b.panel.on = p.on
              /\ \/ b.panel = p /\ (status.off = FALSE => Dis!Render = pass.shown)
                 \/ status.off = FALSE /\ b.panel.memory = Dis!Render
PROOF
<1>1. status.off \in BOOLEAN /\ Dis!Render \in Shown
  BY RenderIsShown DEF PanelTypes, Dis!Status
<1>2. CASE status.off = FALSE /\ Dis!Render # pass.shown
  <2>1. b \in Dis!Flush(p, Dis!Render)
    BY <1>2 DEF Dis!Sends
  <2> QED BY <1>1, <1>2, <2>1, FlushGives
<1>3. CASE ~(status.off = FALSE /\ Dis!Render # pass.shown)
  <2>1. b = Dis!Done(p)
    BY <1>1, <1>3 DEF Dis!Sends
  <2> QED BY <1>1, <1>3, <2>1 DEF Dis!Done
<1> QED BY <1>2, <1>3

(* A pass: either everything went well, or an initialisation followed.     *)
LEMMA PassKeeps ==
  ASSUME PanelTypes, PanelKnown, Dis!Pass
  PROVE  PanelTypes' /\ PanelKnown' /\ Dis!PanelTells'
PROOF
<1>1. /\ settings \in Dis!Settings /\ status \in Dis!Status /\ panel \in Panels
      /\ UNCHANGED <<settings, status>>
      /\ Dis!Render \in Shown /\ Dis!Render # Dis!Torn
      /\ status.off = TRUE => Dis!Render = Dis!Blank
  BY RenderIsShown DEF PanelTypes, Dis!Pass, Panels
<1>2. PICK off \in BOOLEAN : off = status.off
  BY <1>1 DEF Dis!Status
<1>3. pass.panelOn \in BOOLEAN /\ pass.shown \in Shown \cup {Dis!Torn}
  BY DEF PanelTypes
<1> DEFINE switched == [pass EXCEPT !.panelOn = ~status.off]
<1>4. /\ switched \in [panelOn : BOOLEAN, shown : Shown \cup {Dis!Torn}]
      /\ switched.panelOn = ~off /\ switched.shown = pass.shown
  BY <1>2 DEF PanelTypes
<1>5. PICK a \in Dis!Switches(panel) :
        \E b \in IF a.ok THEN Dis!Sends(a.panel, Dis!Render) ELSE {a} :
          IF b.ok
          THEN /\ panel' = b.panel
               /\ pass' = IF status.off THEN switched ELSE [switched EXCEPT !.shown = Dis!Render]
               /\ past' = [past EXCEPT !.ok = TRUE, !.rendered = Dis!Render]
          ELSE \E c \in Dis!Initialise(b.panel) :
                 /\ panel' = c.panel
                 /\ pass' = Dis!AfterError(switched)
                 /\ past' = [ok |-> FALSE, whole |-> c.ok, rendered |-> Dis!Render]
  BY DEF Dis!Pass
<1>6. PICK b \in IF a.ok THEN Dis!Sends(a.panel, Dis!Render) ELSE {a} :
          IF b.ok
          THEN /\ panel' = b.panel
               /\ pass' = IF status.off THEN switched ELSE [switched EXCEPT !.shown = Dis!Render]
               /\ past' = [past EXCEPT !.ok = TRUE, !.rendered = Dis!Render]
          ELSE \E c \in Dis!Initialise(b.panel) :
                 /\ panel' = c.panel
                 /\ pass' = Dis!AfterError(switched)
                 /\ past' = [ok |-> FALSE, whole |-> c.ok, rendered |-> Dis!Render]
  BY <1>5
<1>7. /\ a.ok \in BOOLEAN /\ a.panel \in Panels
      /\ a.ok = TRUE => /\ a.panel.memory = panel.memory
                        /\ pass.panelOn # off => a.panel.on = panel.on
                        /\ pass.panelOn = off => a.panel.on = ~off
  BY <1>2, SwitchesGive
<1>8. a.ok = TRUE => b \in Dis!Sends(a.panel, Dis!Render)
  BY <1>6
<1>9. a.ok = FALSE => b = a
  BY <1>6
<1>10. b.ok \in BOOLEAN /\ b.panel \in Panels
  BY <1>7, <1>8, <1>9, SendsGive
<1> HIDE DEF switched
<1>11. CASE b.ok = FALSE
  <2>1. PICK c \in Dis!Initialise(b.panel) :
          /\ panel' = c.panel
          /\ pass' = Dis!AfterError(switched)
          /\ past' = [ok |-> FALSE, whole |-> c.ok, rendered |-> Dis!Render]
    BY <1>6, <1>11
  <2>2. /\ c.ok \in BOOLEAN /\ c.panel \in Panels
        /\ c.ok = TRUE => c.panel.on = TRUE /\ c.panel.memory = Dis!Blank
    BY <1>10, InitialiseGives
  <2>3. /\ pass' \in [panelOn : BOOLEAN, shown : Shown \cup {Dis!Torn}]
        /\ pass'.shown = Dis!Torn
    BY <1>4, <2>1 DEF Dis!AfterError
  <2>4. past' \in [ok : BOOLEAN, whole : BOOLEAN, rendered : Shown] /\ past'.ok = FALSE
    BY <1>1, <2>1, <2>2
  <2>5. PanelTypes'
    BY <1>1, <2>1, <2>2, <2>3, <2>4 DEF PanelTypes, Panels
  <2>6. PanelKnown'
    BY <2>1, <2>2, <2>3 DEF PanelKnown
  <2>7. Dis!PanelTells'
    BY <2>4 DEF Dis!PanelTells
  <2> QED BY <2>5, <2>6, <2>7
<1>12. CASE b.ok = TRUE
  <2>1. /\ panel' = b.panel
        /\ pass' = IF status.off THEN switched ELSE [switched EXCEPT !.shown = Dis!Render]
        /\ past' = [past EXCEPT !.ok = TRUE, !.rendered = Dis!Render]
    BY <1>6, <1>12
  <2>2. a.ok = TRUE
    BY <1>7, <1>9, <1>12
  <2>3. /\ b.panel.on = a.panel.on
        /\ \/ b.panel = a.panel /\ (off = FALSE => Dis!Render = pass.shown)
           \/ off = FALSE /\ b.panel.memory = Dis!Render
    BY <1>2, <1>7, <1>8, <1>12, <2>2, SendsGive
  <2>4. /\ pass' \in [panelOn : BOOLEAN, shown : Shown \cup {Dis!Torn}]
        /\ pass'.panelOn = ~off
        /\ off = TRUE => pass'.shown = pass.shown
        /\ off = FALSE => pass'.shown = Dis!Render
    <3>1. CASE off = TRUE
      BY <1>2, <1>4, <2>1, <3>1
    <3>2. CASE off = FALSE
      BY <1>1, <1>2, <1>4, <2>1, <3>2
    <3> QED BY <3>1, <3>2
  <2>5. /\ past' \in [ok : BOOLEAN, whole : BOOLEAN, rendered : Shown]
        /\ past'.whole = past.whole /\ past'.rendered = Dis!Render
    BY <1>1, <2>1 DEF PanelTypes
  <2>6. PanelTypes'
    BY <1>1, <1>10, <2>1, <2>4, <2>5 DEF PanelTypes, Panels
  <2>7. ASSUME past.whole = TRUE
        PROVE  /\ off = FALSE => panel'.on = TRUE /\ panel'.memory = Dis!Render
               /\ off = TRUE => /\ panel'.on = FALSE \/ panel'.memory = Dis!Blank
                                /\ panel'.memory = panel.memory
    <3>1. /\ pass.panelOn = TRUE => panel.on = TRUE
          /\ pass.panelOn = FALSE => panel.on = FALSE \/ panel.memory = Dis!Blank
          /\ pass.shown # Dis!Torn => pass.shown = panel.memory
      BY <2>7 DEF PanelKnown
    <3>2. CASE off = FALSE
      <4>1. panel'.on = TRUE
        BY <1>3, <1>7, <2>1, <2>2, <2>3, <3>1, <3>2
      <4>2. panel'.memory = Dis!Render
        BY <1>1, <1>7, <2>1, <2>2, <2>3, <3>1, <3>2
      <4> QED BY <3>2, <4>1, <4>2
    <3>3. CASE off = TRUE
      <4>1. panel'.memory = panel.memory
        BY <1>7, <2>1, <2>2, <2>3, <3>3
      <4>2. panel'.on = FALSE \/ panel'.memory = Dis!Blank
        BY <1>3, <1>7, <2>1, <2>2, <2>3, <3>1, <3>3, <4>1
      <4> QED BY <3>3, <4>1, <4>2
    <3> QED BY <3>2, <3>3
  <2>8. PanelKnown'
    BY <2>4, <2>5, <2>7 DEF PanelKnown
  <2>9. Dis!PanelTells'
    BY <1>1, <1>2, <2>5, <2>7 DEF Dis!PanelTells, Dis!Visible
  <2> QED BY <2>6, <2>8, <2>9
<1> QED BY <1>10, <1>11, <1>12

(* What the screens of an alarm give way to, and for how long: until the   *)
(* brew timer has ended, and until the result of a calibration was shown.  *)
TimerEnd == IF timer.phase = "PostBrew" THEN PostBrew + 1 - timer.age ELSE 0
ResultEnd == IF calibration.phase = "Told" THEN ResultShown - calibration.age ELSE 0
AlarmTypes ==
  /\ settings \in Dis!Settings /\ status \in Dis!Status
  /\ timer \in [phase : {"Idle", "Running", "PostBrew"}, age : 0 .. PostBrew]
  /\ calibration \in [phase : {"Idle", "Taring", "Placing", "Told"}, age : 0 .. ResultShown]
  /\ update \in {"none", "running", "complete"} /\ splash \in BOOLEAN
  /\ hidden \in Nat
AlarmInv ==
  /\ AlarmTypes
  /\ timer.phase = "Running" => status.state \in Dis!BrewActive
  /\ splash = TRUE => hidden = 0
  /\ hidden + TimerEnd <= Dis!HiddenMax
  /\ hidden + ResultEnd <= Dis!HiddenMax

LEMMA EndsAre ==
  ASSUME AlarmTypes
  PROVE  /\ PostBrew \in Nat /\ ResultShown \in Nat \ {0} /\ Dis!HiddenMax \in Nat \ {0}
         /\ TimerEnd \in Nat /\ ResultEnd \in Nat
         /\ TimerEnd <= Dis!HiddenMax /\ ResultEnd <= Dis!HiddenMax
PROOF
<1>1. PostBrew \in Nat /\ ResultShown \in Nat \ {0}
  BY DeviceConstants DEF Dis!DisplayConstants
<1>2. /\ Dis!HiddenMax \in Nat \ {0}
      /\ PostBrew + 1 <= Dis!HiddenMax /\ ResultShown <= Dis!HiddenMax
  BY <1>1 DEF Dis!HiddenMax
<1>3. timer.age \in 0 .. PostBrew /\ calibration.age \in 0 .. ResultShown
  BY DEF AlarmTypes
<1>4. TimerEnd \in Nat /\ TimerEnd <= PostBrew + 1
  BY <1>1, <1>3 DEF TimerEnd
<1>5. ResultEnd \in Nat /\ ResultEnd <= ResultShown
  BY <1>1, <1>3 DEF ResultEnd
<1> QED BY <1>1, <1>2, <1>4, <1>5

(* An alarm has its screen, unless one of these hides it. *)
LEMMA AlarmOnScreen ==
  ASSUME AlarmInv, Dis!Lasting, Dis!Screen # status.state, ~Dis!Calibrating
  PROVE  splash = TRUE \/ TimerEnd > 0 \/ ResultEnd > 0
PROOF
<1>1. /\ status.state \in Dis!Alarms /\ status.off \in BOOLEAN /\ update = "none"
      /\ splash \in BOOLEAN
  BY DEF AlarmInv, AlarmTypes, Dis!Lasting, Dis!Status
<1>2. /\ ~Dis!HeatingLogoDue /\ ~Dis!FullscreenFlush /\ ~Dis!FullscreenHotWater
      /\ status.state \notin Dis!BrewActive
  BY <1>1 DEF Dis!Alarms, Dis!HeatingLogoDue, Dis!FullscreenFlush, Dis!FullscreenHotWater,
              Dis!BrewActive
<1>3. Dis!SystemScreen = status.state
  BY <1>1, <1>2 DEF Dis!SystemScreen, Dis!Alarms, Dis!Backflush
<1>4. timer.phase = "Idle" \/ timer.phase = "PostBrew"
  BY <1>2 DEF AlarmInv, AlarmTypes
<1>5. timer.phase = "PostBrew" => TimerEnd > 0
  BY DeviceConstants DEF AlarmInv, AlarmTypes, TimerEnd, Dis!DisplayConstants
<1>6. Dis!CalibrationShown => ResultEnd > 0
  <2>1. calibration.phase \in {"Idle", "Taring", "Placing", "Told"} /\ calibration.age \in 0 .. ResultShown
    BY DEF AlarmInv, AlarmTypes
  <2>2. Dis!CalibrationShown => calibration.phase = "Told" /\ calibration.age < ResultShown
    BY <2>1 DEF Dis!CalibrationShown, Dis!Calibrating
  <2>3. ResultShown \in Nat
    BY DeviceConstants DEF Dis!DisplayConstants
  <2> QED BY <2>1, <2>2, <2>3 DEF ResultEnd
<1>7. CASE splash = FALSE /\ timer.phase = "Idle" /\ ~Dis!CalibrationShown
  <2>1. ~Dis!FullscreenBrew
    BY <1>7 DEF Dis!FullscreenBrew
  <2>2. Dis!Screen = status.state
    BY <1>1, <1>2, <1>3, <1>7, <2>1 DEF Dis!Screen
  <2> QED BY <2>2
<1> QED BY <1>1, <1>4, <1>5, <1>6, <1>7

(* Nothing was hidden for long when something else happens. *)
LEMMA NothingHidden ==
  ASSUME AlarmTypes', hidden' = 0,
         (timer.phase = "Running" => status.state \in Dis!BrewActive)'
  PROVE  AlarmInv'
PROOF
<1>1. /\ TimerEnd' \in Nat /\ ResultEnd' \in Nat /\ Dis!HiddenMax \in Nat
      /\ TimerEnd' <= Dis!HiddenMax /\ ResultEnd' <= Dis!HiddenMax
  <2>1. PostBrew \in Nat /\ ResultShown \in Nat \ {0}
    BY DeviceConstants DEF Dis!DisplayConstants
  <2>2. /\ Dis!HiddenMax \in Nat \ {0}
        /\ PostBrew + 1 <= Dis!HiddenMax /\ ResultShown <= Dis!HiddenMax
    BY <2>1 DEF Dis!HiddenMax
  <2>3. timer'.age \in 0 .. PostBrew /\ calibration'.age \in 0 .. ResultShown
    BY DEF AlarmTypes
  <2>4. TimerEnd' \in Nat /\ TimerEnd' <= PostBrew + 1
    BY <2>1, <2>3 DEF TimerEnd
  <2>5. ResultEnd' \in Nat /\ ResultEnd' <= ResultShown
    BY <2>1, <2>3 DEF ResultEnd
  <2> QED BY <2>1, <2>2, <2>4, <2>5
<1>2. hidden' + TimerEnd' <= Dis!HiddenMax /\ hidden' + ResultEnd' <= Dis!HiddenMax
  <2>1. PICK t \in Nat, r \in Nat : t = TimerEnd' /\ r = ResultEnd'
    BY <1>1, Zenon
  <2>2. t <= Dis!HiddenMax /\ r <= Dis!HiddenMax
    BY <1>1, <2>1
  <2>3. hidden' + t <= Dis!HiddenMax /\ hidden' + r <= Dis!HiddenMax
    BY <2>2, <1>1
  <2> QED BY <2>1, <2>3
<1>3. Dis!HiddenMax' = Dis!HiddenMax
  BY DEF Dis!HiddenMax
<1> QED BY <1>2, <1>3 DEF AlarmInv

(* The timers age together with the alarm that they hide.                  *)
LEMMA ClockKeeps ==
  ASSUME AlarmInv, Dis!Clock
  PROVE  AlarmInv'
PROOF
<1>1. /\ splash' = FALSE /\ timer' = Dis!TimerAges /\ calibration' = Dis!ResultAges
      /\ UNCHANGED <<settings, status, update>>
  BY DEF Dis!Clock
<1>2. /\ timer \in [phase : {"Idle", "Running", "PostBrew"}, age : 0 .. PostBrew]
      /\ calibration \in [phase : {"Idle", "Taring", "Placing", "Told"}, age : 0 .. ResultShown]
      /\ timer.phase = "Running" => status.state \in Dis!BrewActive
      /\ PostBrew \in Nat /\ ResultShown \in Nat \ {0} /\ Dis!HiddenMax \in Nat \ {0}
      /\ TimerEnd \in Nat /\ ResultEnd \in Nat /\ hidden \in Nat
      /\ splash = TRUE => hidden = 0
      /\ hidden + TimerEnd <= Dis!HiddenMax /\ hidden + ResultEnd <= Dis!HiddenMax
  BY EndsAre DEF AlarmInv, AlarmTypes
<1>3. /\ timer' \in [phase : {"Idle", "Running", "PostBrew"}, age : 0 .. PostBrew]
      /\ timer'.phase = "Running" => timer.phase = "Running"
      /\ TimerEnd' = IF TimerEnd = 0 THEN 0 ELSE TimerEnd - 1
  <2>1. CASE timer.phase # "PostBrew"
    BY <1>1, <1>2, <2>1 DEF Dis!TimerAges, TimerEnd
  <2>2. CASE timer.phase = "PostBrew" /\ timer.age < PostBrew
    <3>1. timer' = [timer EXCEPT !.age = @ + 1]
      BY <1>1, <2>2 DEF Dis!TimerAges
    <3>2. timer'.phase = "PostBrew" /\ timer'.age = timer.age + 1
      BY <1>2, <2>2, <3>1
    <3> QED BY <1>2, <2>2, <3>1, <3>2 DEF TimerEnd
  <2>3. CASE timer.phase = "PostBrew" /\ ~(timer.age < PostBrew)
    <3>1. timer' = [phase |-> "Idle", age |-> 0]
      BY <1>1, <2>3 DEF Dis!TimerAges
    <3> QED BY <1>2, <2>3, <3>1 DEF TimerEnd
  <2> QED BY <2>1, <2>2, <2>3
<1>4. /\ calibration' \in [phase : {"Idle", "Taring", "Placing", "Told"}, age : 0 .. ResultShown]
      /\ ResultEnd' = IF ResultEnd = 0 THEN 0 ELSE ResultEnd - 1
  <2>1. CASE calibration.phase = "Told" /\ calibration.age < ResultShown
    <3>1. calibration' = [calibration EXCEPT !.age = @ + 1]
      BY <1>1, <2>1 DEF Dis!ResultAges
    <3>2. calibration'.phase = "Told" /\ calibration'.age = calibration.age + 1
      BY <1>2, <2>1, <3>1
    <3> QED BY <1>2, <2>1, <3>1, <3>2 DEF ResultEnd
  <2>2. CASE ~(calibration.phase = "Told" /\ calibration.age < ResultShown)
    BY <1>1, <1>2, <2>2 DEF Dis!ResultAges, ResultEnd
  <2> QED BY <2>1, <2>2
<1>5. \/ hidden' = 0 \/ hidden' = hidden
      \/ /\ hidden' = hidden + 1
         /\ splash = TRUE \/ TimerEnd > 0 \/ ResultEnd > 0
  <2>1. CASE Dis!Lasting /\ Dis!Screen # status.state /\ ~Dis!Calibrating
    <3>1. splash = TRUE \/ TimerEnd > 0 \/ ResultEnd > 0
      BY <2>1, AlarmOnScreen
    <3> QED BY <2>1, <3>1 DEF Dis!Clock
  <2>2. CASE ~(Dis!Lasting /\ Dis!Screen # status.state /\ ~Dis!Calibrating)
    BY <2>2 DEF Dis!Clock
  <2> QED BY <2>1, <2>2
<1>6. /\ hidden' \in Nat
      /\ hidden' + TimerEnd' <= Dis!HiddenMax /\ hidden' + ResultEnd' <= Dis!HiddenMax
  <2>1. PICK h \in Nat, t \in Nat, r \in Nat, max \in Nat \ {0} :
          h = hidden /\ t = TimerEnd /\ r = ResultEnd /\ max = Dis!HiddenMax
    BY <1>2, Zenon
  <2>2. /\ TimerEnd' = IF t = 0 THEN 0 ELSE t - 1
        /\ ResultEnd' = IF r = 0 THEN 0 ELSE r - 1
        /\ h + t <= max /\ h + r <= max /\ (splash = TRUE => h = 0)
        /\ \/ hidden' = 0 \/ hidden' = h
           \/ hidden' = h + 1 /\ (splash = TRUE \/ t > 0 \/ r > 0)
    BY <1>2, <1>3, <1>4, <1>5, <2>1
  <2>3. PICK h1 \in Nat, t1 \in Nat, r1 \in Nat :
          h1 = hidden' /\ t1 = TimerEnd' /\ r1 = ResultEnd'
    <3>1. TimerEnd' \in Nat /\ ResultEnd' \in Nat /\ hidden' \in Nat
      BY <2>2
    <3> QED BY <3>1, Zenon
  <2>4. /\ (t = 0 => t1 = 0) /\ (t > 0 => t1 = t - 1)
        /\ (r = 0 => r1 = 0) /\ (r > 0 => r1 = r - 1)
        /\ h1 = 0 \/ h1 = h \/ (h1 = h + 1 /\ (h = 0 \/ t > 0 \/ r > 0))
    BY <2>2, <2>3
  <2>5. h + t <= max /\ h + r <= max
    BY <2>2
  <2>6. h1 + t1 <= max
    BY <2>4, <2>5
  <2>7. h1 + r1 <= max
    BY <2>4, <2>5
  <2> QED BY <2>1, <2>3, <2>6, <2>7
<1>7. Dis!HiddenMax' = Dis!HiddenMax
  BY DEF Dis!HiddenMax
<1>8. AlarmTypes'
  BY <1>1, <1>3, <1>4, <1>6 DEF AlarmInv, AlarmTypes
<1> QED BY <1>1, <1>2, <1>3, <1>6, <1>7, <1>8 DEF AlarmInv

LEMMA AlarmKeeps ==
  ASSUME AlarmInv, Dis!Next
  PROVE  AlarmInv'
PROOF
<1>1. /\ AlarmTypes
      /\ timer.phase = "Running" => status.state \in Dis!BrewActive
      /\ PostBrew \in Nat /\ ResultShown \in Nat
  BY EndsAre DEF AlarmInv
<1>2. CASE Dis!Pass
  BY <1>2 DEF Dis!Pass, AlarmInv, AlarmTypes, TimerEnd, ResultEnd, Dis!HiddenMax
<1>3. CASE Dis!StatusChanges
  <2>1. /\ status' \in Dis!Status /\ hidden' = 0 /\ timer' = Dis!TimerFollows(status'.state)
        /\ UNCHANGED <<settings, calibration, update, splash>>
    BY <1>3, DeviceConstants DEF Dis!StatusChanges, Dis!DisplayConstants
  <2>2. /\ timer' \in [phase : {"Idle", "Running", "PostBrew"}, age : 0 .. PostBrew]
        /\ timer'.phase = "Running" => status'.state \in Dis!BrewActive
    <3>1. CASE status'.state \in Dis!BrewActive
      BY <1>1, <2>1, <3>1 DEF Dis!TimerFollows
    <3>2. CASE status'.state \notin Dis!BrewActive /\ timer.phase = "Running"
      BY <1>1, <2>1, <3>2 DEF Dis!TimerFollows
    <3>3. CASE status'.state \notin Dis!BrewActive /\ timer.phase # "Running"
      BY <1>1, <2>1, <3>3 DEF Dis!TimerFollows, AlarmTypes
    <3> QED BY <3>1, <3>2, <3>3
  <2>3. AlarmTypes'
    BY <1>1, <2>1, <2>2 DEF AlarmTypes
  <2> QED BY <2>1, <2>2, <2>3, NothingHidden
<1>4. CASE Dis!CalibrationChanges
  <2>1. /\ calibration' = [phase |-> Dis!NextPhase(calibration.phase), age |-> 0]
        /\ hidden' = 0 /\ UNCHANGED <<settings, status, timer, update, splash>>
    BY <1>4 DEF Dis!CalibrationChanges
  <2>2. Dis!NextPhase(calibration.phase) \in {"Taring", "Placing", "Told"}
    BY <1>1 DEF AlarmTypes, Dis!NextPhase
  <2>3. AlarmTypes'
    BY <1>1, <2>1, <2>2 DEF AlarmTypes
  <2> QED BY <1>1, <2>1, <2>3, NothingHidden
<1>5. CASE Dis!UpdateChanges
  <2>1. /\ update' \in {"none", "running", "complete"} /\ hidden' = 0
        /\ UNCHANGED <<settings, status, timer, calibration, splash>>
    BY <1>5 DEF Dis!UpdateChanges
  <2>2. AlarmTypes'
    BY <1>1, <2>1 DEF AlarmTypes
  <2> QED BY <1>1, <2>1, <2>2, NothingHidden
<1> QED BY <1>2, <1>3, <1>4, <1>5, ClockKeeps DEF Dis!Next

LEMMA PanelSteps ==
  ASSUME PanelTypes, PanelKnown, Dis!PanelTells, [Dis!Next]_displayVars
  PROVE  PanelTypes' /\ PanelKnown' /\ Dis!PanelTells'
PROOF
<1>1. CASE Dis!Pass
  BY <1>1, PassKeeps
<1>2. CASE UNCHANGED <<settings, pass, panel, past>> /\ status' \in Dis!Status
  <2>1. PanelTypes'
    BY <1>2 DEF PanelTypes
  <2>2. PanelKnown' /\ Dis!PanelTells'
    BY <1>2 DEF PanelKnown, Dis!PanelTells, Dis!Visible
  <2> QED BY <2>1, <2>2
<1>3. CASE Dis!StatusChanges
  BY <1>2, <1>3, DeviceConstants DEF Dis!StatusChanges, Dis!DisplayConstants
<1>4. CASE Dis!CalibrationChanges \/ Dis!UpdateChanges \/ Dis!Clock \/ UNCHANGED displayVars
  BY <1>2, <1>4 DEF Dis!CalibrationChanges, Dis!UpdateChanges, Dis!Clock, displayVars, PanelTypes
<1> QED BY <1>1, <1>3, <1>4 DEF Dis!Next

LEMMA DisplayStarts ==
  ASSUME Dis!Init
  PROVE  PanelTypes /\ PanelKnown /\ Dis!PanelTells /\ AlarmInv
PROOF
<1>1. settings \in Dis!Settings /\ status \in Dis!Status
  BY DeviceConstants DEF Dis!Init, Dis!DisplayConstants
<1>2. /\ timer = [phase |-> "Idle", age |-> 0] /\ calibration = [phase |-> "Idle", age |-> 0]
      /\ update = "none" /\ splash = TRUE /\ hidden = 0
      /\ pass = [panelOn |-> TRUE, shown |-> Dis!Blank]
  BY DEF Dis!Init
<1>3. PICK c \in Dis!Initialise([on |-> FALSE, memory |-> Dis!Torn]) :
        panel = c.panel /\ past = [ok |-> FALSE, whole |-> c.ok, rendered |-> Dis!Blank]
  BY DEF Dis!Init
<1>4. [on |-> FALSE, memory |-> Dis!Torn] \in Panels
  BY DEF Panels
<1>5. /\ c.ok \in BOOLEAN /\ c.panel \in Panels
      /\ c.ok = TRUE => c.panel.on = TRUE /\ c.panel.memory = Dis!Blank
  BY <1>4, InitialiseGives
<1>6. PanelTypes
  BY <1>1, <1>2, <1>3, <1>5 DEF PanelTypes, Panels, Shown
<1>7. PanelKnown
  BY <1>2, <1>3, <1>5 DEF PanelKnown
<1>8. Dis!PanelTells
  BY <1>3 DEF Dis!PanelTells
<1>9. AlarmTypes
  BY <1>1, <1>2, DeviceConstants DEF AlarmTypes, Dis!DisplayConstants
<1>10. AlarmInv
  <2>1. TimerEnd = 0 /\ ResultEnd = 0
    BY <1>2 DEF TimerEnd, ResultEnd
  <2>2. Dis!HiddenMax \in Nat
    BY <1>9, EndsAre
  <2> QED BY <1>2, <1>9, <2>1, <2>2 DEF AlarmInv
<1> QED BY <1>6, <1>7, <1>8, <1>10

LEMMA AlarmIsShown ==
  ASSUME AlarmInv
  PROVE  Dis!AlarmShown
PROOF
<1>1. TimerEnd \in Nat /\ hidden \in Nat /\ Dis!HiddenMax \in Nat
      /\ hidden + TimerEnd <= Dis!HiddenMax
  BY EndsAre DEF AlarmInv, AlarmTypes
<1> QED BY <1>1 DEF Dis!AlarmShown

(* Whatever the bus loses, after a pass without an error the panel shows   *)
(* what was rendered; and an alarm that lasts is on the screen after the   *)
(* time that the brew timer and a result of the scale may take             *)
(* (display_task, firmware/src/display.rs, and Screens::draw).             *)
THEOREM PanelIsTrue == DeviceSpec => []PanelTrue
PROOF
<1> DEFINE Inv == PanelTypes /\ PanelKnown /\ Dis!PanelTells /\ AlarmInv
<1>1. DeviceInit => Inv
  BY PartsStart, DisplayStarts
<1>2. Inv /\ [DeviceNext]_deviceVars => Inv'
  <2> SUFFICES ASSUME Inv, [DeviceNext]_deviceVars PROVE Inv'
    OBVIOUS
  <2>1. [Dis!Next]_displayVars
    BY PartsStep
  <2>2. PanelTypes' /\ PanelKnown' /\ Dis!PanelTells'
    BY <2>1, PanelSteps
  <2>3. CASE Dis!Next
    BY <2>2, <2>3, AlarmKeeps
  <2>4. CASE UNCHANGED displayVars
    <3>1. AlarmInv'
      BY <2>4 DEF AlarmInv, AlarmTypes, TimerEnd, ResultEnd, displayVars, Dis!HiddenMax
    <3> QED BY <2>2, <3>1
  <2> QED BY <2>1, <2>3, <2>4
<1>3. Inv => PanelTrue
  <2> SUFFICES ASSUME Inv PROVE PanelTrue
    OBVIOUS
  <2>1. Dis!AlarmShown
    BY AlarmIsShown
  <2>2. hidden \in 0 .. (Dis!HiddenMax + 1)
    BY <2>1, EndsAre DEF Dis!AlarmShown, AlarmInv, AlarmTypes
  <2>3. Dis!TypeOK
    BY <2>2 DEF Dis!TypeOK, PanelTypes, AlarmInv, AlarmTypes, Shown
  <2> QED BY <2>1, <2>3 DEF PanelTrue
<1> QED BY <1>1, <1>2, <1>3, PTL DEF DeviceSpec

-----------------------------------------------------------------------------
(* The sensors.  The frames that the task keeps are those since the last   *)
(* outage: none is old, and while it says that the sensor is out, it has   *)
(* none.                                                                   *)
Fresh == [raw : Right \cup Wrong, old : {FALSE}]
Times == 0 .. SilenceMax + 2 * Timeout
Errors == 0 .. ErrorsMax + 1 \cup 0 .. DallasMax + 1
SensingInv ==
  /\ sensor \in {"tsic", "ds18b20"}
  /\ sensorTask \in [filter : Seq(Fresh), lastOk : Times, errors : Errors,
                     faulty : BOOLEAN]
  /\ Len(sensorTask.filter) <= 3
  /\ sensorTask.faulty = TRUE => sensorTask.filter = <<>>
  /\ Sns!OutageShown

Readings == {Sns!None} \cup [right : {TRUE}, old : {FALSE}]
PendingInv ==
  /\ readings \in [temperature : Readings, fault : BOOLEAN, scale : BOOLEAN, pressure : BOOLEAN]
  /\ fresh \subseteq Sns!Kinds
  /\ Sns!TakenOnce

(* Sets of one index and of two. *)
LEMMA AtMostOne ==
  ASSUME NEW k, NEW S, S \subseteq {k}
  PROVE  Sns!Cardinality(S) <= 1
PROOF
<1>1. IsFiniteSet({k}) /\ Cardinality({k}) = 1
  BY FS_Singleton
<1>2. Cardinality(S) <= 1
  BY <1>1, FS_Subset
<1>3. Sns!Cardinality(S) = Cardinality(S)
  BY Zenon DEF Sns!Cardinality, Cardinality, Sns!IsFiniteSet, IsFiniteSet
<1> QED BY <1>2, <1>3

LEMMA AtLeastTwo ==
  ASSUME NEW S, IsFiniteSet(S), NEW i \in S, NEW j \in S, i # j
  PROVE  Sns!Cardinality(S) \in Nat /\ Sns!Cardinality(S) > 1
PROOF
<1>1. IsFiniteSet({i}) /\ Cardinality({i}) = 1
  BY FS_Singleton
<1>2. {i} \cup {j} \subseteq S
  OBVIOUS
<1>3. Cardinality({i} \cup {j}) = 2
  BY <1>1, FS_AddElement
<1>4. Cardinality({i} \cup {j}) <= Cardinality(S) /\ Cardinality(S) \in Nat
  BY <1>2, FS_Subset, FS_CardinalityType
<1>5. Sns!Cardinality(S) = Cardinality(S)
  BY Zenon DEF Sns!Cardinality, Cardinality, Sns!IsFiniteSet, IsFiniteSet
<1> QED BY <1>3, <1>4, <1>5

(* Three frames have a median: at most one is lower, at most one higher. *)
LEMMA MedianIsMiddle ==
  ASSUME NEW frames \in Seq(Fresh), Len(frames) = 3
  PROVE  LET m == Sns!Median(frames)
         IN  /\ m \in {frames[i].raw : i \in 1 .. 3} /\ m \in Int
             /\ Sns!Cardinality({i \in 1 .. 3 : frames[i].raw < m}) <= 1
             /\ Sns!Cardinality({i \in 1 .. 3 : frames[i].raw > m}) <= 1
PROOF
<1>1. DOMAIN frames = 1 .. 3
  OBVIOUS
<1>2. \A i \in 1 .. 3 : frames[i].raw \in Int
  <2>1. \A i \in 1 .. Len(frames) : frames[i] \in Fresh
    BY ElementOfSeq
  <2>2. \A f \in Fresh : f.raw \in Int
    BY DeviceConstants DEF Fresh, Sns!SensingConstants
  <2> QED BY <2>1, <2>2
<1>3. Sns!ToSet(frames) = {frames[i] : i \in 1 .. 3}
  BY <1>1, Zenon DEF Sns!ToSet
<1>4. {f.raw : f \in Sns!ToSet(frames)} = {frames[i].raw : i \in 1 .. 3}
  BY <1>3
<1>5. \E k \in 1 .. 3, l \in 1 .. 3, h \in 1 .. 3 :
        /\ \A i \in 1 .. 3 : frames[i].raw < frames[k].raw => i = l
        /\ \A i \in 1 .. 3 : frames[i].raw > frames[k].raw => i = h
  <2> DEFINE a == frames[1].raw
             b == frames[2].raw
             c == frames[3].raw
  <2>1. a \in Int /\ b \in Int /\ c \in Int
    BY <1>2
  <2> DEFINE Middle(k, l, h) ==
                 /\ \A i \in 1 .. 3 : frames[i].raw < frames[k].raw => i = l
                 /\ \A i \in 1 .. 3 : frames[i].raw > frames[k].raw => i = h
  <2>2. ASSUME NEW k \in 1 .. 3, NEW l \in 1 .. 3, NEW h \in 1 .. 3,
               \A i \in 1 .. 3 : i = k \/ i = l \/ i = h,
               frames[l].raw <= frames[k].raw, frames[k].raw <= frames[h].raw
        PROVE  Middle(k, l, h)
    <3>1. ASSUME NEW i \in 1 .. 3, frames[i].raw < frames[k].raw PROVE i = l
      <4>1. i # k /\ i # h
        BY <1>2, <2>2, <3>1
      <4> QED BY <2>2, <4>1
    <3>2. ASSUME NEW i \in 1 .. 3, frames[i].raw > frames[k].raw PROVE i = h
      <4>1. i # k /\ i # l
        BY <1>2, <2>2, <3>2
      <4> QED BY <2>2, <4>1
    <3> QED BY <3>1, <3>2
  <2>n. 1 \in 1 .. 3 /\ 2 \in 1 .. 3 /\ 3 \in 1 .. 3
        /\ \A i \in 1 .. 3 : i = 1 \/ i = 2 \/ i = 3
    OBVIOUS
  <2> HIDE DEF Middle
  <2>3. CASE a <= b /\ b <= c
    <3>1. Middle(2, 1, 3)
      BY <2>2, <2>n, <2>3
    <3> QED BY <2>n, <3>1 DEF Middle
  <2>4. CASE a <= c /\ c <= b
    <3>1. Middle(3, 1, 2)
      BY <2>2, <2>n, <2>4
    <3> QED BY <2>n, <3>1 DEF Middle
  <2>5. CASE b <= a /\ a <= c
    <3>1. Middle(1, 2, 3)
      BY <2>2, <2>n, <2>5
    <3> QED BY <2>n, <3>1 DEF Middle
  <2>6. CASE b <= c /\ c <= a
    <3>1. Middle(3, 2, 1)
      BY <2>2, <2>n, <2>6
    <3> QED BY <2>n, <3>1 DEF Middle
  <2>7. CASE c <= a /\ a <= b
    <3>1. Middle(1, 3, 2)
      BY <2>2, <2>n, <2>7
    <3> QED BY <2>n, <3>1 DEF Middle
  <2>8. CASE c <= b /\ b <= a
    <3>1. Middle(2, 3, 1)
      BY <2>2, <2>n, <2>8
    <3> QED BY <2>n, <3>1 DEF Middle
  <2>9. \/ (a <= b /\ b <= c) \/ (a <= c /\ c <= b) \/ (b <= a /\ a <= c)
        \/ (b <= c /\ c <= a) \/ (c <= a /\ a <= b) \/ (c <= b /\ b <= a)
    <3> HIDE DEF a, b, c
    <3> QED BY <2>1
  <2> HIDE DEF a, b, c
  <2> QED BY <2>3, <2>4, <2>5, <2>6, <2>7, <2>8, <2>9
<1>6. \E m \in {f.raw : f \in Sns!ToSet(frames)} :
        /\ Sns!Cardinality({i \in DOMAIN frames : frames[i].raw < m}) <= 1
        /\ Sns!Cardinality({i \in DOMAIN frames : frames[i].raw > m}) <= 1
  <2>1. PICK k \in 1 .. 3, l \in 1 .. 3, h \in 1 .. 3 :
          /\ \A i \in 1 .. 3 : frames[i].raw < frames[k].raw => i = l
          /\ \A i \in 1 .. 3 : frames[i].raw > frames[k].raw => i = h
    BY <1>5
  <2>2. Sns!Cardinality({i \in DOMAIN frames : frames[i].raw < frames[k].raw}) <= 1
    <3>1. {i \in DOMAIN frames : frames[i].raw < frames[k].raw} \subseteq {l}
      BY <1>1, <2>1
    <3> QED BY <3>1, AtMostOne
  <2>3. Sns!Cardinality({i \in DOMAIN frames : frames[i].raw > frames[k].raw}) <= 1
    <3>1. {i \in DOMAIN frames : frames[i].raw > frames[k].raw} \subseteq {h}
      BY <1>1, <2>1
    <3> QED BY <3>1, AtMostOne
  <2>4. frames[k].raw \in {f.raw : f \in Sns!ToSet(frames)}
    BY <1>4
  <2> QED BY <2>2, <2>3, <2>4
<1>7. /\ Sns!Median(frames) \in {f.raw : f \in Sns!ToSet(frames)}
      /\ Sns!Cardinality({i \in DOMAIN frames : frames[i].raw < Sns!Median(frames)}) <= 1
      /\ Sns!Cardinality({i \in DOMAIN frames : frames[i].raw > Sns!Median(frames)}) <= 1
  BY <1>6, Zenon DEF Sns!Median
<1> QED BY <1>1, <1>2, <1>4, <1>7

(* The median of three frames, of which one may be wrong, lies between     *)
(* right ones: two of them are right, and not both on one side of it.      *)
LEMMA MedianIsRight ==
  ASSUME NEW frames \in Seq(Fresh), Len(frames) = 3
  PROVE  Sns!Reading(Sns!Median(frames), frames) = [right |-> TRUE, old |-> FALSE]
PROOF
<1> DEFINE m == Sns!Median(frames)
           right == {f.raw : f \in Sns!ToSet(frames)} \cap Right
           wrong == {i \in DOMAIN frames : frames[i].raw \in Wrong}
<1>1. /\ DOMAIN frames = 1 .. 3
      /\ \A i \in 1 .. 3 : frames[i] \in Fresh
  OBVIOUS
<1>2. \A i \in 1 .. 3 : /\ frames[i].raw \in Int /\ frames[i].old = FALSE
                        /\ frames[i].raw \in Right \/ frames[i].raw \in Wrong
  <2>1. \A f \in Fresh : /\ f.raw \in Int /\ f.old = FALSE
                         /\ f.raw \in Right \/ f.raw \in Wrong
    BY DeviceConstants DEF Fresh, Sns!SensingConstants
  <2> QED BY <1>1, <2>1
<1>3. Sns!ToSet(frames) = {frames[i] : i \in 1 .. 3}
  BY <1>1, Zenon DEF Sns!ToSet
<1>4. /\ m \in Int
      /\ Sns!Cardinality({i \in 1 .. 3 : frames[i].raw < m}) <= 1
      /\ Sns!Cardinality({i \in 1 .. 3 : frames[i].raw > m}) <= 1
  BY MedianIsMiddle
<1> HIDE DEF m
<1>5. \A S \in SUBSET (1 .. 3) : IsFiniteSet(S)
  <2>1. IsFiniteSet(1 .. 3)
    BY FS_Interval
  <2> QED BY <2>1, FS_Subset
<1>6. ASSUME NEW i \in 1 .. 3, NEW j \in 1 .. 3, i # j
      PROVE  /\ frames[i].raw <= m \/ frames[j].raw <= m
             /\ frames[i].raw >= m \/ frames[j].raw >= m
  <2>1. CASE frames[i].raw < m /\ frames[j].raw < m
    <3> DEFINE S == {n \in 1 .. 3 : frames[n].raw < m}
    <3>1. i \in S /\ j \in S /\ IsFiniteSet(S)
      BY <1>5, <2>1
    <3> HIDE DEF S
    <3>2. Sns!Cardinality(S) \in Nat /\ Sns!Cardinality(S) > 1
      BY <1>6, <3>1, AtLeastTwo
    <3>3. Sns!Cardinality(S) <= 1
      BY <1>4 DEF S
    <3> QED BY <3>2, <3>3
  <2>2. CASE frames[i].raw > m /\ frames[j].raw > m
    <3> DEFINE S == {n \in 1 .. 3 : frames[n].raw > m}
    <3>1. i \in S /\ j \in S /\ IsFiniteSet(S)
      BY <1>5, <2>2
    <3> HIDE DEF S
    <3>2. Sns!Cardinality(S) \in Nat /\ Sns!Cardinality(S) > 1
      BY <1>6, <3>1, AtLeastTwo
    <3>3. Sns!Cardinality(S) <= 1
      BY <1>4 DEF S
    <3> QED BY <3>2, <3>3
  <2> QED BY SMTT(30), <1>2, <1>4, <2>1, <2>2
<1>7. Sns!Cardinality(wrong) > 1 \/ \E lo, hi \in right : lo <= m /\ m <= hi
  <2>1. CASE \E i, j \in 1 .. 3 : i # j /\ frames[i].raw \in Wrong /\ frames[j].raw \in Wrong
    <3>1. PICK i \in 1 .. 3, j \in 1 .. 3 :
            i # j /\ frames[i].raw \in Wrong /\ frames[j].raw \in Wrong
      BY <2>1
    <3>2. i \in wrong /\ j \in wrong /\ IsFiniteSet(wrong)
      BY <1>1, <1>5, <3>1
    <3> HIDE DEF wrong
    <3> QED BY <3>1, <3>2, AtLeastTwo
  <2>2. CASE ~\E i, j \in 1 .. 3 : i # j /\ frames[i].raw \in Wrong /\ frames[j].raw \in Wrong
    <3>1. \E i \in 1 .. 3, j \in 1 .. 3 :
            i # j /\ frames[i].raw \in Right /\ frames[j].raw \in Right
      <4>1. CASE frames[1].raw \in Wrong
        <5>1. frames[2].raw \in Right /\ frames[3].raw \in Right
          BY <1>2, <2>2, <4>1
        <5> QED BY <5>1
      <4>2. CASE frames[1].raw \in Right /\ frames[2].raw \in Right
        BY <4>2
      <4>3. CASE frames[1].raw \in Right /\ frames[2].raw \in Wrong
        <5>1. frames[3].raw \in Right
          BY <1>2, <2>2, <4>3
        <5> QED BY <4>3, <5>1
      <4> QED BY <1>2, <4>1, <4>2, <4>3
    <3>2. PICK i \in 1 .. 3, j \in 1 .. 3 :
            i # j /\ frames[i].raw \in Right /\ frames[j].raw \in Right
      BY <3>1
    <3>3. frames[i].raw \in right /\ frames[j].raw \in right
      <4>1. frames[i] \in Sns!ToSet(frames) /\ frames[j] \in Sns!ToSet(frames)
        BY <1>3
      <4> QED BY <3>2, <4>1
    <3>4. /\ frames[i].raw <= m \/ frames[j].raw <= m
          /\ frames[i].raw >= m \/ frames[j].raw >= m
      BY <1>6, <3>2
    <3> HIDE DEF right
    <3>5. \E lo \in right : lo <= m
      BY <3>3, <3>4
    <3>6. \E hi \in right : m <= hi
      BY <1>2, <1>4, <3>3, <3>4
    <3> QED BY <3>5, <3>6
  <2> QED BY <2>1, <2>2
<1>8. ~\E f \in Sns!ToSet(frames) : f.old
  BY <1>2, <1>3
<1>9. Sns!Reading(m, frames) =
        [right |-> Sns!Cardinality(wrong) > 1 \/ \E lo, hi \in right : lo <= m /\ m <= hi,
         old |-> \E f \in Sns!ToSet(frames) : f.old]
  BY Zenon DEF Sns!Reading
<1>10. (Sns!Cardinality(wrong) > 1 \/ \E lo, hi \in right : lo <= m /\ m <= hi) = TRUE
  BY <1>7
<1>11. (\E f \in Sns!ToSet(frames) : f.old) = FALSE
  BY <1>8
<1> QED BY <1>9, <1>10, <1>11, Zenon DEF m

(* A DS18B20 has one reading at a time. *)
LEMMA OneIsRight ==
  ASSUME NEW raw \in Right
  PROVE  Sns!Reading(raw, <<[raw |-> raw, old |-> FALSE]>>) = [right |-> TRUE, old |-> FALSE]
PROOF
<1> DEFINE frame == [raw |-> raw, old |-> FALSE]
           frames == <<frame>>
           right == {f.raw : f \in Sns!ToSet(frames)} \cap Right
           wrong == {i \in DOMAIN frames : frames[i].raw \in Wrong}
<1>1. raw \in Int
  BY DeviceConstants DEF Sns!SensingConstants
<1>2. Sns!ToSet(frames) = {frame}
  <2>1. DOMAIN frames = {1} /\ frames[1] = frame
    OBVIOUS
  <2> HIDE DEF frames, frame
  <2> QED BY <2>1 DEF Sns!ToSet
<1>3. raw \in right
  BY <1>2
<1>4. (Sns!Cardinality(wrong) > 1 \/ \E lo, hi \in right : lo <= raw /\ raw <= hi) = TRUE
  <2> HIDE DEF right
  <2> QED BY <1>1, <1>3
<1>5. (\E f \in Sns!ToSet(frames) : f.old) = FALSE
  <2>1. frame.old = FALSE
    OBVIOUS
  <2> HIDE DEF frames, frame
  <2> QED BY <1>2, <2>1
<1>6. Sns!Reading(raw, frames) =
        [right |-> Sns!Cardinality(wrong) > 1 \/ \E lo, hi \in right : lo <= raw /\ raw <= hi,
         old |-> \E f \in Sns!ToSet(frames) : f.old]
  BY Zenon DEF Sns!Reading
<1> QED BY <1>4, <1>5, <1>6, Zenon

(* Publishing, taking, and leaving alone what is pending. *)
LEMMA PublishKeeps ==
  ASSUME PendingInv, NEW r \in [right : {TRUE}, old : {FALSE}], Sns!PublishTemperature(r)
  PROVE  PendingInv' /\ readings'.fault = FALSE
PROOF
<1>1. /\ readings' = [readings EXCEPT !.temperature = r, !.fault = FALSE]
      /\ fresh' = fresh \cup {"temperature"}
  BY DEF Sns!PublishTemperature
<1>2. /\ readings' \in [temperature : Readings, fault : BOOLEAN, scale : BOOLEAN,
                        pressure : BOOLEAN]
      /\ readings'.fault = FALSE
      /\ readings'.scale = readings.scale /\ readings'.pressure = readings.pressure
  BY <1>1 DEF PendingInv, Readings
<1>3. fresh' \subseteq Sns!Kinds
  BY <1>1 DEF PendingInv, Sns!Kinds
<1>4. Sns!TakenOnce'
  BY <1>1, <1>2 DEF PendingInv, Sns!TakenOnce
<1> QED BY <1>2, <1>3, <1>4 DEF PendingInv

LEMMA FaultKeeps ==
  ASSUME PendingInv, Sns!PublishFault
  PROVE  PendingInv' /\ readings'.fault = TRUE
PROOF
<1>1. readings' = [readings EXCEPT !.fault = TRUE] /\ fresh' = fresh
  BY DEF Sns!PublishFault
<1>2. /\ readings' \in [temperature : Readings, fault : BOOLEAN, scale : BOOLEAN,
                        pressure : BOOLEAN]
      /\ readings'.fault = TRUE /\ readings'.temperature = readings.temperature
      /\ readings'.scale = readings.scale /\ readings'.pressure = readings.pressure
  BY <1>1 DEF PendingInv
<1>3. Sns!TakenOnce'
  BY <1>1, <1>2 DEF PendingInv, Sns!TakenOnce
<1> QED BY <1>1, <1>2, <1>3 DEF PendingInv

LEMMA NothingKeeps ==
  ASSUME PendingInv, Sns!NothingPublished
  PROVE  PendingInv' /\ readings' = readings
PROOF
<1> QED BY DEF Sns!NothingPublished, PendingInv, Sns!TakenOnce

LEMMA PushKeeps ==
  ASSUME NEW filter \in Seq(Fresh), Len(filter) <= 3, NEW frame \in Fresh
  PROVE  Sns!Push(filter, frame) \in Seq(Fresh) /\ Len(Sns!Push(filter, frame)) <= 3
PROOF
<1>1. CASE Len(filter) = 3
  <2>1. Tail(filter) \in Seq(Fresh) /\ Len(Tail(filter)) = 2
    BY <1>1, HeadTailProperties
  <2>2. Sns!Push(filter, frame) = Append(Tail(filter), frame)
    BY <1>1 DEF Sns!Push
  <2> QED BY <2>1, <2>2, AppendProperties
<1>2. CASE Len(filter) # 3
  <2>1. Sns!Push(filter, frame) = Append(filter, frame)
    BY <1>2 DEF Sns!Push
  <2>2. /\ Append(filter, frame) \in Seq(Fresh)
        /\ Len(Append(filter, frame)) = Len(filter) + 1
    BY AppendProperties
  <2>3. Len(filter) + 1 <= 3
    <3>1. Len(filter) \in Nat
      BY LenProperties
    <3>2. PICK n \in Nat : n = Len(filter)
      BY <3>1, Zenon
    <3>3. n <= 3 /\ n # 3
      BY <1>2, <3>2
    <3> QED BY <3>2, <3>3
  <2> QED BY <2>1, <2>2, <2>3
<1> QED BY <1>1, <1>2

LEMMA SensingNumbers ==
  /\ SilenceMax \in Nat /\ Timeout \in Nat /\ ErrorsMax \in Nat /\ DallasMax \in Nat
PROOF
<1> QED BY DeviceConstants DEF Sns!SensingConstants

LEMMA GoodFrameKeeps ==
  ASSUME SensingInv, PendingInv, UNCHANGED sensor, sensor = "tsic",
         NEW frame \in Fresh, Sns!GoodFrame(frame)
  PROVE  SensingInv' /\ PendingInv'
PROOF
<1> DEFINE filter == Sns!Push(sensorTask.filter, frame)
<1>1. filter \in Seq(Fresh) /\ Len(filter) <= 3 /\ Len(filter) \in Nat
  BY PushKeeps DEF SensingInv
<1>2. /\ Len(filter) = 3 => Sns!PublishTemperature(Sns!Reading(Sns!Median(filter), filter))
      /\ Len(filter) # 3 => Sns!NothingPublished
      /\ sensorTask' = [filter |-> filter, lastOk |-> 0, errors |-> 0, faulty |-> FALSE]
  BY DEF Sns!GoodFrame
<1> HIDE DEF filter
<1>3. PendingInv'
  <2>1. CASE Len(filter) = 3
    <3>1. Sns!Reading(Sns!Median(filter), filter) = [right |-> TRUE, old |-> FALSE]
      BY <1>1, <2>1, MedianIsRight
    <3>2. Sns!PublishTemperature([right |-> TRUE, old |-> FALSE])
      BY <1>2, <2>1, <3>1
    <3> QED BY <3>2, PublishKeeps
  <2>2. CASE Len(filter) # 3
    BY <1>2, <2>2, NothingKeeps
  <2> QED BY <2>1, <2>2
<1>4. /\ sensorTask'.filter = filter /\ sensorTask'.lastOk = 0 /\ sensorTask'.errors = 0
      /\ sensorTask'.faulty = FALSE
  BY <1>2
<1>5. Sns!OutageShown'
  BY <1>4, SensingNumbers DEF Sns!OutageShown
<1>6. sensorTask' \in [filter : Seq(Fresh), lastOk : Times, errors : Errors,
                       faulty : BOOLEAN]
  BY <1>1, <1>2, SensingNumbers DEF Times, Errors
<1> QED BY <1>1, <1>3, <1>4, <1>5, <1>6 DEF SensingInv

LEMMA NoFrameKeeps ==
  ASSUME SensingInv, PendingInv, UNCHANGED sensor, sensor = "tsic",
         NEW dt \in 0 .. Timeout, NEW error \in BOOLEAN, Sns!NoFrame(dt, error)
  PROVE  SensingInv' /\ PendingInv'
PROOF
<1> DEFINE lastOk == Sns!Aged(dt)
           errors == IF error /\ sensorTask.errors <= ErrorsMax THEN sensorTask.errors + 1
                     ELSE sensorTask.errors
           fault == lastOk > SilenceMax \/ errors > ErrorsMax
           filter == Sns!Marked(IF sensorTask.faulty THEN sensorTask.filter ELSE Sns!NewFilter)
<1>1. /\ sensorTask.lastOk \in Times /\ sensorTask.errors \in Errors
      /\ sensorTask.filter \in Seq(Fresh) /\ Len(sensorTask.filter) <= 3
      /\ sensorTask.faulty \in BOOLEAN
      /\ sensorTask.faulty = TRUE => sensorTask.filter = <<>>
      /\ sensorTask \in [filter : Seq(Fresh), lastOk : Times, errors : Errors,
                         faulty : BOOLEAN]
  BY DEF SensingInv
<1>2. lastOk \in Times
  BY <1>1, SensingNumbers DEF Sns!Aged, Times
<1>3. errors \in Errors
  BY <1>1, SensingNumbers DEF Errors
<1>4. filter = <<>>
  <2>1. (IF sensorTask.faulty THEN sensorTask.filter ELSE Sns!NewFilter) = <<>>
    BY <1>1 DEF Sns!NewFilter
  <2>2. Sns!Marked(<<>>) = <<>>
    <3>1. DOMAIN Sns!Marked(<<>>) = {}
      BY DEF Sns!Marked
    <3> QED BY DEF Sns!Marked
  <2> QED BY <2>1, <2>2, Zenon
<1>5. fault => /\ Sns!PublishFault
               /\ sensorTask' = [sensorTask EXCEPT !.lastOk = lastOk, !.errors = errors,
                                   !.faulty = TRUE, !.filter = filter]
  BY DEF Sns!NoFrame
<1>6. ~fault => /\ Sns!NothingPublished
                /\ sensorTask' = [sensorTask EXCEPT !.lastOk = lastOk, !.errors = errors,
                                    !.faulty = sensorTask.faulty /\ errors # 0]
  BY DEF Sns!NoFrame
<1> HIDE DEF lastOk, errors, filter
<1>7. CASE fault
  <2>1. PendingInv' /\ readings'.fault = TRUE
    BY <1>5, <1>7, FaultKeeps
  <2>2. sensorTask' = [sensorTask EXCEPT !.lastOk = lastOk, !.errors = errors,
                                         !.faulty = TRUE, !.filter = <<>>]
    BY <1>4, <1>5, <1>7
  <2>3. /\ sensorTask' \in [filter : Seq(Fresh), lastOk : Times, errors : Errors,
                            faulty : BOOLEAN]
        /\ sensorTask'.filter = <<>>
    <3>1. PICK none \in Seq(Fresh) : none = <<>>
      BY EmptySeq
    <3>2. sensorTask' = [sensorTask EXCEPT !.lastOk = lastOk, !.errors = errors,
                                           !.faulty = TRUE, !.filter = none]
      BY <2>2, <3>1
    <3>3. /\ sensorTask' \in [filter : Seq(Fresh), lastOk : Times, errors : Errors,
                              faulty : BOOLEAN]
          /\ sensorTask'.filter = none
      BY <1>1, <1>2, <1>3, <3>2
    <3> QED BY <3>1, <3>3
  <2>4. Sns!OutageShown'
    BY <2>1 DEF Sns!OutageShown
  <2> QED BY <2>1, <2>3, <2>4 DEF SensingInv
<1>8. CASE ~fault
  <2>1. PendingInv'
    BY <1>6, <1>8, NothingKeeps
  <2>2. PICK faulty \in BOOLEAN : faulty = (sensorTask.faulty /\ errors # 0)
    OBVIOUS
  <2>3. sensorTask' = [sensorTask EXCEPT !.lastOk = lastOk, !.errors = errors, !.faulty = faulty]
    BY <1>6, <1>8, <2>2
  <2>4. /\ sensorTask' \in [filter : Seq(Fresh), lastOk : Times, errors : Errors,
                            faulty : BOOLEAN]
        /\ sensorTask'.filter = sensorTask.filter /\ sensorTask'.faulty = faulty
        /\ sensorTask'.lastOk = lastOk /\ sensorTask'.errors = errors
    BY <1>1, <1>2, <1>3, <2>3
  <2>5. faulty = TRUE => sensorTask.faulty = TRUE
    BY <1>1, <2>2
  <2>6. Sns!OutageShown'
    BY <1>8, <2>4 DEF Sns!OutageShown
  <2> QED BY <1>1, <2>1, <2>4, <2>5, <2>6 DEF SensingInv
<1> QED BY <1>7, <1>8

LEMMA TsicKeeps ==
  ASSUME SensingInv, PendingInv, Sns!Tsic
  PROVE  SensingInv' /\ PendingInv'
PROOF
<1>1. UNCHANGED sensor /\ sensor = "tsic"
  BY DEF Sns!Tsic
<1>2. CASE \E raw \in Right \cup Wrong : Sns!GoodFrame([raw |-> raw, old |-> FALSE])
  <2>1. PICK raw \in Right \cup Wrong : Sns!GoodFrame([raw |-> raw, old |-> FALSE])
    BY <1>2
  <2>2. [raw |-> raw, old |-> FALSE] \in Fresh
    BY DEF Fresh
  <2> QED BY <1>1, <2>1, <2>2, GoodFrameKeeps
<1>3. CASE \E dt \in 0 .. Timeout : Sns!NoFrame(dt, TRUE)
  <2>1. PICK dt \in 0 .. Timeout : Sns!NoFrame(dt, TRUE)
    BY <1>3
  <2> QED BY <1>1, <2>1, NoFrameKeeps
<1>4. CASE Sns!NoFrame(Timeout, FALSE)
  <2>1. Timeout \in 0 .. Timeout
    BY SensingNumbers
  <2> QED BY <1>1, <1>4, <2>1, NoFrameKeeps
<1> QED BY <1>2, <1>3, <1>4 DEF Sns!Tsic

LEMMA DallasKeeps ==
  ASSUME SensingInv, PendingInv, Sns!Dallas
  PROVE  SensingInv' /\ PendingInv'
PROOF
<1>1. /\ sensor = "ds18b20" /\ sensor' = sensor
      /\ sensorTask \in [filter : Seq(Fresh), lastOk : Times, errors : Errors, faulty : BOOLEAN]
      /\ sensorTask.errors \in Errors
      /\ Len(sensorTask.filter) <= 3
      /\ sensorTask.faulty = TRUE => sensorTask.filter = <<>>
  BY DEF SensingInv, Sns!Dallas
<1>2. ASSUME NEW n \in Errors, sensorTask' = [sensorTask EXCEPT !.errors = n], PendingInv',
             n > DallasMax => readings'.fault = TRUE
      PROVE  SensingInv' /\ PendingInv'
  <2>1. /\ sensorTask' \in [filter : Seq(Fresh), lastOk : Times, errors : Errors, faulty : BOOLEAN]
        /\ sensorTask'.filter = sensorTask.filter /\ sensorTask'.faulty = sensorTask.faulty
        /\ sensorTask'.errors = n
    BY <1>1, <1>2
  <2>2. Sns!OutageShown'
    BY <1>1, <1>2, <2>1 DEF Sns!OutageShown
  <2> QED BY <1>1, <1>2, <2>1, <2>2 DEF SensingInv
<1>3. CASE \E raw \in Right :
             /\ Sns!PublishTemperature(Sns!Reading(raw, <<[raw |-> raw, old |-> FALSE]>>))
             /\ sensorTask' = [sensorTask EXCEPT !.errors = 0]
  <2>1. PICK raw \in Right :
             /\ Sns!PublishTemperature(Sns!Reading(raw, <<[raw |-> raw, old |-> FALSE]>>))
             /\ sensorTask' = [sensorTask EXCEPT !.errors = 0]
    BY <1>3
  <2>2. Sns!PublishTemperature([right |-> TRUE, old |-> FALSE])
    BY <2>1, OneIsRight
  <2>3. PendingInv'
    BY <2>2, PublishKeeps
  <2>4. 0 \in Errors /\ ~(0 > DallasMax)
    BY SensingNumbers DEF Errors
  <2> QED BY <1>2, <2>1, <2>3, <2>4
<1>4. CASE LET errors == IF sensorTask.errors > DallasMax THEN sensorTask.errors
                         ELSE sensorTask.errors + 1
           IN  /\ sensorTask' = [sensorTask EXCEPT !.errors = errors]
               /\ IF errors > DallasMax THEN Sns!PublishFault ELSE Sns!NothingPublished
  <2> DEFINE errors == IF sensorTask.errors > DallasMax THEN sensorTask.errors
                       ELSE sensorTask.errors + 1
  <2>1. errors \in Errors
    BY <1>1, SensingNumbers DEF Errors
  <2>2. /\ sensorTask' = [sensorTask EXCEPT !.errors = errors]
        /\ errors > DallasMax => Sns!PublishFault
        /\ ~(errors > DallasMax) => Sns!NothingPublished
    BY <1>4
  <2> HIDE DEF errors
  <2>3. PendingInv' /\ (errors > DallasMax => readings'.fault = TRUE)
    BY <2>2, FaultKeeps, NothingKeeps
  <2> QED BY <1>2, <2>1, <2>2, <2>3
<1> QED BY <1>3, <1>4 DEF Sns!Dallas

LEMMA SensingSteps ==
  ASSUME SensingInv, PendingInv, [Sns!Next]_sensingVars
  PROVE  SensingInv' /\ PendingInv'
PROOF
<1>1. ASSUME UNCHANGED <<sensor, sensorTask>>, readings'.fault = readings.fault
      PROVE  SensingInv'
  BY <1>1 DEF SensingInv, Sns!OutageShown
<1>2. readings \in [temperature : Readings, fault : BOOLEAN, scale : BOOLEAN, pressure : BOOLEAN]
  BY DEF PendingInv
<1>3. CASE Sns!Hx711
  <2>1. /\ readings' = [readings EXCEPT !.scale = TRUE] /\ fresh' = fresh \cup {"scale"}
        /\ UNCHANGED <<sensor, sensorTask>>
    BY <1>3 DEF Sns!Hx711
  <2>2. PendingInv'
    BY <1>2, <2>1 DEF PendingInv, Sns!Kinds, Sns!TakenOnce
  <2> QED BY <1>1, <1>2, <2>1, <2>2
<1>4. CASE Sns!Pressure
  <2>1. /\ readings' = [readings EXCEPT !.pressure = TRUE] /\ fresh' = fresh \cup {"pressure"}
        /\ UNCHANGED <<sensor, sensorTask>>
    BY <1>4 DEF Sns!Pressure
  <2>2. PendingInv'
    BY <1>2, <2>1 DEF PendingInv, Sns!Kinds, Sns!TakenOnce
  <2> QED BY <1>1, <1>2, <2>1, <2>2
<1>5. CASE Sns!Tick
  <2>1. /\ readings' = [readings EXCEPT !.temperature = Sns!None, !.scale = FALSE,
                                        !.pressure = FALSE]
        /\ fresh' = {} /\ UNCHANGED <<sensor, sensorTask>>
    BY <1>5 DEF Sns!Tick, Sns!TakePending
  <2>2. /\ readings' \in [temperature : Readings, fault : BOOLEAN, scale : BOOLEAN,
                          pressure : BOOLEAN]
        /\ readings'.temperature = Sns!None /\ readings'.scale = FALSE
        /\ readings'.pressure = FALSE /\ readings'.fault = readings.fault
    BY <1>2, <2>1 DEF Readings
  <2>3. PendingInv'
    BY <2>1, <2>2 DEF PendingInv, Sns!Kinds, Sns!TakenOnce
  <2> QED BY <1>1, <2>1, <2>2, <2>3
<1>6. CASE UNCHANGED sensingVars
  BY <1>1, <1>6 DEF PendingInv, Sns!TakenOnce, sensingVars
<1> QED BY <1>3, <1>4, <1>5, <1>6, TsicKeeps, DallasKeeps DEF Sns!Next

LEMMA SensingStarts ==
  ASSUME Sns!Init
  PROVE  SensingInv /\ PendingInv
PROOF
<1>1. /\ sensor \in {"tsic", "ds18b20"} /\ fresh = {} /\ readings = Sns!NothingPending
      /\ sensorTask = [filter |-> <<>>, lastOk |-> 0, errors |-> 0, faulty |-> FALSE]
  BY DEF Sns!Init
<1>2. <<>> \in Seq(Fresh) /\ Len(<<>>) = 0
  BY EmptySeq
<1>3. 0 \in Times /\ 0 \in Errors
  BY SensingNumbers DEF Times, Errors
<1>4. /\ sensorTask \in [filter : Seq(Fresh), lastOk : Times, errors : Errors, faulty : BOOLEAN]
      /\ sensorTask.filter = <<>> /\ sensorTask.lastOk = 0 /\ sensorTask.errors = 0
  BY <1>1, <1>2, <1>3
<1>5. Sns!OutageShown
  <2>1. ~(0 > SilenceMax) /\ ~(0 > ErrorsMax) /\ ~(0 > DallasMax)
    BY SensingNumbers
  <2>2. CASE sensor = "tsic"
    BY <1>4, <2>1, <2>2 DEF Sns!OutageShown
  <2>3. CASE sensor = "ds18b20"
    BY <1>4, <2>1, <2>3 DEF Sns!OutageShown
  <2> QED BY <1>1, <2>2, <2>3
<1>6. PendingInv
  BY <1>1 DEF PendingInv, Readings, Sns!NothingPending, Sns!TakenOnce
<1> QED BY <1>1, <1>2, <1>4, <1>5, <1>6 DEF SensingInv

(* What the control loop takes was never seen by a disturbed frame alone,  *)
(* is not from before an outage, and is taken once; every tick of an       *)
(* outage is told of it (tsic_task and ds18b20_task, firmware/src/         *)
(* sensors.rs, and SpikeFilter, crates/tsic).                              *)
THEOREM ReadingsAreTrue == DeviceSpec => []ReadingsTrue
PROOF
<1> DEFINE Inv == SensingInv /\ PendingInv
<1>1. DeviceInit => Inv
  BY PartsStart, SensingStarts
<1>2. Inv /\ [DeviceNext]_deviceVars => Inv'
  BY PartsStep, SensingSteps
<1>3. Inv => ReadingsTrue
  <2> SUFFICES ASSUME Inv PROVE ReadingsTrue
    OBVIOUS
  <2>1. /\ readings.temperature \in Readings
        /\ readings.fault \in BOOLEAN /\ readings.scale \in BOOLEAN /\ readings.pressure \in BOOLEAN
    BY DEF PendingInv
  <2>2. /\ readings.temperature.right = TRUE /\ readings.temperature.old = FALSE
        /\ readings.temperature = Sns!None
           \/ readings.temperature \in [right : BOOLEAN, old : BOOLEAN]
    <3>1. CASE readings.temperature = Sns!None
      BY <3>1 DEF Sns!None
    <3>2. CASE readings.temperature \in [right : {TRUE}, old : {FALSE}]
      BY <3>2
    <3> QED BY <2>1, <3>1, <3>2 DEF Readings
  <2>3. sensorTask.filter \in Sns!BoundedSeq(Sns!Frame, 3)
    <3>1. /\ sensorTask.filter \in Seq(Fresh) /\ Len(sensorTask.filter) <= 3
          /\ Len(sensorTask.filter) \in Nat
      BY LenProperties DEF SensingInv
    <3>2. sensorTask.filter \in [1 .. Len(sensorTask.filter) -> Fresh]
      BY <3>1, LenProperties
    <3>3. Fresh \subseteq Sns!Frame
      BY DEF Fresh, Sns!Frame
    <3>4. sensorTask.filter \in [1 .. Len(sensorTask.filter) -> Sns!Frame]
      BY <3>2, <3>3
    <3>5. Len(sensorTask.filter) \in 0 .. 3
      <4>1. PICK n \in Nat : n = Len(sensorTask.filter)
        BY <3>1, Zenon
      <4>2. n <= 3
        BY <3>1, <4>1
      <4>3. n \in 0 .. 3
        BY <4>2
      <4> QED BY <4>1, <4>3
    <3> QED BY <3>4, <3>5 DEF Sns!BoundedSeq, Sns!SeqOf
  <2>4. sensorTask \in [filter : Sns!BoundedSeq(Sns!Frame, 3), lastOk : Times, errors : Errors,
                        faulty : BOOLEAN]
    BY <2>3 DEF SensingInv
  <2>5. Sns!TypeOK
    BY <2>1, <2>2, <2>4 DEF SensingInv, PendingInv, Sns!TypeOK, Times, Errors
  <2>6. Sns!LoneSpikeDropped /\ Sns!OldReadingsForgotten
    BY <2>2 DEF Sns!LoneSpikeDropped, Sns!OldReadingsForgotten
  <2> QED BY <2>5, <2>6 DEF ReadingsTrue, SensingInv, PendingInv
<1> QED BY <1>1, <1>2, <1>3, PTL DEF DeviceSpec

-----------------------------------------------------------------------------
(* The session with a Bluetooth scale: what is left until the next         *)
(* heartbeat and the time since the last one are together a period.        *)
Ats == {"scanning", "connecting", "session", "pause", "ended"}
Packets == 0 .. MaxPacketPeriod + 1
Beats == 0 .. HeartbeatPeriod \cup 0 .. Pause
Sessions(kinds) == [at : Ats, kind : kinds, packet : Packets, beat : Beats]
SessionInv ==
  /\ session \in Sessions({session.kind})
  /\ finder \in [scanning : BOOLEAN, found : BOOLEAN]
  /\ session.at # "ended" => connected = (session.at = "session")
  /\ session.at = "scanning" => finder.scanning = TRUE \/ finder.found = TRUE
  /\ session.at = "session" =>
       /\ session.beat \in 0 .. HeartbeatPeriod /\ beaten \in Nat
       /\ Ble!NeedsHeartbeat(session.kind) => beaten + session.beat <= HeartbeatPeriod
       /\ ~Ble!NeedsHeartbeat(session.kind) => beaten = 0

LEMMA SessionNumbers ==
  HeartbeatPeriod \in Nat \ {0} /\ Pause \in Nat \ {0} /\ MaxPacketPeriod \in Nat
PROOF
<1> QED BY DeviceConstants DEF Ble!SessionConstants

(* The task leaves its session, or has none, and waits. *)
LEMMA PauseKeeps ==
  ASSUME SessionInv, NEW time \in 1 .. Pause, session' = Ble!Paused(time),
         connected' = FALSE, finder' = finder
  PROVE  SessionInv'
PROOF
<1>0. PICK none : none = ""
  OBVIOUS
<1>1. session' = [at |-> "pause", kind |-> none, packet |-> 0, beat |-> time]
  <2>1. session' = [[at |-> "scanning", kind |-> none, packet |-> 0, beat |-> 0]
                      EXCEPT !.at = "pause", !.beat = time]
    BY <1>0, Zenon DEF Ble!Paused, Ble!Looking
  <2> QED BY <2>1
<1>2. /\ session'.at = "pause" /\ session'.kind = none
      /\ session' \in Sessions({none})
  BY <1>1, SessionNumbers DEF Sessions, Ats, Packets, Beats
<1>3. finder' \in [scanning : BOOLEAN, found : BOOLEAN]
  BY DEF SessionInv
<1> QED BY <1>2, <1>3 DEF SessionInv

LEMMA SessionSteps ==
  ASSUME SessionInv, [Ble!Next]_sessionVars
  PROVE  SessionInv'
PROOF
<1>1. /\ session \in Sessions({session.kind})
      /\ session.at \in Ats /\ session.packet \in Packets /\ session.beat \in Beats
      /\ finder \in [scanning : BOOLEAN, found : BOOLEAN]
      /\ session.at # "ended" => connected = (session.at = "session")
      /\ session.at = "scanning" => finder.scanning = TRUE \/ finder.found = TRUE
  BY DEF SessionInv, Sessions
<1>2. 1 \in 1 .. Pause /\ Pause \in 1 .. Pause
  BY SessionNumbers
<1>3. CASE Ble!Advertised
  <2>1. /\ finder' = [scanning |-> FALSE, found |-> TRUE]
        /\ UNCHANGED <<session, connected, beaten>>
    BY <1>3 DEF Ble!Advertised
  <2> QED BY <2>1 DEF SessionInv
<1>4. CASE Ble!ScanFails
  <2>1. /\ session' = Ble!Paused(Pause) /\ finder' = finder /\ connected' = FALSE
    BY <1>1, <1>4 DEF Ble!ScanFails
  <2> QED BY <1>2, <2>1, PauseKeeps
<1>5. CASE Ble!Found
  <2>1. /\ session.at = "scanning" /\ session' = [session EXCEPT !.at = "connecting"]
        /\ finder' = [finder EXCEPT !.found = FALSE] /\ UNCHANGED <<connected, beaten>>
    BY <1>5 DEF Ble!Found
  <2>2. /\ session' \in Sessions({session.kind})
        /\ session'.at = "connecting" /\ session'.kind = session.kind
    BY <1>1, <2>1 DEF Sessions, Ats
  <2>3. finder' \in [scanning : BOOLEAN, found : BOOLEAN]
    BY <1>1, <2>1
  <2> QED BY <1>1, <2>1, <2>2, <2>3 DEF SessionInv
<1>6. ASSUME NEW offered \in Ble!Offers, Ble!Connects(offered) PROVE SessionInv'
  <2>1. PICK k : k = Head(Ble!Probe(offered))
    OBVIOUS
  <2>2. /\ session' = [at |-> "session", kind |-> k, packet |-> 0, beat |-> HeartbeatPeriod]
        /\ connected' = TRUE /\ beaten' = 0 /\ finder' = finder
    BY <1>6, <2>1 DEF Ble!Connects
  <2>3. /\ session' \in Sessions({k}) /\ session'.kind = k
        /\ session'.at = "session" /\ session'.beat = HeartbeatPeriod
    BY <2>2, SessionNumbers DEF Sessions, Ats, Packets, Beats
  <2>4. /\ HeartbeatPeriod \in 0 .. HeartbeatPeriod
        /\ beaten' + HeartbeatPeriod <= HeartbeatPeriod
    BY <2>2, SessionNumbers
  <2>5. finder' \in [scanning : BOOLEAN, found : BOOLEAN] /\ connected' = (session'.at = "session")
    BY <1>1, <2>2, <2>3
  <2> QED BY <2>2, <2>3, <2>4, <2>5 DEF SessionInv
<1>7. CASE Ble!ConnectFails \/ Ble!Disconnected
  <2>1. session' = Ble!Paused(1) /\ connected' = FALSE /\ finder' = finder
    BY <1>7 DEF Ble!ConnectFails, Ble!Disconnected, Ble!Ends
  <2> QED BY <1>2, <2>1, PauseKeeps
<1>8. CASE Ble!Weighed
  <2>1. /\ session.at = "session" /\ session' = [session EXCEPT !.packet = 0]
        /\ UNCHANGED <<finder, connected, beaten>>
    BY <1>8 DEF Ble!Weighed
  <2>2. /\ session' \in Sessions({session.kind})
        /\ session'.at = "session" /\ session'.kind = session.kind
        /\ session'.beat = session.beat
    BY <1>1, <2>1, SessionNumbers DEF Sessions, Packets
  <2> QED BY <1>1, <2>1, <2>2 DEF SessionInv
<1>9. CASE Ble!Deadline
  <2>1. CASE session.packet > MaxPacketPeriod
    <3>1. session' = Ble!Paused(1) /\ connected' = FALSE /\ finder' = finder
      BY <1>9, <2>1 DEF Ble!Deadline, Ble!Ends
    <3> QED BY <1>2, <3>1, PauseKeeps
  <2>2. CASE ~(session.packet > MaxPacketPeriod)
    <3>1. /\ session.at = "session" /\ session' = [session EXCEPT !.beat = HeartbeatPeriod]
          /\ Ble!NeedsHeartbeat(session.kind) => beaten' = 0
          /\ ~Ble!NeedsHeartbeat(session.kind) => beaten' = beaten
          /\ UNCHANGED <<finder, connected>>
      BY <1>9, <2>2 DEF Ble!Deadline
    <3>2. /\ session' \in Sessions({session.kind})
          /\ session'.at = "session" /\ session'.kind = session.kind
          /\ session'.beat = HeartbeatPeriod
      BY <1>1, <3>1, SessionNumbers DEF Sessions, Beats
    <3> QED BY <1>1, <3>1, <3>2, SessionNumbers DEF SessionInv
  <2> QED BY <2>1, <2>2
<1>10. CASE Ble!LooksAgain
  <2>0. PICK none : none = ""
    OBVIOUS
  <2>1. /\ session' = [at |-> "scanning", kind |-> none, packet |-> 0, beat |-> 0]
        /\ session.at = "pause"
        /\ finder' = [finder EXCEPT !.scanning = TRUE] /\ UNCHANGED <<connected, beaten>>
    BY <1>10, <2>0, Zenon DEF Ble!LooksAgain, Ble!Looking
  <2>2. /\ session' \in Sessions({none}) /\ session'.kind = none /\ session'.at = "scanning"
    BY <2>1, SessionNumbers DEF Sessions, Ats, Packets, Beats
  <2>3. finder' \in [scanning : BOOLEAN, found : BOOLEAN] /\ finder'.scanning = TRUE
    BY <1>1, <2>1
  <2> QED BY <1>1, <2>1, <2>2, <2>3 DEF SessionInv
<1>11. CASE Ble!Clock /\ session.at = "pause"
  <2>1. CASE session.beat > 1 /\ session' = [session EXCEPT !.beat = @ - 1]
             /\ UNCHANGED <<finder, connected, beaten>>
    <3>1. session.beat - 1 \in Beats
      BY <1>1, <2>1, SessionNumbers DEF Beats
    <3>2. /\ session' \in Sessions({session.kind})
          /\ session'.at = "pause" /\ session'.kind = session.kind
      BY <1>1, <1>11, <2>1, <3>1 DEF Sessions
    <3> QED BY <1>1, <1>11, <2>1, <3>2 DEF SessionInv
  <2> QED BY <1>10, <1>11, <2>1 DEF Ble!Clock
<1>12. CASE Ble!Clock /\ session.at = "session"
  <2>1. /\ session.beat # 0 /\ ~(session.packet > MaxPacketPeriod)
        /\ session' = [session EXCEPT !.packet = @ + 1, !.beat = @ - 1]
        /\ Ble!NeedsHeartbeat(session.kind) => beaten' = beaten + 1
        /\ ~Ble!NeedsHeartbeat(session.kind) => beaten' = 0
        /\ UNCHANGED <<finder, connected>>
    BY <1>12 DEF Ble!Clock, Ble!LooksAgain, Ble!Overdue
  <2>2. /\ session.beat \in 0 .. HeartbeatPeriod /\ beaten \in Nat
        /\ Ble!NeedsHeartbeat(session.kind) => beaten + session.beat <= HeartbeatPeriod
        /\ ~Ble!NeedsHeartbeat(session.kind) => beaten = 0
    BY <1>12 DEF SessionInv
  <2>3. /\ session.packet + 1 \in Packets
        /\ session.beat - 1 \in 0 .. HeartbeatPeriod /\ session.beat - 1 \in Beats
    BY <1>1, <2>1, <2>2, SessionNumbers DEF Packets, Beats
  <2>4. /\ session' \in Sessions({session.kind})
        /\ session'.at = "session" /\ session'.kind = session.kind
        /\ session'.beat = session.beat - 1
    BY <1>1, <1>12, <2>1, <2>3 DEF Sessions
  <2>5. /\ beaten' \in Nat
        /\ Ble!NeedsHeartbeat(session.kind) => beaten' + session'.beat <= HeartbeatPeriod
    BY <2>1, <2>2, <2>3, <2>4, SessionNumbers
  <2> QED BY <1>1, <2>1, <2>3, <2>4, <2>5 DEF SessionInv
<1>13. CASE UNCHANGED sessionVars
  BY <1>13 DEF SessionInv, sessionVars
<1>15. CASE Ble!RunnerEnds
  <2>0. PICK none : none = ""
    OBVIOUS
  <2>1. /\ session' = [[at |-> "scanning", kind |-> none, packet |-> 0, beat |-> 0]
                        EXCEPT !.at = "ended"]
        /\ finder' = finder
    BY <1>15, <2>0, Zenon DEF Ble!RunnerEnds, Ble!Looking
  <2>2. session' = [at |-> "ended", kind |-> none, packet |-> 0, beat |-> 0]
    BY <2>1
  <2>3. session' \in Sessions({none}) /\ session'.kind = none /\ session'.at = "ended"
    BY <2>2, SessionNumbers DEF Sessions, Ats, Packets, Beats
  <2> QED BY <1>1, <2>1, <2>3 DEF SessionInv
<1>16. CASE Ble!Over
  BY <1>16 DEF Ble!Over, Ble!vars, SessionInv
<1>14. Ble!Clock => session.at = "pause" \/ session.at = "session"
  BY DEF Ble!Clock, Ble!LooksAgain
<1> QED BY <1>3, <1>4, <1>5, <1>6, <1>7, <1>8, <1>9, <1>11, <1>12, <1>13, <1>14, <1>15,
          <1>16 DEF Ble!Next

(* An Acaia scale has its heartbeat in time, however many packets come in  *)
(* between, and a task that looks for a scale can be told of one           *)
(* (session, firmware/src/ble_scale.rs).                                   *)
THEOREM HeartbeatAlwaysKept == DeviceSpec => []SessionKept
PROOF
<1>1. DeviceInit => SessionInv
  <2> SUFFICES ASSUME Ble!Init PROVE SessionInv
    BY PartsStart
  <2>0. PICK none : none = ""
    OBVIOUS
  <2>1. /\ session = [at |-> "scanning", kind |-> none, packet |-> 0, beat |-> 0]
        /\ finder = [scanning |-> TRUE, found |-> FALSE] /\ connected = FALSE
    BY <2>0, Zenon DEF Ble!Init, Ble!Looking
  <2>2. session \in Sessions({none}) /\ session.kind = none /\ session.at = "scanning"
    BY <2>1, SessionNumbers DEF Sessions, Ats, Packets, Beats
  <2> QED BY <2>1, <2>2 DEF SessionInv
<1>2. SessionInv /\ [DeviceNext]_deviceVars => SessionInv'
  BY PartsStep, SessionSteps
<1>3. SessionInv => SessionKept
  <2> SUFFICES ASSUME SessionInv PROVE Ble!TypeOK /\ Ble!HeartbeatKept /\ Ble!CanBeFound
    BY DEF SessionKept
  <2>1. /\ session.at \in Ats /\ session.packet \in Packets /\ session.beat \in Beats
    BY DEF SessionInv, Sessions
  <2>2. Ble!TypeOK
    BY <2>1 DEF SessionInv, Ble!TypeOK, Ats, Packets, Beats
  <2>3. Ble!HeartbeatKept
    BY SessionNumbers DEF SessionInv, Ble!HeartbeatKept
  <2>4. Ble!CanBeFound
    BY DEF SessionInv, Ble!CanBeFound
  <2> QED BY <2>2, <2>3, <2>4
<1> QED BY <1>1, <1>2, <1>3, PTL DEF DeviceSpec

-----------------------------------------------------------------------------
(* The temperature control, for all gains, limits, setpoints and smoothing *)
(* factors.  Output and integrator stay in the heater's range, and a limit *)
(* is in force, whatever is set between the ticks (Pid::compute,           *)
(* set_integrator_limits).                                                 *)
Tunings == [gains : Regular \cup {Brewing, Steaming}, on : Hea!Proportional]
Pids == [tunings : Tunings, limit : Limits \cup {NewLimit}, automatic : BOOLEAN,
         integrator : 0 .. OutMax, lastInput : Int, filtered : Int, output : 0 .. OutMax,
         age : 0 .. SampleTicks]

(* No limit in force is empty. *)
HeatInv ==
  /\ gains \in Hea!Settings
  /\ mode \in {"regular", "brew", "steam"} /\ heat \in BOOLEAN
  /\ input \in Hea!Inputs /\ setpoint \in {Setpoint, SteamSetpoint}
  /\ pid \in Pids /\ pid.limit > 0

LEMMA SmoothedInt ==
  ASSUME Hea!HeatingConstants, NEW p \in Pids, NEW x \in Int
  PROVE  Hea!Smoothed(p, x) \in Int
PROOF
<1>1. Alpha \in Int /\ Parts \in Nat \ {0} /\ p.filtered \in Int
  BY DEF Hea!HeatingConstants, Pids
<1>2. Alpha * p.filtered \in Int /\ (Parts - Alpha) * x \in Int
  BY <1>1
<1> QED BY <1>1, <1>2 DEF Hea!Smoothed

LEMMA GainsNat ==
  ASSUME Hea!HeatingConstants, NEW p \in Pids
  PROVE  /\ p.tunings.gains.kp \in Nat /\ p.tunings.gains.ki \in Nat /\ p.tunings.gains.kd \in Nat
PROOF
<1> QED BY DEF Hea!HeatingConstants, Pids, Tunings, Hea!Gains

(* Each operation of the controller gives a controller. *)
LEMMA SettersKeep ==
  ASSUME Hea!HeatingConstants, NEW p \in Pids, p.limit > 0, NEW t \in Tunings,
         NEW l \in Limits, NEW x \in Int
  PROVE  /\ Hea!SetTunings(p, t) \in Pids /\ Hea!SetTunings(p, t).limit = p.limit
         /\ Hea!SetIntegratorLimits(p, l) \in Pids /\ Hea!SetIntegratorLimits(p, l).limit > 0
         /\ Hea!SetAutomatic(p, x) \in Pids /\ Hea!SetAutomatic(p, x).limit = p.limit
         /\ Hea!SetManual(p) \in Pids /\ Hea!SetManual(p).limit = p.limit
         /\ Hea!Aged(p) \in Pids /\ Hea!Aged(p).limit = p.limit
PROOF
<1>c. OutMax \in Nat /\ OutMax > 0 /\ SampleTicks \in Nat /\ l \in Nat
  BY DEF Hea!HeatingConstants
<1>1. Hea!SetTunings(p, t) \in Pids /\ Hea!SetTunings(p, t).limit = p.limit
  <2> DEFINE i == IF t.gains.ki = 0 THEN 0 ELSE p.integrator
  <2>1. i \in 0 .. OutMax
    BY <1>c DEF Pids
  <2>2. Hea!SetTunings(p, t) = IF t = p.tunings THEN p
                           ELSE [p EXCEPT !.tunings = t, !.integrator = i]
    BY DEF Hea!SetTunings
  <2> HIDE DEF i
  <2> QED BY <2>1, <2>2 DEF Pids
<1>2. Hea!SetIntegratorLimits(p, l) \in Pids /\ Hea!SetIntegratorLimits(p, l).limit > 0
  <2>1. CASE l = 0
    BY <2>1 DEF Hea!SetIntegratorLimits
  <2>2. CASE l # 0
    <3> DEFINE i == IF p.automatic THEN Hea!Clamp(p.integrator, 0, l) ELSE p.integrator
    <3>1. i \in 0 .. OutMax
      BY <1>c DEF Hea!Clamp, Pids
    <3>2. Hea!SetIntegratorLimits(p, l) = [p EXCEPT !.limit = l, !.integrator = i]
      BY <2>2 DEF Hea!SetIntegratorLimits
    <3> HIDE DEF i
    <3>3. l > 0
      BY <2>2, <1>c
    <3> QED BY <3>1, <3>2, <3>3 DEF Pids
  <2> QED BY <2>1, <2>2
<1>3. Hea!SetAutomatic(p, x) \in Pids /\ Hea!SetAutomatic(p, x).limit = p.limit
  BY DEF Hea!SetAutomatic, Pids
<1>4. Hea!SetManual(p) \in Pids /\ Hea!SetManual(p).limit = p.limit
  <2>1. 0 \in 0 .. OutMax
    BY <1>c
  <2> QED BY <2>1 DEF Hea!SetManual, Pids
<1>5. Hea!Aged(p) \in Pids /\ Hea!Aged(p).limit = p.limit
  <2> DEFINE a == IF p.age = SampleTicks THEN p.age ELSE p.age + 1
  <2>1. a \in 0 .. SampleTicks
    BY <1>c DEF Pids
  <2>2. Hea!Aged(p) = [p EXCEPT !.age = a]
    BY DEF Hea!Aged, Pids
  <2> HIDE DEF a
  <2> QED BY <2>1, <2>2 DEF Pids
<1> QED BY <1>1, <1>2, <1>3, <1>4, <1>5

LEMMA OnErrorKeeps ==
  ASSUME Hea!HeatingConstants, NEW p \in Pids, p.limit > 0, NEW x \in Int, NEW target \in Int
  PROVE  LET n == Hea!OnError(p, x, target)
         IN  /\ n \in Pids /\ n.limit = p.limit /\ n.tunings = p.tunings
             /\ n.integrator \in 0 .. p.limit
             /\ n.output = Hea!Clamp(p.tunings.gains.kp * (target - x) + n.integrator
                                  - p.tunings.gains.kd * (Hea!Smoothed(p, x) - p.filtered), 0, OutMax)
PROOF
<1> DEFINE g == p.tunings.gains
           error == target - x
           rise == Hea!Smoothed(p, x) - p.filtered
           sum == IF Hea!Integrates(p, error) THEN p.integrator + g.ki * error ELSE p.integrator
           i == Hea!Clamp(Hea!Clamp(sum, 0, OutMax), 0, p.limit)
           o == Hea!Clamp(g.kp * error + i - g.kd * rise, 0, OutMax)
<1>1. /\ error \in Int /\ rise \in Int /\ g.kp \in Nat /\ g.ki \in Nat /\ g.kd \in Nat
      /\ p.integrator \in Nat /\ OutMax \in Nat /\ p.limit \in Nat
  <2>1. error \in Int /\ p.integrator \in Nat /\ p.limit \in Nat /\ OutMax \in Nat
    <3>1. OutMax \in Nat /\ Limits \cup {NewLimit} \subseteq Nat
      BY DEF Hea!HeatingConstants
    <3>2. p.integrator \in 0 .. OutMax /\ p.limit \in Limits \cup {NewLimit}
      BY DEF Pids
    <3> QED BY <3>1, <3>2
  <2>2. g.kp \in Nat /\ g.ki \in Nat /\ g.kd \in Nat
    BY GainsNat
  <2>3. Hea!Smoothed(p, x) \in Int /\ p.filtered \in Int
    BY SmoothedInt DEF Pids
  <2> QED BY <2>1, <2>2, <2>3
<1> HIDE DEF error, rise, g
<1>2. g.ki * error \in Int /\ g.kp * error \in Int /\ g.kd * rise \in Int
  BY <1>1
<1>3. sum \in Int
  BY <1>1, <1>2
<1> HIDE DEF sum
<1>4. Hea!Clamp(sum, 0, OutMax) \in 0 .. OutMax
  BY <1>1, <1>3 DEF Hea!Clamp
<1>5. i \in 0 .. p.limit /\ i \in 0 .. OutMax
  BY <1>1, <1>4 DEF Hea!Clamp
<1> HIDE DEF i
<1>6. o \in 0 .. OutMax
  BY <1>1, <1>2, <1>5 DEF Hea!Clamp
<1>7. Hea!OnError(p, x, target) = [p EXCEPT !.integrator = i, !.output = o]
  BY DEF Hea!OnError, Hea!Rise, i, o, sum, g, error, rise
<1> HIDE DEF o
<1>8. /\ Hea!OnError(p, x, target) \in Pids /\ Hea!OnError(p, x, target).limit = p.limit
      /\ Hea!OnError(p, x, target).tunings = p.tunings
      /\ Hea!OnError(p, x, target).integrator = i /\ Hea!OnError(p, x, target).output = o
  BY <1>5, <1>6, <1>7 DEF Pids
<1> QED BY <1>5, <1>8 DEF o, g, error, rise

LEMMA OnMeasurementKeeps ==
  ASSUME Hea!HeatingConstants, NEW p \in Pids, NEW x \in Int, NEW target \in Int
  PROVE  /\ Hea!OnMeasurement(p, x, target) \in Pids /\ Hea!OnMeasurement(p, x, target).limit = p.limit
         /\ Hea!OnMeasurement(p, x, target).tunings = p.tunings
PROOF
<1> DEFINE g == p.tunings.gains
           error == target - x
           rise == x - p.lastInput
           i == Hea!Clamp(p.integrator + g.ki * error - g.kp * rise, 0, OutMax)
           o == Hea!Clamp(i - g.kd * rise, 0, OutMax)
<1>1. /\ error \in Int /\ rise \in Int /\ g.kp \in Nat /\ g.ki \in Nat /\ g.kd \in Nat
      /\ p.integrator \in Nat /\ OutMax \in Nat
  BY GainsNat DEF Pids, Hea!HeatingConstants
<1> HIDE DEF error, rise, g
<1>2. g.ki * error \in Int /\ g.kp * rise \in Int /\ g.kd * rise \in Int
  BY <1>1
<1>3. i \in 0 .. OutMax
  BY <1>1, <1>2 DEF Hea!Clamp
<1> HIDE DEF i
<1>4. o \in 0 .. OutMax
  BY <1>1, <1>2, <1>3 DEF Hea!Clamp
<1>5. Hea!OnMeasurement(p, x, target) = [p EXCEPT !.integrator = i, !.output = o]
  BY DEF Hea!OnMeasurement, i, o, g, error, rise
<1> HIDE DEF o
<1> QED BY <1>3, <1>4, <1>5 DEF Pids

LEMMA ComputeKeeps ==
  ASSUME Hea!HeatingConstants, NEW p \in Pids, p.limit > 0, NEW x \in Int, NEW target \in Int
  PROVE  Hea!Compute(p, x, target) \in Pids /\ Hea!Compute(p, x, target).limit = p.limit
PROOF
<1> DEFINE c == IF p.tunings.on = "OnError" THEN Hea!OnError(p, x, target)
                                           ELSE Hea!OnMeasurement(p, x, target)
<1>1. c \in Pids /\ c.limit = p.limit
  BY OnErrorKeeps, OnMeasurementKeeps
<1>2. Hea!Smoothed(p, x) \in Int /\ 0 \in 0 .. SampleTicks
  BY SmoothedInt DEF Hea!HeatingConstants
<1>3. Hea!Compute(p, x, target) = IF p.age < SampleTicks THEN p
        ELSE [c EXCEPT !.filtered = Hea!Smoothed(p, x), !.lastInput = x, !.age = 0]
  BY DEF Hea!Compute
<1> HIDE DEF c
<1> QED BY <1>1, <1>2, <1>3 DEF Pids

-----------------------------------------------------------------------------
LEMMA HeatStarts == Hea!HeatingConstants /\ Hea!Init => HeatInv
PROOF
<1> SUFFICES ASSUME Hea!HeatingConstants, Hea!Init PROVE HeatInv
  OBVIOUS
<1> DEFINE new == Hea!NewPid(Hea!RegularTunings(gains))
<1>1. gains \in Hea!Settings /\ gains.limit \in Limits
  BY DEF Hea!Init, Hea!Settings
<1>2. Hea!RegularTunings(gains) \in Tunings
  BY <1>1 DEF Hea!RegularTunings, Tunings, Hea!Proportional, Hea!Settings
<1>3. new \in Pids /\ new.limit > 0
  BY <1>2 DEF Hea!NewPid, Pids, Hea!HeatingConstants
<1>4. 0 \in Int
  OBVIOUS
<1> HIDE DEF new
<1>5. Hea!SetIntegratorLimits(new, gains.limit) \in Pids
      /\ Hea!SetIntegratorLimits(new, gains.limit).limit > 0
  BY <1>1, <1>2, <1>3, <1>4, SettersKeep
<1> QED BY <1>1, <1>5 DEF Hea!Init, HeatInv, new

LEMMA TuningsAreTunings ==
  ASSUME NEW m \in {"regular", "brew", "steam"}, NEW s \in Hea!Settings
  PROVE  Hea!TuningsFor(m, s) \in Tunings
PROOF
<1> QED BY DEF Hea!TuningsFor, Hea!RegularTunings, Tunings, Hea!Proportional, Hea!Settings

(* What a tick makes of the controller, in its order. *)
LEMMA Ticked ==
  ASSUME Hea!HeatingConstants, HeatInv, NEW m \in {"regular", "brew", "steam"}, NEW raw \in Temps,
         NEW heats \in BOOLEAN, Hea!ControlTemperature(m, raw, heats)
  PROVE  /\ input' \in Int /\ input' \in Hea!Inputs
         /\ setpoint' \in Int /\ setpoint' \in {Setpoint, SteamSetpoint}
         /\ mode' = m /\ heat' = heats
         /\ \E p \in Pids :
              /\ p.limit > 0 /\ p.age > 0
              /\ p.automatic = pid.automatic /\ p.filtered = pid.filtered
              /\ pid' = IF heats THEN Hea!Compute(Hea!SetAutomatic(p, input'), input', setpoint')
                                 ELSE Hea!SetManual(p)
PROOF
<1>1. /\ input' \in Int /\ input' \in Hea!Inputs
      /\ setpoint' \in Int /\ setpoint' \in {Setpoint, SteamSetpoint}
      /\ mode' = m /\ heat' = heats
  BY DEF Hea!ControlTemperature, Hea!HeatingConstants, Hea!Inputs
<1> DEFINE aged == Hea!Aged(pid)
           tuned == Hea!SetTunings(aged, Hea!TuningsFor(m, gains))
           limited == Hea!SetIntegratorLimits(tuned, gains.limit)
<1>2. Hea!TuningsFor(m, gains) \in Tunings /\ gains.limit \in Limits /\ pid \in Pids
      /\ pid.limit > 0
  BY TuningsAreTunings DEF HeatInv, Hea!Settings
<1>3. aged \in Pids /\ aged.limit > 0 /\ aged.age > 0
      /\ aged.automatic = pid.automatic /\ aged.filtered = pid.filtered
  <2>1. aged.automatic = pid.automatic /\ aged.filtered = pid.filtered
    BY <1>2 DEF Hea!Aged, Pids
  <2>2. aged.age > 0
    BY <1>2 DEF Hea!Aged, Pids, Hea!HeatingConstants
  <2> QED BY <1>1, <1>2, <2>1, <2>2, SettersKeep
<1> HIDE DEF aged
<1>4. tuned \in Pids /\ tuned.limit > 0 /\ tuned.age > 0
      /\ tuned.automatic = pid.automatic /\ tuned.filtered = pid.filtered
  <2>1. tuned.automatic = pid.automatic /\ tuned.filtered = pid.filtered /\ tuned.age > 0
    BY <1>3 DEF Hea!SetTunings, Pids
  <2> QED BY <1>1, <1>2, <1>3, <2>1, SettersKeep
<1> HIDE DEF tuned
<1>5. limited \in Pids /\ limited.limit > 0 /\ limited.age > 0
      /\ limited.automatic = pid.automatic /\ limited.filtered = pid.filtered
  <2>1. limited.automatic = pid.automatic /\ limited.filtered = pid.filtered /\ limited.age > 0
    BY <1>4 DEF Hea!SetIntegratorLimits, Pids
  <2> QED BY <1>1, <1>2, <1>4, <2>1, SettersKeep
<1>6. pid' = IF heats THEN Hea!Compute(Hea!SetAutomatic(limited, input'), input', setpoint')
                      ELSE Hea!SetManual(limited)
  BY DEF Hea!ControlTemperature, limited, tuned, aged
<1> QED BY <1>1, <1>5, <1>6

LEMMA HeatSteps ==
  Hea!HeatingConstants /\ HeatInv /\ [Hea!Next]_heatingVars => HeatInv'
PROOF
<1> SUFFICES ASSUME Hea!HeatingConstants, HeatInv, [Hea!Next]_heatingVars PROVE HeatInv'
  OBVIOUS
<1>1. CASE Hea!Tick
  <2>1. PICK m \in {"regular", "brew", "steam"}, raw \in Temps, heats \in BOOLEAN :
          Hea!ControlTemperature(m, raw, heats)
    BY <1>1 DEF Hea!Tick
  <2>2. PICK p \in Pids :
          /\ p.limit > 0
          /\ pid' = IF heats THEN Hea!Compute(Hea!SetAutomatic(p, input'), input', setpoint')
                             ELSE Hea!SetManual(p)
    BY <2>1, Ticked
  <2>3. /\ input' \in Int /\ input' \in Hea!Inputs
        /\ setpoint' \in Int /\ setpoint' \in {Setpoint, SteamSetpoint}
        /\ mode' = m /\ heat' = heats
    BY <2>1, Ticked
  <2>4. PICK l \in Limits, t \in Tunings : TRUE
    BY <2>1, TuningsAreTunings DEF HeatInv, Hea!Settings
  <2>5. Hea!SetAutomatic(p, input') \in Pids /\ Hea!SetAutomatic(p, input').limit > 0
    BY <2>2, <2>3, <2>4, SettersKeep
  <2>6. Hea!SetManual(p) \in Pids /\ Hea!SetManual(p).limit > 0
    BY <2>2, <2>3, <2>4, SettersKeep
  <2>7. pid' \in Pids /\ pid'.limit > 0
    BY <2>2, <2>3, <2>5, <2>6, ComputeKeeps
  <2> QED BY <1>1, <2>1, <2>3, <2>7 DEF HeatInv, Hea!Tick
<1>2. CASE Hea!ParameterWritten
  <2>1. gains' \in Hea!Settings
    BY <1>2 DEF Hea!ParameterWritten, HeatInv, Hea!Settings
  <2> QED BY <1>2, <2>1 DEF Hea!ParameterWritten, HeatInv
<1>3. CASE UNCHANGED heatingVars
  BY <1>3 DEF heatingVars, HeatInv
<1> QED BY <1>1, <1>2, <1>3 DEF Hea!Next

-----------------------------------------------------------------------------
(* P outweighs the integrator, and D does not push back. *)
LEMMA NothingLeft ==
  ASSUME NEW kp \in Nat, NEW kd \in Nat, NEW over \in Int, NEW i \in Int, NEW l \in Int,
         NEW rise \in Int, kp * over >= l, i <= l, rise >= 0
  PROVE  /\ kp * (-over) + i - kd * rise \in Int
         /\ kp * (-over) + i - kd * rise <= 0
PROOF
<1>1. kp * (-over) = -(kp * over) /\ kp * over \in Int
  OBVIOUS
<1>2. kd * rise \in Nat
  OBVIOUS
<1> QED BY <1>1, <1>2

LEMMA SampleIsOff ==
  ASSUME Hea!HeatingConstants, NEW p \in Pids, p.limit > 0, NEW x \in Int, NEW target \in Int,
         p.tunings.on = "OnError", p.tunings.gains.kp * (x - target) >= p.limit,
         Hea!Smoothed(p, x) >= p.filtered
  PROVE  Hea!OnError(p, x, target).output = 0
PROOF
<1> DEFINE n == Hea!OnError(p, x, target)
           kp == p.tunings.gains.kp
           kd == p.tunings.gains.kd
           rise == Hea!Smoothed(p, x) - p.filtered
<1>1. /\ n.integrator \in 0 .. p.limit
      /\ n.output = Hea!Clamp(kp * (target - x) + n.integrator - kd * rise, 0, OutMax)
  BY OnErrorKeeps
<1>2. kp \in Nat /\ kd \in Nat
  BY GainsNat
<1>3. p.limit \in Int /\ p.filtered \in Int /\ OutMax \in Nat
  <2>1. OutMax \in Nat /\ Limits \cup {NewLimit} \subseteq Nat
    BY DEF Hea!HeatingConstants
  <2>2. p.limit \in Limits \cup {NewLimit} /\ p.filtered \in Int
    BY DEF Pids
  <2> QED BY <2>1, <2>2
<1>4. rise \in Int /\ rise >= 0
  BY <1>3, SmoothedInt
<1>5. n.integrator \in Int /\ n.integrator <= p.limit
  BY <1>1, <1>3
<1> DEFINE over == x - target
<1>6. kp * over >= p.limit /\ over \in Int /\ target - x = -over
  OBVIOUS
<1> HIDE DEF over, rise, kp, kd, n
<1> DEFINE sum == kp * (-over) + n.integrator - kd * rise
<1>7. sum \in Int /\ sum <= 0
  BY <1>2, <1>3, <1>4, <1>5, <1>6, NothingLeft
<1>8. n.output = Hea!Clamp(sum, 0, OutMax)
  BY <1>1, <1>6
<1> HIDE DEF sum
<1> QED BY <1>3, <1>7, <1>8 DEF Hea!Clamp, n

LEMMA StepIsOff ==
  ASSUME Hea!HeatingConstants, HeatInv, Hea!Next, Hea!TooHotSample
  PROVE  pid'.output = 0
PROOF
<1>1. Hea!Tick
  BY DEF Hea!Next, Hea!ParameterWritten, Hea!TooHotSample
<1>2. PICK m \in {"regular", "brew", "steam"}, raw \in Temps, heats \in BOOLEAN :
        Hea!ControlTemperature(m, raw, heats)
  BY <1>1 DEF Hea!Tick
<1>3. PICK p \in Pids :
        /\ p.limit > 0 /\ p.age > 0
        /\ p.automatic = pid.automatic /\ p.filtered = pid.filtered
        /\ pid' = IF heats THEN Hea!Compute(Hea!SetAutomatic(p, input'), input', setpoint')
                           ELSE Hea!SetManual(p)
  BY <1>2, Ticked
<1>4. input' \in Int /\ setpoint' \in Int
  BY <1>2, Ticked
<1>5. CASE ~heats
  BY <1>3, <1>5 DEF Hea!SetManual, Pids
<1>6. CASE heats
  <2> DEFINE q == Hea!SetAutomatic(p, input')
  <2>1. PICK l \in Limits, t \in Tunings : TRUE
    BY <1>2, TuningsAreTunings DEF HeatInv, Hea!Settings
  <2>2. q \in Pids /\ q.limit > 0
    BY <1>3, <1>4, <2>1, SettersKeep
  <2>3. q.filtered = IF pid.automatic THEN pid.filtered ELSE input'
    BY <1>3 DEF Hea!SetAutomatic, Pids
  <2> HIDE DEF q
  <2>4. pid' = Hea!Compute(q, input', setpoint')
    BY <1>3, <1>6 DEF q
  <2>5. CASE q.age < SampleTicks
    <3>1. pid' = q
      BY <2>4, <2>5 DEF Hea!Compute
    <3>2. q.age = 0
      BY <3>1 DEF Hea!TooHotSample
    <3>3. q.age = p.age
      BY <1>3 DEF Hea!SetAutomatic, Pids, q
    <3> QED BY <3>2, <3>3, <1>3
  <2>6. CASE ~(q.age < SampleTicks)
    <3> DEFINE c == IF q.tunings.on = "OnError" THEN Hea!OnError(q, input', setpoint')
                                                 ELSE Hea!OnMeasurement(q, input', setpoint')
    <3>1. c \in Pids /\ c.limit = q.limit /\ c.tunings = q.tunings
      BY <1>4, <2>2, OnErrorKeeps, OnMeasurementKeeps
    <3>2. pid' = [c EXCEPT !.filtered = Hea!Smoothed(q, input'), !.lastInput = input', !.age = 0]
      BY <2>4, <2>6 DEF Hea!Compute
    <3> HIDE DEF c
    <3>3. /\ pid'.output = c.output /\ pid'.tunings = q.tunings /\ pid'.limit = q.limit
          /\ pid'.filtered = Hea!Smoothed(q, input')
      BY <3>1, <3>2 DEF Pids
    <3>4. /\ q.tunings.on = "OnError"
          /\ q.tunings.gains.kp * (input' - setpoint') >= q.limit
          /\ Hea!Smoothed(q, input') >= q.filtered
      BY <3>3, <2>3 DEF Hea!TooHotSample
    <3>5. c = Hea!OnError(q, input', setpoint')
      BY <3>4 DEF c
    <3> QED BY <3>3, <3>4, <3>5, <1>4, <2>2, SampleIsOff
  <2> QED BY <2>5, <2>6
<1> QED BY <1>5, <1>6

LEMMA HeatSample ==
  Hea!HeatingConstants /\ HeatInv /\ [Hea!Next]_heatingVars
    => [Hea!TooHotSample => pid'.output = 0]_Hea!heatingVars
PROOF
<1> QED BY StepIsOff DEF heatingVars, Hea!heatingVars

(* A boiler so hot that P outweighs the integrator, and not cooling, gets  *)
(* no heat from the next sample (Pid::compute), for all gains and limits,  *)
(* whatever came before.                                                   *)
THEOREM TooHotAlwaysOff == DeviceSpec => HeatEnds
PROOF
<1>1. DeviceInit => HeatInv
  BY PartsStart, DeviceConstants, HeatStarts
<1>2. HeatInv /\ [DeviceNext]_deviceVars => HeatInv'
  BY PartsStep, DeviceConstants, HeatSteps
<1>3. HeatInv /\ [DeviceNext]_deviceVars => [Hea!TooHotSample => pid'.output = 0]_Hea!heatingVars
  BY PartsStep, DeviceConstants, HeatSample
<1>4. HeatInv => Hea!TypeOK
  BY DEF HeatInv, Hea!TypeOK, Pids, Tunings
<1> QED BY <1>1, <1>2, <1>3, <1>4, PTL DEF DeviceSpec, HeatEnds, Hea!TooHotIsOff
=============================================================================

--------------------------- MODULE SwitchDebounce ---------------------------
(***************************************************************************)
(* A switch of the machine and the contact behind it (core/src/switch.rs). *)
(*                                                                         *)
(* A hand moves the contact; for up to Bounce after each move the pin      *)
(* reads anything, then the contact's level.  The control loop samples the *)
(* pin at irregular times, at most MaxGap apart, and debounces it.  Times  *)
(* are kept as ages, cut off where nothing asks for more.                  *)
(***************************************************************************)
EXTENDS Integers

CONSTANTS Debounce,   \* DEBOUNCE_MS
          LongPress,  \* LONG_PRESS_MS
          Bounce,     \* the longest time a contact bounces
          MaxGap      \* the longest time between two samples

ASSUME SwitchConstants ==
  /\ Debounce \in Nat
  /\ LongPress \in Nat
  /\ Bounce \in Nat
  /\ Bounce <= Debounce
  /\ MaxGap \in Nat \ {0}

VARIABLES contact,  \* held: where the hand has it; age: since when (negative: it
                    \* moves within the next gap); been: the positions it had
                    \* since the last edge reported; busy: since it last rested open
          switch    \* Switch

switchVars == <<contact, switch>>

(* A move is reported when the contact has had time to rest, to be sampled *)
(* and to outlast the debounce period.                                     *)
Late == Bounce + MaxGap + Debounce
Ages == -MaxGap .. Late + 1

Capped(age, limit) == IF age > limit THEN limit ELSE age

TypeOK ==
  /\ contact \in [held : BOOLEAN, age : Ages, been : SUBSET BOOLEAN, busy : 0 .. LongPress]
  /\ switch \in [kind : {"momentary", "toggle"}, mode : {"open", "closed"},
                 lastRaw : BOOLEAN, rawAge : 0 .. Debounce + 1,
                 pressed : BOOLEAN, pressedAge : 0 .. LongPress, settled : BOOLEAN]

(* A normally closed switch pulls the pin high while it rests. *)
Active(raw) == raw # (switch.mode = "closed")

New(kind, mode) ==
  [kind |-> kind, mode |-> mode, lastRaw |-> mode = "closed", rawAge |-> 0,
   pressed |-> FALSE, pressedAge |-> 0, settled |-> FALSE]

(* A mutant: a level that changes goes on with the period of the last one. *)
UpdateUnreset(raw, dt) ==
  LET age == Capped(switch.rawAge + dt, Debounce + 1)
      pressed == IF age > Debounce THEN Active(raw) ELSE switch.pressed
  IN  [switch EXCEPT !.lastRaw = raw, !.rawAge = age, !.pressed = pressed,
                     !.settled = @ \/ age > Debounce,
                     !.pressedAge = IF pressed /\ switch.pressed
                                    THEN Capped(@ + dt, LongPress) ELSE 0]
(* Sampled dt after the last time.  A level that differs from the last one *)
(* restarts the period; one that has outlasted it counts.                  *)
Update(raw, dt) ==
  LET age == IF raw # switch.lastRaw THEN 0 ELSE Capped(switch.rawAge + dt, Debounce + 1)
      pressed == IF age > Debounce THEN Active(raw) ELSE switch.pressed
  IN  [switch EXCEPT !.lastRaw = raw, !.rawAge = age, !.pressed = pressed,
                     !.settled = @ \/ age > Debounce,
                     !.pressedAge = IF pressed /\ switch.pressed
                                    THEN Capped(@ + dt, LongPress) ELSE 0]

(* Toggle switches never long-press. *)
IsLongPress == switch.kind = "momentary" /\ switch.pressed /\ switch.pressedAge >= LongPress

-----------------------------------------------------------------------------
Init ==
  /\ \E kind \in {"momentary", "toggle"}, mode \in {"open", "closed"} : switch = New(kind, mode)
  /\ \E held \in BOOLEAN : contact = [held |-> held, age |-> Late + 1, been |-> {held}, busy |-> 0]

(* The hand moves the contact, so long after the last sample. *)
Move(after) == /\ contact' = [contact EXCEPT !.held = ~@, !.age = -after, !.been = BOOLEAN]
               /\ UNCHANGED switch

Sample(dt, raw) ==
  LET age == Capped(contact.age + dt, Late + 1)
  IN  /\ age >= 0
      /\ age > Bounce => Active(raw) = contact.held
      /\ switch' = Update(raw, dt)
      /\ contact' = [contact EXCEPT !.age = age,
                       !.been = IF switch'.pressed # switch.pressed THEN {contact.held} ELSE @,
                       !.busy = IF ~contact.held /\ age > Late THEN 0
                                ELSE Capped(@ + dt, LongPress)]

Next == \/ \E after \in 0 .. MaxGap : Move(after)
        \/ \E dt \in 1 .. MaxGap, raw \in BOOLEAN : Sample(dt, raw)

Spec == Init /\ [][Next]_switchVars

-----------------------------------------------------------------------------
(* However a contact bounces, no edge is reported that the hand did not    *)
(* make: a level becomes the switch's only if the contact has been there   *)
(* since the last edge.  One press starts one shot, or one reboot.         *)
EdgesAreMoves ==
  [][switch'.pressed # switch.pressed => switch'.pressed \in contact.been]_switchVars

(* A contact that rests is reported as it is, within the debounce period   *)
(* and two samples.                                                        *)
FollowsContact == contact.age > Late /\ switch.settled => switch.pressed = contact.held

(* A long press lasted: the contact has not been at rest for LongPress,    *)
(* however many presses there were before.                                 *)
LongIsHeld == IsLongPress => contact.busy >= LongPress

(* What the machine is told of a switch is true, and told in time. *)
SwitchTells == [](FollowsContact /\ LongIsHeld) /\ EdgesAreMoves

(* The invariant of the proofs.  A level that would be an edge and is not  *)
(* where the contact has been is bounce, and younger than the last move.   *)
Bouncing ==
  Active(switch.lastRaw) # switch.pressed /\ Active(switch.lastRaw) \notin contact.been
    => contact.age <= Bounce /\ switch.rawAge <= contact.age
Resting ==
  contact.age > Bounce =>
     \/ ~switch.settled
     \/ /\ Active(switch.lastRaw) = contact.held
        /\ \/ switch.rawAge > Debounce
           \/ switch.rawAge >= contact.age - Bounce - MaxGap
Reported == switch.rawAge > Debounce => switch.pressed = Active(switch.lastRaw)
Held == switch.pressed => switch.settled /\ switch.pressedAge <= contact.busy
SwitchInv == TypeOK /\ contact.held \in contact.been /\ Bouncing /\ Resting /\ Reported /\ Held
=============================================================================

------------------------------- MODULE Timers -------------------------------
(***************************************************************************)
(* Ages and the standby countdown (src/crates/core/src/timers.rs).         *)
(*                                                                         *)
(* The code keeps the instant something began and compares the difference  *)
(* to now with a threshold.  The model keeps that difference, the age, and *)
(* stops it one past the largest threshold it is compared with, which      *)
(* leaves every comparison unchanged.                                      *)
(***************************************************************************)
EXTENDS Integers

CONSTANTS DisplayOff,   (* DISPLAY_OFF_AFTER_STANDBY_MS                     *)
          Horizon       (* bound: no threshold in the model is larger       *)

ASSUME TimersAssumption == DisplayOff \in Nat /\ Horizon \in Nat

(* The Option<u64> that holds nothing. *)
None == -1

Age(limit) == None..(limit + 1)

Aged(age, limit) == IF age = None \/ age > limit THEN age ELSE age + 1

\* Mutant: the subtraction does not saturate.
PlainSub(a, b) == a - b

SaturatingSub(a, b) == IF a > b THEN a - b ELSE 0

(* age: since the last reset; remaining and display as in the code. *)
StandbyTimer == [age: Age(Horizon), remaining: Nat, display: Nat]

StandbyDefault == [age |-> None, remaining |-> 0, display |-> 0]

Reset(t, cfg) ==
  IF cfg.standbyEnabled
    THEN [age |-> 0, remaining |-> cfg.standbyTime, display |-> DisplayOff]
    ELSE t

\* Mutant: nothing starts the countdown but activity.
ArmNever(t, cfg) == t

Arm(t, cfg) == IF t.age = None THEN Reset(t, cfg) ELSE t

Expire(t) == [t EXCEPT !.remaining = 0]

Update(t, cfg) ==
  IF t.age = None \/ ~cfg.standbyEnabled THEN t
  ELSE IF t.remaining # 0
    THEN [t EXCEPT !.remaining = SaturatingSub(cfg.standbyTime, t.age)]
    ELSE [t EXCEPT !.display = SaturatingSub(cfg.standbyTime + DisplayOff, t.age)]

ShouldEnter(t, cfg) == cfg.standbyEnabled /\ t.age # None /\ t.remaining = 0

=============================================================================

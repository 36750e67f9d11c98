------------------------------- MODULE Update -------------------------------
(***************************************************************************)
(* What a firmware update promises (docs/decisions/0005, ota.rs): an image *)
(* replaces the other at once or not at all.  However it gets there, the   *)
(* device goes over only to a slot whose image is complete, and only by a  *)
(* boot; and it always has an image to boot.                               *)
(***************************************************************************)
EXTENDS Integers

VARIABLES
  running,        (* the slot that was booted                               *)
  active,         (* the slot the next boot is to start                     *)
  good            (* the slots that hold a complete image                   *)

vars == <<running, active, good>>

Slot == {0, 1}
Other(slot) == 1 - slot

Init == running \in Slot /\ active = running /\ good = {running}

(* The slot that does not run is being written, and complete in the end.   *)
Write ==
  /\ good' \in {good \ {Other(running)}, good \cup {Other(running)}}
  /\ UNCHANGED <<running, active>>

(* Only a complete image is activated.                                     *)
Activate ==
  /\ Other(running) \in good
  /\ active' = Other(running)
  /\ UNCHANGED <<running, good>>

(* A restart or a power cut; an image spoilt since is not started.         *)
Boot ==
  /\ running' = IF active \in good THEN active ELSE Other(active)
  /\ running' \in good
  /\ UNCHANGED <<active, good>>

Next == Write \/ Activate \/ Boot

Spec == Init /\ [][Next]_vars

=============================================================================

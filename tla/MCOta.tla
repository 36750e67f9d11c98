-------------------------------- MODULE MCOta --------------------------------
(***************************************************************************)
(* Instances of Ota for TLC: two workers, slots of two sectors of two      *)
(* units; an upload may be one unit too large.                             *)
(***************************************************************************)
EXTENDS Ota

TwoWorkers == {"w1", "w2"}

=============================================================================

------------------------------ MODULE MCScreen ------------------------------
(***************************************************************************)
(* Screen for TLC.  The readings: a low battery, one that is new but too   *)
(* low, and a good one that is too close to it to count as new.            *)
(***************************************************************************)
EXTENDS Screen

MCVolts == {2800, 3050, 3120}
=============================================================================

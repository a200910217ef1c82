------------------------------- MODULE MCMoto -------------------------------
(***************************************************************************)
(* Instance of Moto for TLC: a travel of two steps has both limits and a   *)
(* position between them.                                                  *)
(***************************************************************************)
EXTENDS Moto

MCStroke == 2
=============================================================================

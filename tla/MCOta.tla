------------------------------- MODULE MCOta -------------------------------
(***************************************************************************)
(* Ota for TLC.                                                            *)
(***************************************************************************)
EXTENDS Ota
=============================================================================

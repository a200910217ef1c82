------------------------------ MODULE MCRxRing ------------------------------
(***************************************************************************)
(* Instances of RxRing for TLC: the sizes of the Wi-Fi link, 1543 and      *)
(* 1207, and of the TDS sensor, 75 and 75, brought down to a few cells.    *)
(***************************************************************************)
EXTENDS RxRing

TwoBytes == {1, 2}
=============================================================================

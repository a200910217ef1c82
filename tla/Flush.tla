------------------------------- MODULE Flush -------------------------------
(***************************************************************************)
(* What the motor (applications/moto.c) promises to the rest of the        *)
(* firmware.  A request is accepted or answered with EXIT; a cycle that is *)
(* under way ends only together with an outcome for the backwash window.   *)
(* Two weaknesses of the code are part of the promise: a late overload     *)
(* check reports STALLING although the cycle is over, and a dwell timer    *)
(* that nobody stopped puts an idle motor to work again.                   *)
(*                                                                         *)
(* Moto implements this specification; Backwash relies on it.              *)
(***************************************************************************)

VARIABLES
  working,          \* a cycle is under way
  MotoWorkStatus,   \* TRUE while the motor is paused (firmware update)
  LowVoltageFlag,   \* TRUE while the battery is low
  sent              \* the bit of lcd_jump_event the last step set, or "none"

gates == <<MotoWorkStatus, LowVoltageFlag>>
vars == <<working, gates, sent>>

Outcomes == {"TDS", "STALLING", "FINISH", "NOMOTO"}

Accepts == ~working /\ ~MotoWorkStatus /\ ~LowVoltageFlag

\* Moto_Cycle returns RT_EOK.
Start == /\ Accepts
         /\ working' = TRUE
         /\ sent' = "none"
         /\ UNCHANGED gates

\* Moto_Cycle returns RT_ERROR.
Refuse == /\ ~Accepts
          /\ sent' = "EXIT"
          /\ UNCHANGED <<working, gates>>

\* The plunger is at its right limit.
Turn == /\ working
        /\ sent' = "BACK"
        /\ UNCHANGED <<working, gates>>

\* The cycle is complete, or given up.
End == /\ sent' \in Outcomes
       /\ working \/ sent' = "STALLING"
       /\ working' = FALSE
       /\ UNCHANGED gates

\* A dwell timer left over from an earlier cycle expires.
Revive == /\ working' = TRUE
          /\ sent' = "none"
          /\ UNCHANGED gates

\* Moto_Pause, Moto_Resume and the battery supervision; the steps that only
\* the motor sees.
Gate == /\ MotoWorkStatus' \in BOOLEAN /\ LowVoltageFlag' \in BOOLEAN
        /\ sent' = "none"
        /\ UNCHANGED working

Init == /\ working = FALSE
        /\ MotoWorkStatus = FALSE /\ LowVoltageFlag \in BOOLEAN
        /\ sent = "none"

Next == Start \/ Refuse \/ Turn \/ End \/ Revive \/ Gate

Spec == Init /\ [][Next]_vars
=============================================================================

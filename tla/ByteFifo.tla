------------------------------ MODULE ByteFifo ------------------------------
(***************************************************************************)
(* What the service threads expect of a receive queue: the bytes of the    *)
(* serial line in order, none twice, and none refused while fewer than     *)
(* Capacity of them are waiting.                                           *)
(***************************************************************************)
EXTENDS Naturals, Sequences

CONSTANTS Bytes, Capacity

VARIABLES
  pending,   \* received and not yet taken
  hand,      \* the byte taken last
  refused    \* the byte received last was not stored

fifoVars == <<pending, hand, refused>>

Init == pending = <<>> /\ hand = 0 /\ refused = FALSE

Store == /\ \E b \in Bytes : pending' = Append(pending, b)
         /\ refused' = FALSE
         /\ UNCHANGED hand

Refuse == /\ Len(pending) >= Capacity
          /\ refused' = TRUE
          /\ UNCHANGED <<pending, hand>>

Take == /\ pending # <<>>
        /\ hand' = Head(pending)
        /\ pending' = Tail(pending)
        /\ UNCHANGED refused

Next == Store \/ Refuse \/ Take

Spec == Init /\ [][Next]_fifoVars
=============================================================================

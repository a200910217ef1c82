------------------------------- MODULE RxRing -------------------------------
(***************************************************************************)
(* The receive queue of the serial links: uart/uart_core.c for the Wi-Fi   *)
(* module and, with the same code and other sizes, tds_service.c for the   *)
(* TDS sensor.  The thread that reads the line stores bytes, a service     *)
(* thread of lower priority takes them: storing is one step, taking may be *)
(* interrupted by it between any two accesses to a pointer.  There is no   *)
(* lock.                                                                   *)
(*                                                                         *)
(* Pointers are offsets into the buffer and may be one past its end; both  *)
(* are wrapped when they are used next, not when they get there.           *)
(***************************************************************************)
EXTENDS Naturals, Sequences

CONSTANTS
  Size,    \* sizeof(wifi_uart_rx_buf)
  Limit,   \* sizeof(wifi_data_process_buf), which bounds the bytes stored
  Bytes

ASSUME RingAssumption == Size \in Nat \ {0} /\ Limit \in Nat \ {0}

VARIABLES
  rx_buf, queue_in, queue_out,
  pc,        \* where the service thread is in its loop and Queue_Read_Byte
  byte,      \* what it has loaded
  value,     \* what Queue_Read_Byte returned last
  refused    \* the byte received last was not stored

ring == <<rx_buf, queue_in, queue_out, pc, byte, value, refused>>

\* The bytes in the queue, and where the i-th of them is.
Waiting == IF queue_in >= queue_out THEN queue_in - queue_out
                                    ELSE (Size - queue_out) + queue_in
Cell(i) == IF queue_out + i > Size THEN (queue_out + i) - (Size + 1)
                                   ELSE (queue_out + i) - 1
Content == [i \in 1..Waiting |-> rx_buf[Cell(i)]]

-----------------------------------------------------------------------------
(* The thread that reads the line.                                          *)

\* Faulty variant: the gap behind the reader is not kept.
Full_Late == queue_in > queue_out /\ queue_in - queue_out >= Limit

\* The two early exits, both commented "queue full".
Full == \/ queue_out = queue_in + 1
        \/ queue_in > queue_out /\ queue_in - queue_out >= Limit

\* Faulty variant: wrapped one cell early.
Slot_Early == IF queue_in + 1 >= Size THEN 0 ELSE queue_in

\* Where the next byte goes.
Slot == IF queue_in >= Size THEN 0 ELSE queue_in

receive_input(b) ==
  /\ \/ /\ Full
        /\ refused' = TRUE
        /\ UNCHANGED <<rx_buf, queue_in>>
     \/ /\ ~Full
        /\ refused' = FALSE
        /\ rx_buf' = [rx_buf EXCEPT ![Slot] = b]
        /\ queue_in' = Slot + 1
  /\ UNCHANGED <<queue_out, pc, byte, value>>

-----------------------------------------------------------------------------
(* The service thread.                                                      *)

\* The loop finds the queue not empty.
get_queue_total_data ==
  /\ pc = "loop"
  /\ queue_in # queue_out
  /\ pc' = "call"
  /\ UNCHANGED <<rx_buf, queue_in, queue_out, byte, value, refused>>

\* Queue_Read_Byte tests again and wraps its pointer; an empty queue yields 0.
Wrap ==
  /\ pc = "call"
  /\ queue_out' = IF queue_out # queue_in /\ queue_out >= Size THEN 0 ELSE queue_out
  /\ pc' = IF queue_out # queue_in THEN "read" ELSE "loop"
  /\ value' = IF queue_out # queue_in THEN value ELSE 0
  /\ UNCHANGED <<rx_buf, queue_in, byte, refused>>

\* value = *queue_out++: the compiler may load before it stores the pointer ...
Load ==
  /\ pc = "read"
  /\ byte' = rx_buf[queue_out]
  /\ pc' = "advance"
  /\ UNCHANGED <<rx_buf, queue_in, queue_out, value, refused>>

Advance ==
  /\ pc = "advance"
  /\ queue_out' = queue_out + 1
  /\ value' = byte
  /\ pc' = "loop"
  /\ UNCHANGED <<rx_buf, queue_in, byte, refused>>

\* ... or after it.
AdvanceFirst ==
  /\ pc = "read"
  /\ queue_out' = queue_out + 1
  /\ pc' = "load"
  /\ UNCHANGED <<rx_buf, queue_in, byte, value, refused>>

LoadAfter ==
  /\ pc = "load"
  /\ value' = rx_buf[queue_out - 1]
  /\ pc' = "loop"
  /\ UNCHANGED <<rx_buf, queue_in, queue_out, byte, refused>>

-----------------------------------------------------------------------------
RingInit ==
  /\ rx_buf \in [0..(Size - 1) -> {0}]
  /\ queue_in = 0 /\ queue_out = 0
  /\ pc = "loop" /\ byte = 0 /\ value = 0 /\ refused = FALSE

RingNext ==
  \/ \E b \in Bytes : receive_input(b)
  \/ get_queue_total_data \/ Wrap \/ Load \/ Advance \/ AdvanceFirst \/ LoadAfter

RingSpec == RingInit /\ [][RingNext]_ring

-----------------------------------------------------------------------------
(* Properties.                                                              *)

RingTypeOK ==
  /\ rx_buf \in [0..(Size - 1) -> Bytes \cup {0}]
  /\ queue_in \in 0..Size /\ queue_out \in 0..Size
  /\ pc \in {"loop", "call", "read", "advance", "load"}
  /\ byte \in Bytes \cup {0} /\ value \in Bytes \cup {0}
  /\ refused \in BOOLEAN

\* The queue never fills up to the byte that would make queue_in meet queue_out,
\* which reads as an empty queue and forgets everything in it.
GapKept == Waiting < Size

\* A byte under way to the service thread is still in its cell, and the test of
\* get_queue_total_data still holds when Queue_Read_Byte relies on it.
ReadIsSafe ==
  /\ pc \in {"call", "read", "advance"} => queue_in # queue_out
  /\ pc \in {"read", "advance"} => queue_out < Size
  /\ pc = "advance" => byte = rx_buf[queue_out]
  /\ pc = "load" => queue_out > 0

\* What the code calls "not full" has room: one more byte does not bring queue_in
\* onto queue_out, which reads as an empty queue.
NotFullHasRoom == ~Full => Slot + 1 # queue_out

\* queue_in is 0 only before the first byte.
StartsEmpty == queue_in = 0 => queue_out = 0

RingInv == RingTypeOK /\ GapKept /\ ReadIsSafe /\ StartsEmpty

\* The byte taken last: its cell is loaded after queue_out has passed it, or before.
Handed == IF pc = "load" THEN rx_buf[queue_out - 1] ELSE value

Fifo == INSTANCE ByteFifo WITH
          Capacity <- Limit,
          pending <- Content,
          hand <- Handed

\* The queue is a queue of bytes, whatever the interleaving and the order of the
\* two accesses: nothing lost, repeated, overwritten or out of order, and nothing
\* refused while fewer than Limit bytes wait.
ImplementsFifo == Fifo!Spec
=============================================================================

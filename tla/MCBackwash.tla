----------------------------- MODULE MCBackwash -----------------------------
(***************************************************************************)
(* An instance of Backwash for TLC: all windows on a stack of four and two *)
(* threads that ask for a flush.  At most two bits of the event wait for   *)
(* the backwash window, for a third changes nothing, and one of the three  *)
(* faults stands for all, for the window treats them alike.                *)
(***************************************************************************)
EXTENDS Backwash, FiniteSets

SchedulerAndLink == {"rtc", "uart"}

\* Two bits that wait are handled as any larger set is, TDS and NOMOTO as STALLING.
FewEvents == /\ Cardinality(lcd_jump_event) <= 2
             /\ lcd_jump_event \cap {"TDS", "NOMOTO"} = {}

\* Two requests meet each other among the windows around the message Finish, and
\* the fourth place of the stack is for what covers the update window.
On(w) == \E i \in 1..Len(stack) : stack[i] = w
FinishWindows == {"win1", "win2", "win3", "win25"}
Focus == /\ pc["uart"] # "idle" => /\ ~battery /\ ~wifiTimer
                                   /\ \A w \in Windows \ FinishWindows : ~On(w)
         /\ Len(stack) = 4 => On("win31")
=============================================================================

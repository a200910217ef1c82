-------------------------------- MODULE Ota --------------------------------
(***************************************************************************)
(* The update over the air: the update window (UserMain31 in               *)
(* display/lcd_display.c), ota/wifi_ota.c and the update commands of       *)
(* uart/uart_core.c.                                                       *)
(*                                                                         *)
(* The window asks the Wi-Fi module for an update of itself, and then, or  *)
(* when the module has restarted with a new version, for one of the        *)
(* device.  The module reports a status, which the window shows, and sends *)
(* the image in blocks, each acknowledged before the next.  Some statuses  *)
(* do not let the user leave; a timer turns them into a failure.           *)
(*                                                                         *)
(* The module is the environment, as the code uses it: it goes on to the   *)
(* next block when one is acknowledged, sends again what is not, and may   *)
(* give up or restart; frames are lost in either direction.  The lcd       *)
(* thread, which shows the status, can be interrupted at every read of it. *)
(***************************************************************************)
EXTENDS Integers, Sequences

CONSTANTS
  Blocks,       \* blocks of the image
  Percent,      \* 100 in the code: steps of the progress
  LineLen,      \* bound: frames under way to the device
  MaxEnters,    \* bound: presses of Enter in the window
  MaxFaults     \* bound: frames lost and restarts of the module

ASSUME OtaAssumption ==
  Blocks \in Nat \ {0} /\ Percent \in Nat \ {0} /\ LineLen \in Nat \ {0}
  /\ MaxEnters \in Nat /\ MaxFaults \in Nat

VARIABLES
  window,               \* UserMain31 is on top, with PM_OTA_ID and the motor paused
  pass,                 \* where its input function is, and the status it has read
  enters,               \* Enters so far
  pending,              \* an Enter waits
  ota_status, now_status,
  now_progress, st_progress, wifi_progress,
  timer,                \* OTA_Timeout_Timer runs
  connected,            \* wifi_status is 4
  wifi_ota_update_flag,
  firm_update_flag,     \* a download has begun
  update_file_cur_size, \* in blocks
  flash,                \* the block in each place of the download partition
  module,               \* the module's step
  acked,                \* blocks acknowledged to the module
  line,                 \* frames to the device
  acks,                 \* acknowledgements to the module
  faults,
  late,                 \* history: a status came when the timer had stopped
  unerased,             \* history: the erasing has failed
  short                 \* history: an image was ended incomplete

view == <<window, pass, enters, pending, now_status, now_progress>>
state == <<ota_status, timer, wifi_progress, late>>
update == <<firm_update_flag, update_file_cur_size, flash, st_progress, unerased, short>>
radio == <<connected, wifi_ota_update_flag>>
peer == <<module, acked, line, acks, faults>>
vars == <<view, state, update, radio, peer>>

Statuses == {"Searching", "Murata_Downloading", "Murata_Download_Done",
  "Murata_Download_Error", "Murata_No_Update", "ST_Downloading", "ST_Download_Done",
  "ST_Download_Error", "ST_No_Update", "Network_Fail"}

\* The statuses the window cannot be left in.
Blocked == {"Murata_Downloading", "Murata_Download_Done", "Murata_No_Update",
            "ST_Downloading"}

\* The statuses that stop the timer.
Final == {"Murata_Download_Error", "ST_Download_Done", "ST_Download_Error",
          "ST_No_Update", "Network_Fail"}

Blank == -1             \* a place that is erased,
Spoiled == Blocks       \* and one that was written twice

Start == [at |-> "start", read |-> "none"]

-----------------------------------------------------------------------------
(* The window.                                                              *)

\* A request reaches the module or is lost; the flag and the timer are set.
wifi_ota_request(n) ==
  /\ timer' = TRUE
  /\ \/ module' = IF n = 1 THEN "asked1" ELSE "asked2"
     \/ UNCHANGED module

UserMain31WinFun ==
  /\ ~window /\ pass = Start /\ enters < MaxEnters
  /\ enters' = enters + 1
  /\ window' = TRUE
  /\ now_status' = "none" /\ ota_status' = "Searching"
  /\ UNCHANGED <<pass, pending, now_progress, timer, wifi_progress, late, update, radio,
                 peer>>

K2_Sem_Release ==
  /\ window /\ ~pending /\ enters < MaxEnters
  /\ enters' = enters + 1
  /\ pending' = TRUE
  /\ UNCHANGED <<window, pass, now_status, now_progress, state, update, radio, peer>>

\* Enter, judged by the status shown, then the progress, judged by the one reported.
\* The pass goes on when the window is closed.
PassEnter ==
  /\ window /\ pass = Start
  /\ pending' = FALSE
  /\ window' = ~(pending /\ now_status \notin Blocked)
  /\ \/ /\ ota_status = "Murata_Downloading" /\ now_progress # wifi_progress
        /\ timer' = TRUE /\ now_progress' = wifi_progress
     \/ /\ ota_status = "ST_Downloading" /\ now_progress # st_progress
        /\ timer' = TRUE /\ now_progress' = st_progress
     \/ /\ ~(ota_status = "Murata_Downloading" /\ now_progress # wifi_progress)
        /\ ~(ota_status = "ST_Downloading" /\ now_progress # st_progress)
        /\ UNCHANGED <<timer, now_progress>>
  /\ pass' = [at |-> "compare", read |-> "none"]
  /\ UNCHANGED <<enters, now_status, ota_status, wifi_progress, late, update, radio, peer>>

PassCompare ==
  /\ pass.at = "compare"
  /\ pass' = IF now_status # ota_status THEN [at |-> "draw", read |-> "none"] ELSE Start
  /\ UNCHANGED <<window, enters, pending, now_status, now_progress, state, update, radio,
                 peer>>

\* The status is read again when the screen has been cleared ...
PassDraw ==
  /\ pass.at = "draw"
  /\ now_status' = ota_status
  /\ pass' = [at |-> "switch", read |-> "none"]
  /\ UNCHANGED <<window, enters, pending, now_progress, state, update, radio, peer>>

\* ... and again, or not, as it is compiled, to choose what to do.
PassSwitch ==
  /\ pass.at = "switch"
  /\ pass' = [at |-> "act", read |-> ota_status]
  /\ UNCHANGED <<window, enters, pending, now_status, now_progress, state, update, radio,
                 peer>>

Search ==
  /\ pass.read = "Searching"
  /\ IF connected
     THEN wifi_ota_request(1) /\ wifi_ota_update_flag' = TRUE /\ UNCHANGED ota_status
     ELSE ota_status' = "Network_Fail" /\ UNCHANGED <<wifi_ota_update_flag, timer, module>>
  /\ UNCHANGED <<now_progress, wifi_progress, st_progress, late>>

ShowDownload ==
  /\ \/ pass.read = "Murata_Downloading" /\ wifi_progress' = 0 /\ UNCHANGED st_progress
     \/ pass.read = "ST_Downloading" /\ st_progress' = 0 /\ UNCHANGED wifi_progress
  /\ now_progress' = 0
  /\ UNCHANGED <<ota_status, timer, late, wifi_ota_update_flag, module>>

ShowWaiting ==
  /\ pass.read = "Murata_Download_Done" /\ pass.read \notin Final
  /\ UNCHANGED <<now_progress, wifi_progress, st_progress, ota_status, timer, late,
                 wifi_ota_update_flag, module>>

AskDevice ==
  /\ pass.read = "Murata_No_Update"
  /\ wifi_ota_request(2) /\ wifi_ota_update_flag' = TRUE
  /\ UNCHANGED <<ota_status, now_progress, wifi_progress, st_progress, late>>

\* The timer is stopped; a new status may have come since it was read.
StopTimer ==
  /\ pass.read \in Final
  /\ timer' = FALSE
  /\ late' = (late \/ ota_status \in Blocked \ {pass.read})
  /\ UNCHANGED <<ota_status, now_progress, wifi_progress, st_progress,
                 wifi_ota_update_flag, module>>

PassAct ==
  /\ pass.at = "act"
  /\ Search \/ ShowDownload \/ ShowWaiting \/ AskDevice \/ StopTimer
  /\ pass' = Start
  /\ UNCHANGED <<window, enters, pending, now_status, firm_update_flag,
                 update_file_cur_size, flash, unerased, short, connected, acked, line,
                 acks, faults>>

lcd_task == PassEnter \/ PassCompare \/ PassDraw \/ PassSwitch \/ PassAct

\* Faulty variant: the failure is not reported.
OTA_Timeout_Timer_Callback_Silent == timer /\ UNCHANGED vars

\* Two minutes without a sign of the module.  The timer goes on.
OTA_Timeout_Timer_Callback ==
  /\ timer
  /\ ota_status' = "Network_Fail"
  /\ UNCHANGED <<view, timer, wifi_progress, late, update, radio, peer>>

-----------------------------------------------------------------------------
(* What the device does with a frame.                                       *)

Got(type) == line # << >> /\ Head(line).type = type
Taken == line' = Tail(line)

update_control_parse ==
  /\ Got("status") /\ Taken
  /\ ota_status' = Head(line).arg
  /\ late' = (late \/ (ota_status' \in Blocked /\ ~timer))
  /\ UNCHANGED <<view, timer, wifi_progress, update, radio, module, acked, acks, faults>>

wifi_progress_update ==
  /\ Got("progress") /\ Taken
  /\ wifi_progress' = Head(line).arg
  /\ UNCHANGED <<view, ota_status, timer, late, update, radio, module, acked, acks, faults>>

\* The download begins whether or not the partition could be erased.
wifi_ota_begin ==
  /\ Got("begin") /\ Taken
  /\ firm_update_flag' = TRUE
  /\ update_file_cur_size' = 0
  /\ \/ flash' = [i \in 0..(Blocks - 1) |-> Blank] /\ unerased' = FALSE
     \/ unerased' = TRUE /\ UNCHANGED flash
  /\ UNCHANGED <<view, state, st_progress, short, radio, module, acked, acks, faults>>

\* Faulty variant: a block is written wherever the download has got to.
Accepted_Any(offset) == update_file_cur_size < Blocks

Accepted(offset) == update_file_cur_size = offset

\* Faulty variant: a block that was sent again is acknowledged again.
Answer_Again(good) == acks' = acks + 1

\* A block that is not written is not acknowledged.
Answer(good) == acks' = IF good THEN acks + 1 ELSE acks

Write(offset) ==
  /\ flash' = [flash EXCEPT ![update_file_cur_size] =
                             IF @ = Blank THEN offset ELSE Spoiled]
  /\ update_file_cur_size' = update_file_cur_size + 1
  /\ st_progress' = (update_file_cur_size' * Percent) \div Blocks

wifi_ota_receive ==
  /\ Got("block") /\ Taken
  /\ \/ /\ firm_update_flag /\ Accepted(Head(line).arg)
        /\ Write(Head(line).arg) /\ Answer(TRUE)
     \/ /\ firm_update_flag                   \* repeated, or the flash fails
        /\ Answer(FALSE)
        /\ UNCHANGED <<flash, update_file_cur_size, st_progress>>
     \/ /\ ~firm_update_flag
        /\ UNCHANGED <<flash, update_file_cur_size, st_progress, acks>>
  /\ UNCHANGED <<view, state, firm_update_flag, unerased, short, radio, module, acked,
                 faults>>

\* The end: the settings get their defaults and the device restarts, without an
\* answer and without a look at how much has come.
wifi_ota_end ==
  /\ Got("end")
  /\ IF firm_update_flag
     THEN /\ short' = (short \/ update_file_cur_size # Blocks)
          /\ window' = FALSE /\ pass' = Start /\ pending' = FALSE
          /\ now_status' = "none" /\ now_progress' = 0
          /\ ota_status' = "none" /\ timer' = FALSE /\ wifi_progress' = 0
          /\ firm_update_flag' = FALSE /\ update_file_cur_size' = 0 /\ st_progress' = 0
          /\ connected' = FALSE /\ wifi_ota_update_flag' = FALSE
          /\ line' = << >> /\ acks' = 0 /\ module' = "idle"
          /\ UNCHANGED <<enters, late, flash, unerased, acked, faults>>
     ELSE /\ Taken
          /\ UNCHANGED <<view, state, update, radio, module, acked, acks, faults>>

Handle ==
  update_control_parse \/ wifi_progress_update \/ wifi_ota_begin \/ wifi_ota_receive
    \/ wifi_ota_end

\* wifi_status_change: the module has reached the cloud.  After a request this asks
\* for an update of the device, and takes the flag back.
Connect ==
  /\ ~connected /\ connected' = TRUE
  /\ IF wifi_ota_update_flag THEN wifi_ota_request(2) ELSE UNCHANGED <<timer, module>>
  /\ wifi_ota_update_flag' = FALSE
  /\ UNCHANGED <<view, ota_status, wifi_progress, late, update, acked, line, acks, faults>>

-----------------------------------------------------------------------------
(* The module (external).                                                   *)

Send(type, arg) ==
  /\ Len(line) < LineLen
  /\ line' = Append(line, [type |-> type, arg |-> arg])

\* It reports a status and goes on to the step `next'.
Report(from, status, next) ==
  /\ module = from /\ Send("status", status) /\ module' = next
  /\ acked' = IF next = "begin" THEN 0 ELSE acked
  /\ UNCHANGED <<view, state, update, radio, acks, faults>>

ModuleReport ==
  \/ Report("asked1", "Murata_Downloading", "self")
  \/ Report("asked1", "Murata_No_Update", "idle")
  \/ Report("self", "Murata_Download_Done", "restart")
  \/ Report("self", "Murata_Download_Error", "idle")
  \/ Report("asked2", "ST_Downloading", "begin")
  \/ Report("asked2", "ST_No_Update", "idle")
  \/ Report("blocks", "ST_Download_Error", "idle")
  \/ Report("end", "ST_Download_Done", "idle")

ModuleProgress ==
  /\ module = "self" /\ Send("progress", 1)
  /\ UNCHANGED <<view, state, update, radio, module, acked, acks, faults>>

\* It restarts, with a new version or on its own.
ModuleRestart ==
  /\ connected /\ faults < MaxFaults
  /\ faults' = faults + 1
  /\ connected' = FALSE /\ module' = "idle" /\ line' = << >> /\ acks' = 0
  /\ UNCHANGED <<view, state, update, wifi_ota_update_flag, acked>>

ModuleBegin ==
  /\ module = "begin" /\ Send("begin", 0) /\ module' = "blocks" /\ acks' = 0
  /\ UNCHANGED <<view, state, update, radio, acked, faults>>

\* The next block, or the same one again.
ModuleBlock ==
  /\ module = "blocks" /\ acked < Blocks
  /\ Send("block", acked) /\ module' = "await"
  /\ UNCHANGED <<view, state, update, radio, acked, acks, faults>>

ModuleAgain ==
  /\ module = "await"
  /\ module' = "blocks"
  /\ UNCHANGED <<view, state, update, radio, acked, line, acks, faults>>

ModuleAck ==
  /\ module \in {"await", "blocks"} /\ acks > 0
  /\ acks' = acks - 1 /\ acked' = acked + 1 /\ module' = "blocks"
  /\ UNCHANGED <<view, state, update, radio, line, faults>>

ModuleEnd ==
  /\ module = "blocks" /\ acked = Blocks /\ Send("end", 0) /\ module' = "end"
  /\ UNCHANGED <<view, state, update, radio, acked, acks, faults>>

\* A frame is damaged.
Lose ==
  /\ faults < MaxFaults /\ faults' = faults + 1
  /\ \/ line # << >> /\ Taken /\ UNCHANGED acks
     \/ acks > 0 /\ acks' = acks - 1 /\ UNCHANGED line
  /\ UNCHANGED <<view, state, update, radio, module, acked>>

-----------------------------------------------------------------------------
Init ==
  /\ window = FALSE /\ pass = Start /\ enters = 0 /\ pending = FALSE
  /\ now_status = "none" /\ now_progress = 0
  /\ ota_status = "none" /\ timer = FALSE /\ wifi_progress = 0 /\ late = FALSE
  /\ firm_update_flag = FALSE /\ update_file_cur_size = 0 /\ st_progress = 0
  /\ flash = [i \in 0..(Blocks - 1) |-> Blank] /\ unerased = FALSE /\ short = FALSE
  /\ connected = FALSE /\ wifi_ota_update_flag = FALSE
  /\ module = "idle" /\ acked = 0 /\ line = << >> /\ acks = 0 /\ faults = 0

Module ==
  ModuleReport \/ ModuleProgress \/ ModuleRestart \/ ModuleBegin \/ ModuleBlock
    \/ ModuleAgain \/ ModuleAck \/ ModuleEnd

Next ==
  \/ UserMain31WinFun \/ K2_Sem_Release \/ lcd_task
  \/ OTA_Timeout_Timer_Callback \/ Handle \/ Connect \/ Module \/ Lose

Spec == Init /\ [][Next]_vars

\* The threads run and the timer fires.  Nothing is asked of the module.
FairSpec ==
  Spec /\ WF_vars(lcd_task) /\ WF_vars(Handle) /\ WF_vars(OTA_Timeout_Timer_Callback)

-----------------------------------------------------------------------------
(* Properties.                                                              *)

TypeOK ==
  /\ {window, pending, timer, connected, wifi_ota_update_flag, firm_update_flag, late,
      unerased, short} \subseteq BOOLEAN
  /\ {ota_status, now_status, pass.read} \subseteq Statuses \cup {"none"}
  /\ pass.at \in {"start", "compare", "draw", "switch", "act"}
  /\ update_file_cur_size \in 0..Blocks /\ acked \in Nat /\ acks \in Nat
  /\ flash \in [0..(Blocks - 1) -> -1..Blocks]

\* wifi_ota_receive writes every block at its place, whatever is lost or sent again,
\* unless wifi_ota_begin went on with a partition it could not erase.
ImageIntact ==
  TypeOK /\ (unerased \/ \A i \in 0..(update_file_cur_size - 1) : flash[i] = i)

\* The device never starts an image of which a part is missing, though wifi_ota_end
\* does not look: the module cannot be ahead of the device, unless a block of an
\* earlier download waits in the device with the status and the begin of the next
\* (LineLen > 2), for an acknowledgement does not say what it answers.
NeverShort == ~short

\* The user can leave the window in the end, whatever the module does: a status that
\* blocks Return has a timer that will replace it, unless it came after the timer
\* had been stopped.
BlockedEnds ==
  (window /\ now_status \in Blocked) ~> (~window \/ now_status \notin Blocked \/ late)
=============================================================================

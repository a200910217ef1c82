------------------------------ MODULE Backwash ------------------------------
(***************************************************************************)
(* The backwash window and the window stack (display/lcd_display.c,        *)
(* lcd_win/win_connect.c, uart/ap_connect.c and lkdGuiWin.c) with the      *)
(* threads that push windows and ask for a flush.                          *)
(*                                                                         *)
(* LcdtoBackwash starts the motor first and pushes userMain3Win            *)
(* afterwards, under lcd_mutex; the outcome of the cycle comes back as a   *)
(* bit of lcd_jump_event that only userMain3Win reads, and only while it   *)
(* is on top.  Drawing that window again (it is pushed, uncovered, or      *)
(* reloaded) clears the event and moto_done.                               *)
(*                                                                         *)
(* Everything done under lcd_mutex is one action.  The motor is the        *)
(* specification Flush, which Moto implements.  The windows in which none  *)
(* of this state changes are one window, "menu"; its keys open it, close   *)
(* it, or open the firmware update ("win31").                              *)
(***************************************************************************)
EXTENDS Naturals, SequencesExt

CONSTANTS
  Requesters,        \* the threads that call LcdtoBackwash, "rtc" among them
  Shown,             \* the windows that are used
  GUIWINMANAGE_NUM,  \* the size of the window stack
  Refreshes          \* bound on lcd_refresh_sem

ASSUME BackwashAssumption ==
  /\ {"win1", "win3"} \subseteq Shown
  /\ GUIWINMANAGE_NUM \in Nat \ {0}
  /\ Refreshes \in Nat \ {0}

VARIABLES
  stack,             \* winManage, the last window is on top
  lcd_jump_event,    \* the bits set and not yet received
  moto_done,         \* userMain3Win shows an outcome and may be left
  screen_reload,     \* the next wake-up starts from the main window
  lcd_refresh_sem,   \* wake-ups the lcd task has not served
  lcdOff,            \* LCD_Flag = 3
  pmOta,             \* PM_OTA_ID holds a request not to sleep
  DoneJump_Timer,    \* the timer that presses Enter for the user is active
  K2_Sem,            \* it has pressed Enter and no window has taken it
  wifiTimer,         \* wifi_connect_timer or wifi_connect_close_timer is active
  working, MotoWorkStatus, LowVoltageFlag, sent,   \* the motor, see Flush
  pc,                \* where a requester is in LcdtoBackwash or LcdtoReminder
  battery,           \* the timer thread has found the main window on top and
                     \* is about to push the battery message
  lost               \* history: the outcome of the last cycle was discarded

gui == <<stack, moto_done, screen_reload>>
power == <<lcd_refresh_sem, lcdOff, pmOta>>
timers == <<DoneJump_Timer, K2_Sem, wifiTimer>>
motor == <<working, MotoWorkStatus, LowVoltageFlag>>
vars == <<gui, lcd_jump_event, power, timers, motor, sent, pc, battery, lost>>

Motor == INSTANCE Flush

Windows == {"win1", "win2", "win3", "win25", "win26", "win31", "menu", "wifi"}
Outcomes == Motor!Outcomes
Events == Outcomes \cup {"BACK", "EXIT"}

GuiGetTopWin == Last(stack)

-----------------------------------------------------------------------------
(* lkdGuiWin.c.  The window function of the window that ends up on top runs *)
(* in the same call: that of userMain3Win clears moto_done and the event,   *)
(* that of userMain31Win pauses the motor.                                  *)

\* s becomes the stack and its top window is drawn.
Show(s) ==
  /\ stack' = s
  /\ MotoWorkStatus' = (MotoWorkStatus \/ Last(s) = "win31")
  /\ pmOta' = (pmOta \/ Last(s) = "win31")
  /\ lost' = IF Last(s) = "win3" THEN ~working' ELSE lost

\* UserMain3WinFun, if userMain3Win is drawn.
UserMain3WinFun(s) ==
  /\ moto_done' = (moto_done /\ Last(s) # "win3")
  /\ screen_reload' = (screen_reload \/ Last(s) = "win3")
  /\ lcd_jump_event' = IF Last(s) = "win3" THEN {} ELSE lcd_jump_event

\* Nothing is pushed on a full stack.
GuiWinAdd(w) ==
  \/ /\ Len(stack) < GUIWINMANAGE_NUM
     /\ Show(Append(stack, w))
     /\ UserMain3WinFun(Append(stack, w))
  \/ /\ Len(stack) >= GUIWINMANAGE_NUM
     /\ UNCHANGED <<gui, lcd_jump_event, MotoWorkStatus, pmOta, lost>>

\* The last window is never deleted.
GuiWinDeleteTop ==
  \/ /\ Len(stack) > 1
     /\ Show(Front(stack))
     /\ UserMain3WinFun(Front(stack))
  \/ /\ Len(stack) <= 1
     /\ UNCHANGED <<gui, lcd_jump_event, MotoWorkStatus, pmOta, lost>>

\* Faulty variant: the main window is added without GuiWinInit.
Home_NoInit == stack' = Append(stack, "win1")

\* GuiWinInit and the main window.
Home == stack' = <<"win1">>

-----------------------------------------------------------------------------
(* The lcd task.  A pass serves a wake-up first, then the window on top.    *)

\* A wake-up: the main window again, or the window that was shown before.
lcd_refresh_from_sleep ==
  /\ lcd_refresh_sem > 0
  /\ lcd_refresh_sem' = lcd_refresh_sem - 1
  /\ lcdOff' = FALSE
  /\ \/ screen_reload /\ Home
     \/ ~screen_reload /\ UNCHANGED stack
  /\ sent' = "none"
  /\ UNCHANGED <<moto_done, screen_reload, lcd_jump_event, pmOta, timers, motor,
                 pc, battery, lost>>

\* Faulty variant: a stalled motor leaves the window locked.
UserMain3Outcome_Locked(e) ==
  /\ screen_reload' = (e = "FINISH")
  /\ moto_done' = (e # "STALLING")
  /\ DoneJump_Timer' = (DoneJump_Timer \/ e = "FINISH")

\* An outcome is shown; Finish disappears by itself after three seconds.
UserMain3Outcome(e) ==
  /\ screen_reload' = (e = "FINISH")
  /\ moto_done' = TRUE
  /\ DoneJump_Timer' = (DoneJump_Timer \/ e = "FINISH")

\* UserMain3InputFun receives the event.  The switch has a case for single bits
\* only: bits that arrive together are cleared and none is shown.
UserMain3Event ==
  /\ lcd_refresh_sem = 0
  /\ GuiGetTopWin = "win3"
  /\ lcd_jump_event # {}
  /\ lcd_jump_event' = {}
  /\ \/ \E e \in Outcomes : /\ lcd_jump_event = {e}
                            /\ UserMain3Outcome(e)
                            /\ UNCHANGED <<stack, motor, pmOta, lost>>
     \/ /\ lcd_jump_event = {"BACK"}
        /\ UNCHANGED <<gui, motor, pmOta, DoneJump_Timer, lost>>
     \/ /\ lcd_jump_event = {"EXIT"}
        /\ UNCHANGED <<working, LowVoltageFlag, DoneJump_Timer>>
        /\ \/ Len(stack) > 1 /\ Show(Front(stack))
           \/ Len(stack) <= 1 /\ UNCHANGED <<stack, MotoWorkStatus, pmOta, lost>>
        /\ screen_reload' = TRUE
        /\ moto_done' = TRUE
     \/ /\ \A e \in Events : lcd_jump_event # {e}
        /\ lost' = (lost \/ lcd_jump_event \cap Outcomes # {})
        /\ UNCHANGED <<gui, motor, pmOta, DoneJump_Timer>>
  /\ sent' = "none"
  /\ UNCHANGED <<lcd_refresh_sem, lcdOff, K2_Sem, wifiTimer, pc, battery>>

\* LcdtoBackwash called by the lcd task, which holds lcd_mutex: no other window
\* comes between the motor and userMain3Win.
LcdtoBackwash ==
  \/ /\ Motor!Start
     /\ GuiWinAdd("win3")
  \/ /\ Motor!Refuse
     /\ lcd_jump_event' = lcd_jump_event \cup {"EXIT"}
     /\ UNCHANGED <<gui, pmOta, lost>>

\* Keys that only open or close windows.
Navigate ==
  /\ UNCHANGED <<working, LowVoltageFlag>>
  /\ \/ GuiGetTopWin = "win1" /\ \E w \in {"win2", "menu"} \cap Shown : GuiWinAdd(w)
     \/ GuiGetTopWin = "menu" /\ "win31" \in Shown /\ GuiWinAdd("win31")
     \/ GuiGetTopWin \in {"win2", "win26", "menu"} /\ GuiWinDeleteTop
     \/ GuiGetTopWin = "wifi" /\ UNCHANGED <<gui, lcd_jump_event, MotoWorkStatus, pmOta, lost>>
  /\ sent' = "none"

\* UserMain3InputFun: Enter leaves the window once an outcome is shown.
UserMain3Enter ==
  /\ GuiGetTopWin = "win3"
  /\ \/ moto_done /\ Home /\ screen_reload' = TRUE
     \/ ~moto_done /\ UNCHANGED <<stack, screen_reload>>
  /\ sent' = "none"
  /\ UNCHANGED <<moto_done, lcd_jump_event, motor, pmOta, lost>>

\* Faulty variant: the motor resumes although the window stays open.
UserMain31Enter_Stays ==
  /\ GuiGetTopWin = "win31"
  /\ MotoWorkStatus' = FALSE
  /\ sent' = "none"
  /\ UNCHANGED <<gui, lcd_jump_event, pmOta, lost, working, LowVoltageFlag>>

\* UserMain31InputFun, if no download is under way: Moto_Resume, the window
\* below, then the release of PM_OTA_ID.
UserMain31Enter ==
  /\ GuiGetTopWin = "win31"
  /\ Len(stack) > 1
  /\ stack' = Front(stack)
  /\ MotoWorkStatus' = (Last(Front(stack)) = "win31")
  /\ pmOta' = FALSE
  /\ lost' = IF Last(Front(stack)) = "win3" THEN ~working ELSE lost
  /\ UserMain3WinFun(Front(stack))
  /\ sent' = "none"
  /\ UNCHANGED <<working, LowVoltageFlag>>

\* What Enter does in the window on top.
Enter ==
  \/ Navigate
  \/ GuiGetTopWin \in {"win2", "win25"} /\ LcdtoBackwash
  \/ UserMain3Enter
  \/ UserMain31Enter

\* The user presses Enter, or leaves the reminder with Up.
UserKey ==
  /\ ~lcdOff /\ lcd_refresh_sem = 0
  /\ \/ Enter
     \/ /\ GuiGetTopWin = "win25"
        /\ UNCHANGED <<working, LowVoltageFlag>>
        /\ GuiWinDeleteTop
        /\ sent' = "none"
  /\ UNCHANGED <<lcd_refresh_sem, lcdOff, timers, pc, battery>>

\* The Enter of DoneJump_Timer goes to whichever window is on top.
TimerKey ==
  /\ K2_Sem /\ lcd_refresh_sem = 0
  /\ K2_Sem' = FALSE
  /\ Enter
  /\ UNCHANGED <<lcd_refresh_sem, lcdOff, DoneJump_Timer, wifiTimer, pc, battery>>

-----------------------------------------------------------------------------
(* The threads that ask for a flush or push a window.                       *)

\* RTC_Check_Callback prepares the display before it asks; the others open it.
Prepare(t) ==
  /\ lcdOff' = FALSE
  /\ \/ /\ t = "rtc"
        /\ screen_reload' = FALSE
        /\ \/ lcdOff /\ lcd_refresh_sem < Refreshes /\ lcd_refresh_sem' = lcd_refresh_sem + 1
           \/ ~lcdOff /\ UNCHANGED lcd_refresh_sem
     \/ /\ t # "rtc"
        /\ UNCHANGED <<screen_reload, lcd_refresh_sem>>

\* JumptoAutomatic, JumptoDelta and syr_moto_set, up to the test of the window
\* on top in LcdtoBackwash: a request under the backwash window is ignored.
Request(t) ==
  /\ pc[t] = "idle"
  /\ Prepare(t)
  /\ pc' = [pc EXCEPT ![t] = IF GuiGetTopWin # "win3" THEN "cycle" ELSE "idle"]
  /\ sent' = "none"
  /\ UNCHANGED <<stack, moto_done, lcd_jump_event, pmOta, timers, motor, battery, lost>>

\* Moto_Cycle, called without lcd_mutex.
Moto_Cycle(t) ==
  /\ pc[t] = "cycle"
  /\ \/ /\ Motor!Start
        /\ pc' = [pc EXCEPT ![t] = "add3"]
        /\ UNCHANGED lcd_jump_event
     \/ /\ Motor!Refuse
        /\ pc' = [pc EXCEPT ![t] = "idle"]
        /\ lcd_jump_event' = lcd_jump_event \cup {"EXIT"}
  /\ UNCHANGED <<gui, power, timers, battery, lost>>

\* JumptoReminder, up to the test of the window on top in LcdtoReminder.
JumptoReminder ==
  /\ "rtc" \in Requesters /\ "win25" \in Shown
  /\ pc["rtc"] = "idle"
  /\ Prepare("rtc")
  /\ pc' = [pc EXCEPT !["rtc"] = IF GuiGetTopWin # "win25" THEN "add25" ELSE "idle"]
  /\ sent' = "none"
  /\ UNCHANGED <<stack, moto_done, lcd_jump_event, pmOta, timers, motor, battery, lost>>

\* lcd_mutex is free: the window is pushed.
Push(t) ==
  /\ \/ pc[t] = "add3" /\ UNCHANGED <<working, LowVoltageFlag>> /\ GuiWinAdd("win3")
     \/ pc[t] = "add25" /\ UNCHANGED <<working, LowVoltageFlag>> /\ GuiWinAdd("win25")
  /\ pc' = [pc EXCEPT ![t] = "idle"]
  /\ sent' = "none"
  /\ UNCHANGED <<lcd_refresh_sem, lcdOff, timers, battery>>

\* The battery supervision: JumpToBatteryEmpty, JumpToBatteryNew, battery good.
PowerCallback ==
  /\ ~battery
  /\ \/ LowVoltageFlag' = TRUE /\ battery' = (GuiGetTopWin = "win1" /\ "win26" \in Shown)
     \/ LowVoltageFlag /\ LowVoltageFlag' = FALSE /\ UNCHANGED battery
  /\ sent' = "none"
  /\ UNCHANGED <<gui, lcd_jump_event, power, timers, working, MotoWorkStatus, pc, lost>>

PushBattery ==
  /\ battery
  /\ battery' = FALSE
  /\ UNCHANGED <<working, LowVoltageFlag>>
  /\ GuiWinAdd("win26")
  /\ sent' = "none"
  /\ UNCHANGED <<lcd_refresh_sem, lcdOff, timers, pc>>

\* A setting is changed over the serial link: the window on top is redrawn.
Refresh_Display ==
  /\ UNCHANGED <<working, LowVoltageFlag>>
  /\ Show(stack)
  /\ UserMain3WinFun(stack)
  /\ sent' = "none"
  /\ UNCHANGED <<lcd_refresh_sem, lcdOff, timers, pc, battery>>

wifi_connect_start ==
  /\ "wifi" \in Shown
  /\ wifiTimer' = TRUE
  /\ UNCHANGED <<working, LowVoltageFlag>>
  /\ \/ GuiGetTopWin # "wifi" /\ GuiWinAdd("wifi")
     \/ GuiGetTopWin = "wifi" /\ UNCHANGED <<gui, lcd_jump_event, MotoWorkStatus, pmOta, lost>>
  /\ sent' = "none"
  /\ UNCHANGED <<lcd_refresh_sem, lcdOff, DoneJump_Timer, K2_Sem, pc, battery>>

\* The router is connected: the close timer is started, whatever is shown.
wifi_connect_success ==
  /\ "wifi" \in Shown
  /\ wifiTimer' = TRUE
  /\ sent' = "none"
  /\ UNCHANGED <<gui, lcd_jump_event, power, DoneJump_Timer, K2_Sem, motor, pc,
                 battery, lost>>

\* wifi_connect_win_del closes the window only if it is on top.
wifi_connect_stop ==
  /\ wifiTimer
  /\ wifiTimer' = FALSE
  /\ UNCHANGED <<working, LowVoltageFlag>>
  /\ \/ GuiGetTopWin = "wifi" /\ GuiWinDeleteTop
     \/ GuiGetTopWin # "wifi" /\ UNCHANGED <<gui, lcd_jump_event, MotoWorkStatus, pmOta, lost>>
  /\ sent' = "none"
  /\ UNCHANGED <<lcd_refresh_sem, lcdOff, DoneJump_Timer, K2_Sem, pc, battery>>

\* Faulty variant: the semaphore of another key is released.
K2_Setjump_Sem_Release_OtherKey ==
  /\ DoneJump_Timer
  /\ DoneJump_Timer' = FALSE
  /\ sent' = "none"
  /\ UNCHANGED <<gui, lcd_jump_event, power, K2_Sem, wifiTimer, motor, pc, battery, lost>>

\* DoneJump_Timer has expired.
K2_Setjump_Sem_Release ==
  /\ DoneJump_Timer
  /\ DoneJump_Timer' = FALSE
  /\ K2_Sem' = TRUE
  /\ sent' = "none"
  /\ UNCHANGED <<gui, lcd_jump_event, power, wifiTimer, motor, pc, battery, lost>>

\* The motor turns, ends its cycle or is put to work by an old timer.
MotorStep ==
  /\ Motor!Turn \/ Motor!End \/ Motor!Revive
  /\ lcd_jump_event' = lcd_jump_event \cup ({sent'} \ {"none"})
  /\ UNCHANGED <<gui, power, timers, pc, battery, lost>>

-----------------------------------------------------------------------------
(* Sleep.  A cycle, an update and the requesters hold requests not to       *)
(* sleep, and the display delays it by two minutes: what the lcd task has   *)
(* to do is done by then.                                                   *)

BeforeSleep ==
  /\ ~working /\ ~pmOta /\ ~DoneJump_Timer /\ ~K2_Sem /\ lcd_refresh_sem = 0
  /\ \A t \in Requesters : pc[t] = "idle"
  /\ lcdOff' = TRUE
  /\ sent' = "none"
  /\ UNCHANGED <<gui, lcd_jump_event, lcd_refresh_sem, pmOta, timers, motor, pc,
                 battery, lost>>

\* A key or the telemetry timer wakes the device up.
LCD_Restart ==
  /\ lcdOff /\ lcd_refresh_sem < Refreshes
  /\ lcd_refresh_sem' = lcd_refresh_sem + 1
  /\ sent' = "none"
  /\ UNCHANGED <<gui, lcd_jump_event, lcdOff, pmOta, timers, motor, pc, battery, lost>>

\* The first key only opens the display.
OpenLcdDisplay ==
  /\ lcdOff
  /\ lcdOff' = FALSE
  /\ sent' = "none"
  /\ UNCHANGED <<gui, lcd_jump_event, lcd_refresh_sem, pmOta, timers, motor, pc,
                 battery, lost>>

-----------------------------------------------------------------------------
Init ==
  /\ stack = <<"win1">> /\ lcd_jump_event = {}
  /\ moto_done = FALSE /\ screen_reload = TRUE
  /\ lcd_refresh_sem = 0 /\ lcdOff = FALSE /\ pmOta = FALSE
  /\ DoneJump_Timer = FALSE /\ K2_Sem = FALSE /\ wifiTimer = FALSE
  /\ Motor!Init
  /\ pc = [t \in Requesters |-> "idle"] /\ battery = FALSE
  /\ lost = FALSE

Next ==
  \/ lcd_refresh_from_sleep \/ UserMain3Event \/ UserKey \/ TimerKey
  \/ \E t \in Requesters : Request(t) \/ Moto_Cycle(t) \/ Push(t)
  \/ JumptoReminder \/ PowerCallback \/ PushBattery \/ Refresh_Display
  \/ wifi_connect_start \/ wifi_connect_success \/ wifi_connect_stop
  \/ K2_Setjump_Sem_Release
  \/ MotorStep
  \/ BeforeSleep \/ LCD_Restart \/ OpenLcdDisplay

Spec == Init /\ [][Next]_vars

\* The lcd task looks for wake-ups, events and keys every ten milliseconds, and
\* the timer thread always runs.
Fairness == /\ WF_vars(lcd_refresh_from_sleep)
            /\ WF_vars(UserMain3Event)
            /\ WF_vars(TimerKey)
            /\ WF_vars(K2_Setjump_Sem_Release)

FairSpec == Spec /\ Fairness

-----------------------------------------------------------------------------
(* Properties.                                                              *)

TypeOK ==
  /\ stack \in Seq(Windows) /\ Len(stack) \in 1..GUIWINMANAGE_NUM
  /\ lcd_jump_event \in SUBSET Events
  /\ moto_done \in BOOLEAN /\ screen_reload \in BOOLEAN
  /\ lcd_refresh_sem \in 0..Refreshes /\ lcdOff \in BOOLEAN /\ pmOta \in BOOLEAN
  /\ DoneJump_Timer \in BOOLEAN /\ K2_Sem \in BOOLEAN /\ wifiTimer \in BOOLEAN
  /\ working \in BOOLEAN /\ MotoWorkStatus \in BOOLEAN
  /\ LowVoltageFlag \in BOOLEAN /\ sent \in Events \cup {"none"}
  /\ pc \in [Requesters -> {"idle", "cycle", "add3", "add25"}]
  /\ battery \in BOOLEAN /\ lost \in BOOLEAN

\* Whatever order windows are pushed, popped and reset in, the main window is
\* the bottom of the stack and appears nowhere else: every chain of
\* GuiWinDeleteTop leads back to it, and the stack never overflows (TypeOK).
Rooted == TypeOK /\ \A i \in 1..Len(stack) : stack[i] = "win1" <=> i = 1

\* While the update window is on top the motor is paused and the device awake,
\* whoever covered and uncovered it.
UpdateIsGuarded == GuiGetTopWin = "win31" => MotoWorkStatus /\ pmOta

\* With the motor idle and every event received, the backwash window shows an
\* outcome and Enter leaves it, unless the outcome was discarded when the window
\* was drawn again, or came together with another bit.
OutcomeUnlocks ==
  (GuiGetTopWin = "win3" /\ ~working /\ lcd_jump_event = {} /\ ~lost) => moto_done

\* An unattended device leaves the message "Finish" within three seconds, unless
\* the outcome was discarded or another cycle has begun.
FinishDisappears ==
  (GuiGetTopWin = "win3" /\ moto_done /\ DoneJump_Timer)
    ~> (GuiGetTopWin # "win3" \/ lost \/ working)
=============================================================================

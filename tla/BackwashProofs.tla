--------------------------- MODULE BackwashProofs ---------------------------
(***************************************************************************)
(* Proofs about Backwash, for every set of requesters and windows and      *)
(* every size of the window stack: the main window is the root, the        *)
(* update window guards the motor, and an outcome that is not discarded    *)
(* unlocks the backwash window.                                            *)
(***************************************************************************)
EXTENDS Backwash, TLAPS

-----------------------------------------------------------------------------
(* The stack.                                                               *)

\* The main window is the bottom and nothing else; the update window is opened
\* from the menu, so that no two of them lie on each other.
StackType == stack \in Seq(Windows) /\ Len(stack) \in 1..GUIWINMANAGE_NUM
MainIsRoot == \A i \in 1..Len(stack) : stack[i] = "win1" <=> i = 1
OverMenu == \A i \in 1..Len(stack) : stack[i] = "win31" => i > 1 /\ stack[i - 1] = "menu"

StackInv == StackType /\ MainIsRoot /\ OverMenu

\* What a step does to the stack: a push of another window than the main one, a
\* pop that leaves a window, or the main window alone.
Pushed(w) ==
  /\ Len(stack) < GUIWINMANAGE_NUM
  /\ w \in Windows \ {"win1"}
  /\ w = "win31" => Last(stack) = "menu"
  /\ stack' = Append(stack, w)
Popped == Len(stack) > 1 /\ stack' = Front(stack)
StackStep == stack' \in {stack, <<"win1">>} \/ Popped \/ \E w \in Windows : Pushed(w)

\* Such a step keeps the invariant of the stack.
LEMMA StackStepKeeps ==
  ASSUME StackInv, StackStep
  PROVE  StackInv'
<1> USE BackwashAssumption DEF StackInv, StackType, MainIsRoot, OverMenu
<1>1. CASE stack' = stack
  BY <1>1
<1>2. CASE stack' = <<"win1">>
  BY <1>2 DEF Windows
<1>3. CASE Popped
  <2>1. /\ stack' \in Seq(Windows) /\ Len(stack') = Len(stack) - 1
        /\ \A i \in 1..Len(stack') : stack'[i] = stack[i]
    BY <1>3 DEF Popped, Front
  <2> QED BY <1>3, <2>1 DEF Popped
<1>4. ASSUME NEW w \in Windows, Pushed(w) PROVE StackInv'
  <2>1. /\ stack' \in Seq(Windows) /\ Len(stack') = Len(stack) + 1
        /\ stack'[Len(stack) + 1] = w
        /\ \A i \in 1..Len(stack) : stack'[i] = stack[i]
    BY <1>4 DEF Pushed
  <2>2. w # "win1" /\ (w = "win31" => stack[Len(stack)] = "menu")
    BY <1>4 DEF Pushed, Last
  <2>3. Len(stack') \in 1..GUIWINMANAGE_NUM
    BY <1>4, <2>1 DEF Pushed
  <2>4. MainIsRoot'
    BY <2>1, <2>2
  <2>5. OverMenu'
    BY <2>1, <2>2
  <2> QED BY <2>1, <2>3, <2>4, <2>5
<1> QED BY <1>1, <1>2, <1>3, <1>4 DEF StackStep

\* GuiWinAdd pushes, GuiWinDeleteTop pops, or nothing is done.
LEMMA AddSteps ==
  ASSUME NEW w \in Windows \ {"win1"}, w = "win31" => Last(stack) = "menu", GuiWinAdd(w)
  PROVE  StackStep
<1>1. CASE Len(stack) < GUIWINMANAGE_NUM /\ Show(Append(stack, w))
  BY <1>1 DEF Show, StackStep, Pushed
<1>2. CASE UNCHANGED gui
  BY <1>2 DEF gui, StackStep
<1> QED BY <1>1, <1>2 DEF GuiWinAdd

\* GuiWinDeleteTop pops, or keeps the last window.
LEMMA DeleteSteps ==
  ASSUME GuiWinDeleteTop
  PROVE  StackStep
BY DEF GuiWinDeleteTop, Show, gui, StackStep, Popped

\* So does Enter, in whichever window.
LEMMA EnterSteps ==
  ASSUME Enter
  PROVE  StackStep
<1>1. CASE Navigate
  <2>1. ASSUME GuiGetTopWin = "win1", NEW w \in {"win2", "menu"}, GuiWinAdd(w)
        PROVE  StackStep
    BY <2>1, AddSteps DEF Windows
  <2>2. CASE GuiGetTopWin = "menu" /\ GuiWinAdd("win31")
    BY <2>2, AddSteps DEF Windows, GuiGetTopWin
  <2>3. CASE UNCHANGED gui
    BY <2>3 DEF gui, StackStep
  <2> QED BY <1>1, <2>1, <2>2, <2>3, DeleteSteps DEF Navigate
<1>2. CASE LcdtoBackwash
  <2>1. GuiWinAdd("win3") \/ UNCHANGED gui
    BY <1>2 DEF LcdtoBackwash
  <2> QED BY <2>1, AddSteps DEF Windows, gui, StackStep
<1>3. CASE UserMain3Enter
  BY <1>3 DEF UserMain3Enter, Home, StackStep
<1>4. CASE UserMain31Enter
  BY <1>4 DEF UserMain31Enter, StackStep, Popped
<1> QED BY <1>1, <1>2, <1>3, <1>4 DEF Enter

\* And every step of the program.
LEMMA NextSteps ==
  ASSUME [Next]_vars
  PROVE  StackStep
<1>1. CASE lcd_refresh_from_sleep
  BY <1>1 DEF lcd_refresh_from_sleep, Home, StackStep
<1>2. CASE UserMain3Event
  BY <1>2 DEF UserMain3Event, Show, gui, StackStep, Popped
<1>3. CASE UserKey
  BY <1>3, EnterSteps, DeleteSteps DEF UserKey
<1>4. CASE TimerKey
  BY <1>4, EnterSteps DEF TimerKey
<1>5. ASSUME NEW t \in Requesters, Push(t) PROVE StackStep
  <2>1. GuiWinAdd("win3") \/ GuiWinAdd("win25")
    BY <1>5 DEF Push
  <2> QED BY <2>1, AddSteps DEF Windows
<1>6. CASE PushBattery
  BY <1>6, AddSteps DEF PushBattery, Windows
<1>7. CASE Refresh_Display
  BY <1>7 DEF Refresh_Display, Show, StackStep
<1>8. CASE wifi_connect_start
  BY <1>8, AddSteps DEF wifi_connect_start, Windows, gui, StackStep
<1>9. CASE wifi_connect_stop
  BY <1>9, DeleteSteps DEF wifi_connect_stop, gui, StackStep
<1>10. CASE UNCHANGED stack
  BY <1>10 DEF StackStep
<1>11. (\E t \in Requesters : Request(t) \/ Moto_Cycle(t)) => UNCHANGED stack
  BY DEF Request, Moto_Cycle, gui
<1>12. JumptoReminder \/ PowerCallback \/ wifi_connect_success \/ K2_Setjump_Sem_Release
         => UNCHANGED stack
  BY DEF JumptoReminder, PowerCallback, wifi_connect_success, K2_Setjump_Sem_Release, gui
<1>13. MotorStep \/ BeforeSleep \/ LCD_Restart \/ OpenLcdDisplay \/ UNCHANGED vars
         => UNCHANGED stack
  BY DEF MotorStep, BeforeSleep, LCD_Restart, OpenLcdDisplay, gui, vars
<1> QED BY <1>1, <1>2, <1>3, <1>4, <1>5, <1>6, <1>7, <1>8, <1>9, <1>10, <1>11, <1>12,
           <1>13 DEF Next

-----------------------------------------------------------------------------
(* What is shown.                                                           *)

\* An outcome that has been received is shown: with the motor idle and no outcome
\* under way the backwash window can be left.  (OutcomeUnlocks, whose condition is
\* that no event is left, is not kept by the step that receives BACK.)
OutcomeShown ==
  GuiGetTopWin = "win3" /\ ~working /\ lcd_jump_event \cap Outcomes = {} /\ ~lost
    => moto_done

ViewInv == UpdateIsGuarded /\ OutcomeShown

\* Whatever is drawn is drawn in order: the update window pauses the motor, and the
\* backwash window counts as lost what it clears.
LEMMA ShowView ==
  ASSUME NEW s, Show(s)
  PROVE  ViewInv'
<1>1. stack' = s
  BY DEF Show
<1>2. Last(s) = "win31" => MotoWorkStatus' /\ pmOta'
  BY Zenon DEF Show
<1>3. Last(s) = "win3" => (lost' <=> ~working')
  BY Zenon DEF Show
<1>4. GuiGetTopWin' = Last(s)
  BY <1>1 DEF GuiGetTopWin
<1> QED BY <1>2, <1>3, <1>4 DEF ViewInv, UpdateIsGuarded, OutcomeShown

\* The main window is neither.
LEMMA HomeView ==
  ASSUME Home
  PROVE  ViewInv'
<1>1. GuiGetTopWin' = "win1"
  BY DEF Home, GuiGetTopWin, Last
<1> QED BY <1>1 DEF ViewInv, UpdateIsGuarded, OutcomeShown

\* With nothing drawn, the motor may begin, or end with an outcome under way.
LEMMA StillView ==
  ASSUME ViewInv, UNCHANGED <<stack, MotoWorkStatus, pmOta, lost>>,
         moto_done => moto_done',
         \/ working'
         \/ ~working /\ lcd_jump_event \cap Outcomes \subseteq lcd_jump_event'
         \/ lcd_jump_event' \cap Outcomes # {}
  PROVE  ViewInv'
<1>1. GuiGetTopWin' = GuiGetTopWin /\ Outcomes' = Outcomes
  BY DEF GuiGetTopWin, Outcomes, Motor!Outcomes
<1> QED BY <1>1 DEF ViewInv, UpdateIsGuarded, OutcomeShown

\* A window is pushed or popped, by whichever thread.
LEMMA AddView ==
  ASSUME ViewInv, NEW w, GuiWinAdd(w) \/ GuiWinDeleteTop, working' \/ UNCHANGED working
  PROVE  ViewInv'
<1>1. CASE \E s : Show(s)
  BY <1>1, ShowView
<1>2. CASE UNCHANGED <<gui, lcd_jump_event, MotoWorkStatus, pmOta, lost>>
  BY <1>2, StillView DEF gui
<1> QED BY <1>1, <1>2 DEF GuiWinAdd, GuiWinDeleteTop

\* Nothing that matters changes.
LEMMA SameView ==
  ASSUME ViewInv,
         UNCHANGED <<stack, MotoWorkStatus, pmOta, lost, moto_done, working,
                     lcd_jump_event>>
  PROVE  ViewInv'
BY StillView

\* Enter.  Leaving the update window uncovers no other one.
LEMMA EnterView ==
  ASSUME ViewInv, StackInv, Enter
  PROVE  ViewInv'
<1>1. CASE Navigate
  <2>1. UNCHANGED working
    BY <1>1 DEF Navigate
  <2>2. (\E w : GuiWinAdd(w) \/ GuiWinDeleteTop)
          \/ UNCHANGED <<gui, lcd_jump_event, MotoWorkStatus, pmOta, lost>>
    BY <1>1 DEF Navigate
  <2> QED BY <2>1, <2>2, AddView, SameView DEF gui
<1>2. CASE LcdtoBackwash
  <2>1. CASE Motor!Start /\ GuiWinAdd("win3")
    <3>1. working'
      BY <2>1, Zenon DEF Motor!Start
    <3> QED BY <2>1, <3>1, AddView
  <2>2. CASE Motor!Refuse /\ ~(Motor!Start /\ GuiWinAdd("win3"))
    <3>1. /\ UNCHANGED <<stack, MotoWorkStatus, pmOta, lost, moto_done, working>>
          /\ lcd_jump_event' = lcd_jump_event \cup {"EXIT"}
      BY <1>2, <2>2 DEF LcdtoBackwash, Motor!Refuse, Motor!gates, gui
    <3> QED BY <3>1, StillView
  <2> QED BY <1>2, <2>1, <2>2 DEF LcdtoBackwash
<1>3. CASE UserMain3Enter
  BY <1>3, HomeView, SameView DEF UserMain3Enter, motor
<1>4. CASE UserMain31Enter
  <2>1. stack' = Front(stack) /\ Len(stack) > 1 /\ stack[Len(stack)] = "win31"
    BY <1>4 DEF UserMain31Enter, GuiGetTopWin, Last
  <2>2. Last(Front(stack)) = "menu"
    BY <2>1 DEF StackInv, StackType, OverMenu, Last, Front
  <2>3. GuiGetTopWin' = "menu"
    BY <2>1, <2>2 DEF GuiGetTopWin
  <2> QED BY <2>3 DEF ViewInv, UpdateIsGuarded, OutcomeShown
<1> QED BY <1>1, <1>2, <1>3, <1>4 DEF Enter

\* An event is received: an outcome unlocks the window; bits that arrive together are
\* lost, with an outcome among them or not.
LEMMA EventView ==
  ASSUME ViewInv, UserMain3Event
  PROVE  ViewInv'
<1> USE DEF ViewInv, UpdateIsGuarded, OutcomeShown
<1>1. ASSUME NEW e \in Outcomes, UserMain3Outcome(e),
             UNCHANGED <<stack, motor, pmOta, lost>>
      PROVE  ViewInv'
  <2>1. moto_done'
    BY <1>1, Zenon DEF UserMain3Outcome
  <2> QED BY <1>1, <2>1 DEF motor, GuiGetTopWin
<1>2. CASE lcd_jump_event = {"BACK"} /\ UNCHANGED <<gui, motor, pmOta, lost>>
  BY <1>2, StillView DEF gui, motor, Outcomes, Motor!Outcomes
<1>3. CASE lcd_jump_event = {"EXIT"} /\ (\E s : Show(s))
  BY <1>3, ShowView
<1>4. CASE /\ lcd_jump_event = {"EXIT"} /\ moto_done' = TRUE
           /\ UNCHANGED <<stack, MotoWorkStatus, pmOta, lost>>
  <2>1. moto_done'
    BY <1>4, Zenon
  <2> QED BY <1>4, <2>1 DEF GuiGetTopWin
<1>5. CASE /\ lost' = (lost \/ lcd_jump_event \cap Outcomes # {})
           /\ UNCHANGED <<gui, motor, pmOta>>
  <2>1. (lost' <=> lost \/ lcd_jump_event \cap Outcomes # {})
    BY <1>5, Zenon
  <2> QED BY <1>5, <2>1 DEF gui, motor, GuiGetTopWin
<1> QED BY <1>1, <1>2, <1>3, <1>4, <1>5 DEF UserMain3Event

\* Every step keeps what is shown in order.
LEMMA NextView ==
  ASSUME ViewInv, StackInv, [Next]_vars
  PROVE  ViewInv'
<1>1. CASE lcd_refresh_from_sleep
  BY <1>1, HomeView, SameView DEF lcd_refresh_from_sleep, motor
<1>2. CASE UserMain3Event
  BY <1>2, EventView
<1>3. CASE UserKey
  <2>1. Enter \/ (UNCHANGED working /\ GuiWinDeleteTop)
    BY <1>3 DEF UserKey
  <2> QED BY <2>1, EnterView, AddView
<1>4. CASE TimerKey
  BY <1>4, EnterView DEF TimerKey
<1>5. ASSUME NEW t \in Requesters, Request(t) PROVE ViewInv'
  BY <1>5, SameView DEF Request, motor
<1>6. ASSUME NEW t \in Requesters, Moto_Cycle(t) PROVE ViewInv'
  <2>1. UNCHANGED <<stack, MotoWorkStatus, pmOta, lost, moto_done>>
    BY <1>6 DEF Moto_Cycle, gui, power, Motor!Start, Motor!Refuse, Motor!gates
  <2>2. CASE Motor!Start
    <3>1. working'
      BY <2>2, Zenon DEF Motor!Start
    <3> QED BY <2>1, <3>1, StillView
  <2>3. CASE Motor!Refuse /\ ~Motor!Start
    <3>1. UNCHANGED working /\ lcd_jump_event' = lcd_jump_event \cup {"EXIT"}
      BY <1>6, <2>3 DEF Moto_Cycle, Motor!Refuse
    <3> QED BY <2>1, <3>1, StillView
  <2> QED BY <1>6, <2>2, <2>3 DEF Moto_Cycle
<1>7. ASSUME NEW t \in Requesters, Push(t) PROVE ViewInv'
  <2>1. UNCHANGED working /\ \E w : GuiWinAdd(w)
    BY <1>7 DEF Push
  <2> QED BY <2>1, AddView
<1>8. CASE JumptoReminder \/ PowerCallback
  BY <1>8, SameView DEF JumptoReminder, PowerCallback, motor, gui, power
<1>9. CASE PushBattery
  BY <1>9, AddView DEF PushBattery
<1>10. CASE Refresh_Display
  BY <1>10, ShowView DEF Refresh_Display
<1>11. CASE wifi_connect_start
  BY <1>11, AddView, SameView DEF wifi_connect_start, gui
<1>12. CASE wifi_connect_stop
  BY <1>12, AddView, SameView DEF wifi_connect_stop, gui
<1>13. CASE wifi_connect_success \/ K2_Setjump_Sem_Release
  BY <1>13, SameView DEF wifi_connect_success, K2_Setjump_Sem_Release, motor, gui, power
<1>14. CASE MotorStep
  <2>1. UNCHANGED <<stack, MotoWorkStatus, pmOta, lost, moto_done>>
        /\ lcd_jump_event' = lcd_jump_event \cup ({sent'} \ {"none"})
    BY <1>14 DEF MotorStep, gui, power, Motor!Turn, Motor!End, Motor!Revive, Motor!gates
  <2>2. CASE Motor!Turn
    <3>1. UNCHANGED working
      BY <2>2 DEF Motor!Turn
    <3> QED BY <2>1, <3>1, StillView
  <2>3. CASE Motor!End
    <3>1. sent' \in Outcomes /\ sent' # "none"
      BY <2>3 DEF Motor!End, Outcomes, Motor!Outcomes
    <3>2. lcd_jump_event' \cap Outcomes # {}
      BY <2>1, <3>1
    <3> QED BY <2>1, <3>2, StillView
  <2>4. CASE Motor!Revive
    <3>1. working'
      BY <2>4, Zenon DEF Motor!Revive
    <3> QED BY <2>1, <3>1, StillView
  <2> QED BY <1>14, <2>2, <2>3, <2>4 DEF MotorStep
<1>15. CASE BeforeSleep \/ LCD_Restart \/ OpenLcdDisplay \/ UNCHANGED vars
  BY <1>15, SameView DEF BeforeSleep, LCD_Restart, OpenLcdDisplay, vars, motor, gui, power
<1> QED BY <1>1, <1>2, <1>3, <1>4, <1>5, <1>6, <1>7, <1>8, <1>9, <1>10, <1>11, <1>12,
           <1>13, <1>14, <1>15 DEF Next

-----------------------------------------------------------------------------
(* Types.                                                                   *)

\* The flags of the windows, and the flags of the threads around them.
WindowFlags ==
  /\ moto_done \in BOOLEAN /\ screen_reload \in BOOLEAN /\ pmOta \in BOOLEAN
  /\ MotoWorkStatus \in BOOLEAN /\ working \in BOOLEAN /\ lost \in BOOLEAN
ThreadFlags ==
  /\ lcdOff \in BOOLEAN /\ DoneJump_Timer \in BOOLEAN /\ K2_Sem \in BOOLEAN
  /\ wifiTimer \in BOOLEAN /\ LowVoltageFlag \in BOOLEAN /\ battery \in BOOLEAN

Counted ==
  /\ lcd_jump_event \in SUBSET Events /\ sent \in Events \cup {"none"}
  /\ lcd_refresh_sem \in 0..Refreshes
  /\ pc \in [Requesters -> {"idle", "cycle", "add3", "add25"}]

\* Drawing keeps the flags of the windows Boolean.
LEMMA AddFlags ==
  ASSUME WindowFlags, NEW w, GuiWinAdd(w) \/ GuiWinDeleteTop, working' \in BOOLEAN
  PROVE  WindowFlags'
<1>1. ASSUME NEW s, Show(s), UserMain3WinFun(s) PROVE WindowFlags'
  <2>1. lost' \in BOOLEAN
    BY <1>1, Zenon DEF Show, WindowFlags
  <2> QED BY <1>1, <2>1, Zenon DEF Show, UserMain3WinFun, WindowFlags
<1>2. CASE UNCHANGED <<gui, lcd_jump_event, MotoWorkStatus, pmOta, lost>>
  BY <1>2, Zenon DEF WindowFlags, gui
<1> QED BY <1>1, <1>2 DEF GuiWinAdd, GuiWinDeleteTop

\* Enter keeps them.
LEMMA EnterFlags ==
  ASSUME WindowFlags, Enter
  PROVE  WindowFlags' /\ LowVoltageFlag' = LowVoltageFlag
<1>1. CASE Navigate
  <2>1. UNCHANGED <<working, LowVoltageFlag>>
    BY <1>1 DEF Navigate
  <2>2. working' \in BOOLEAN
    BY <2>1, Zenon DEF WindowFlags
  <2>3. (\E w : GuiWinAdd(w) \/ GuiWinDeleteTop)
          \/ UNCHANGED <<gui, lcd_jump_event, MotoWorkStatus, pmOta, lost>>
    BY <1>1 DEF Navigate
  <2>4. UNCHANGED <<gui, lcd_jump_event, MotoWorkStatus, pmOta, lost>> => WindowFlags'
    BY <2>2, Zenon DEF WindowFlags, gui
  <2> QED BY <2>1, <2>2, <2>3, <2>4, AddFlags
<1>2. CASE LcdtoBackwash
  <2>1. CASE Motor!Start /\ GuiWinAdd("win3")
    <3>1. working' \in BOOLEAN /\ LowVoltageFlag' = LowVoltageFlag
      BY <2>1, Zenon DEF Motor!Start, Motor!gates
    <3> QED BY <2>1, <3>1, AddFlags
  <2>2. CASE Motor!Refuse /\ UNCHANGED <<gui, pmOta, lost>>
    BY <2>2, Zenon DEF Motor!Refuse, Motor!gates, WindowFlags, gui
  <2> QED BY <1>2, <2>1, <2>2 DEF LcdtoBackwash
<1>3. CASE UserMain3Enter
  BY <1>3, Zenon DEF UserMain3Enter, WindowFlags, motor
<1>4. CASE UserMain31Enter
  <2>1. lost' \in BOOLEAN
    BY <1>4, Zenon DEF UserMain31Enter, WindowFlags
  <2> QED BY <1>4, <2>1, Zenon DEF UserMain31Enter, UserMain3WinFun, WindowFlags
<1> QED BY <1>1, <1>2, <1>3, <1>4 DEF Enter

\* Every step keeps the flags of the windows.
LEMMA NextWindowFlags ==
  ASSUME WindowFlags, [Next]_vars
  PROVE  WindowFlags'
<1>1. CASE lcd_refresh_from_sleep
  BY <1>1, Zenon DEF lcd_refresh_from_sleep, motor, WindowFlags
<1>2. CASE UserMain3Event
  <2>1. UNCHANGED working
    BY <1>2 DEF UserMain3Event, motor
  <2>2. working' \in BOOLEAN
    BY <2>1, Zenon DEF WindowFlags
  <2>3. moto_done' \in BOOLEAN /\ screen_reload' \in BOOLEAN
    BY <1>2, Zenon DEF UserMain3Event, UserMain3Outcome, WindowFlags, gui
  <2>4. ASSUME NEW s, Show(s)
        PROVE  lost' \in BOOLEAN /\ MotoWorkStatus' \in BOOLEAN /\ pmOta' \in BOOLEAN
    BY <2>2, <2>4, Zenon DEF Show, WindowFlags
  <2>5. lost' \in BOOLEAN /\ MotoWorkStatus' \in BOOLEAN /\ pmOta' \in BOOLEAN
    BY <1>2, <2>4, Zenon DEF UserMain3Event, WindowFlags, motor
  <2> QED BY <2>2, <2>3, <2>5 DEF WindowFlags
<1>3. CASE UserKey
  <2>1. Enter \/ (UNCHANGED working /\ GuiWinDeleteTop)
    BY <1>3 DEF UserKey
  <2>2. UNCHANGED working => working' \in BOOLEAN
    BY Zenon DEF WindowFlags
  <2> QED BY <2>1, <2>2, EnterFlags, AddFlags
<1>4. CASE TimerKey
  BY <1>4, EnterFlags DEF TimerKey
<1>5. ASSUME NEW t \in Requesters, Request(t) PROVE WindowFlags'
  <2>1. screen_reload' \in BOOLEAN
    BY <1>5, Zenon DEF Request, Prepare, WindowFlags
  <2> QED BY <1>5, <2>1, Zenon DEF Request, motor, WindowFlags
<1>6. ASSUME NEW t \in Requesters, Moto_Cycle(t) PROVE WindowFlags'
  <2>1. working' \in BOOLEAN /\ MotoWorkStatus' \in BOOLEAN
    BY <1>6, Zenon DEF Moto_Cycle, Motor!Start, Motor!Refuse, Motor!gates, WindowFlags
  <2> QED BY <1>6, <2>1, Zenon DEF Moto_Cycle, gui, power, WindowFlags
<1>7. CASE UNCHANGED working /\ (\E w : GuiWinAdd(w) \/ GuiWinDeleteTop)
  <2>1. working' \in BOOLEAN
    BY <1>7, Zenon DEF WindowFlags
  <2> QED BY <1>7, <2>1, AddFlags
<1>8. CASE UNCHANGED <<working, gui, lcd_jump_event, MotoWorkStatus, pmOta, lost>>
  BY <1>8, Zenon DEF WindowFlags, gui
<1>9. \A t \in Requesters : Push(t) => UNCHANGED working /\ (\E w : GuiWinAdd(w))
  BY DEF Push
<1>10. PushBattery \/ wifi_connect_start \/ wifi_connect_stop => WindowFlags'
  BY <1>7, <1>8 DEF PushBattery, wifi_connect_start, wifi_connect_stop
<1>11. CASE Refresh_Display
  <2>1. working' \in BOOLEAN /\ UNCHANGED working
    BY <1>11, Zenon DEF Refresh_Display, WindowFlags
  <2>2. lost' \in BOOLEAN
    BY <1>11, <2>1, Zenon DEF Refresh_Display, Show, WindowFlags
  <2> QED BY <1>11, <2>1, <2>2, Zenon DEF Refresh_Display, Show, UserMain3WinFun,
                                          WindowFlags
<1>12. CASE JumptoReminder
  <2>1. screen_reload' \in BOOLEAN
    BY <1>12, Zenon DEF JumptoReminder, Prepare, WindowFlags
  <2> QED BY <1>12, <2>1, Zenon DEF JumptoReminder, motor, WindowFlags
<1>13. CASE PowerCallback \/ wifi_connect_success \/ K2_Setjump_Sem_Release
  BY <1>8, <1>13 DEF PowerCallback, wifi_connect_success, K2_Setjump_Sem_Release, power,
                     motor
<1>14. CASE MotorStep
  <2>1. working' \in BOOLEAN /\ MotoWorkStatus' \in BOOLEAN
    BY <1>14, Zenon DEF MotorStep, Motor!Turn, Motor!End, Motor!Revive, Motor!gates,
                        WindowFlags
  <2> QED BY <1>14, <2>1, Zenon DEF MotorStep, gui, power, WindowFlags
<1>15. CASE BeforeSleep \/ LCD_Restart \/ OpenLcdDisplay \/ UNCHANGED vars
  BY <1>8, <1>15 DEF BeforeSleep, LCD_Restart, OpenLcdDisplay, vars, power, motor
<1> QED BY <1>1, <1>2, <1>3, <1>4, <1>5, <1>6, <1>7, <1>9, <1>10, <1>11, <1>12, <1>13,
           <1>14, <1>15 DEF Next

\* What Enter leaves alone, and what it may set the event to.
LEMMA EnterSends ==
  ASSUME Counted, WindowFlags, Enter
  PROVE  LowVoltageFlag' = LowVoltageFlag
         /\ lcd_jump_event' \in SUBSET Events /\ sent' \in {"none", "EXIT"}
<1>1. LowVoltageFlag' = LowVoltageFlag
  BY EnterFlags
<1>2. ASSUME NEW w, GuiWinAdd(w) \/ GuiWinDeleteTop
      PROVE  lcd_jump_event' \in {{}, lcd_jump_event}
  BY <1>2 DEF GuiWinAdd, GuiWinDeleteTop, UserMain3WinFun
<1>3. lcd_jump_event' \in {{}, lcd_jump_event, lcd_jump_event \cup {"EXIT"}}
  BY <1>2 DEF Enter, Navigate, LcdtoBackwash, UserMain3Enter, UserMain31Enter,
              UserMain3WinFun
<1>4. sent' \in {"none", "EXIT"}
  BY DEF Enter, Navigate, LcdtoBackwash, UserMain3Enter, UserMain31Enter, Motor!Start,
         Motor!Refuse
<1> QED BY <1>1, <1>3, <1>4 DEF Counted, Events

\* Every step keeps the flags of the threads.
LEMMA NextThreadFlags ==
  ASSUME ThreadFlags, WindowFlags, Counted, [Next]_vars
  PROVE  ThreadFlags'
<1> USE DEF ThreadFlags
<1>1. CASE lcd_refresh_from_sleep
  BY <1>1, Zenon DEF lcd_refresh_from_sleep, motor, timers
<1>2. CASE UserMain3Event
  <2>1. DoneJump_Timer' \in BOOLEAN /\ LowVoltageFlag' \in BOOLEAN
    BY <1>2, Zenon DEF UserMain3Event, UserMain3Outcome, motor
  <2> QED BY <1>2, <2>1, Zenon DEF UserMain3Event
<1>3. CASE UserKey
  <2>1. LowVoltageFlag' = LowVoltageFlag
    BY <1>3, EnterSends DEF UserKey
  <2> QED BY <1>3, <2>1, Zenon DEF UserKey, timers
<1>4. CASE TimerKey
  <2>1. LowVoltageFlag' = LowVoltageFlag
    BY <1>4, EnterSends DEF TimerKey
  <2> QED BY <1>4, <2>1, Zenon DEF TimerKey
<1>5. ASSUME NEW t \in Requesters, Request(t) \/ Moto_Cycle(t) \/ Push(t)
      PROVE  ThreadFlags'
  <2>1. lcdOff' \in BOOLEAN
    BY <1>5, Zenon DEF Request, Prepare, Moto_Cycle, Push, power
  <2>2. LowVoltageFlag' = LowVoltageFlag
    BY <1>5, Zenon DEF Request, Moto_Cycle, Push, Motor!Start, Motor!Refuse, Motor!gates,
                       motor
  <2> QED BY <1>5, <2>1, <2>2, Zenon DEF Request, Moto_Cycle, Push, timers
<1>6. CASE JumptoReminder
  BY <1>6, Zenon DEF JumptoReminder, Prepare, motor, timers
<1>7. CASE PowerCallback
  <2>1. battery' \in BOOLEAN /\ LowVoltageFlag' \in BOOLEAN
    BY <1>7, Zenon DEF PowerCallback
  <2> QED BY <1>7, <2>1, Zenon DEF PowerCallback, power, timers
<1>8. CASE PushBattery
  BY <1>8, Zenon DEF PushBattery, timers
<1>9. CASE Refresh_Display
  BY <1>9, Zenon DEF Refresh_Display, timers
<1>10. CASE wifi_connect_start
  BY <1>10, Zenon DEF wifi_connect_start
<1>11. CASE wifi_connect_success
  BY <1>11, Zenon DEF wifi_connect_success, power, motor
<1>12. CASE wifi_connect_stop
  BY <1>12, Zenon DEF wifi_connect_stop
<1>13. CASE K2_Setjump_Sem_Release
  BY <1>13, Zenon DEF K2_Setjump_Sem_Release, power, motor
<1>14. CASE MotorStep
  <2>1. LowVoltageFlag' = LowVoltageFlag
    BY <1>14, Zenon DEF MotorStep, Motor!Turn, Motor!End, Motor!Revive, Motor!gates
  <2> QED BY <1>14, <2>1, Zenon DEF MotorStep, power, timers
<1>15. CASE BeforeSleep
  BY <1>15, Zenon DEF BeforeSleep, timers, motor
<1>16. CASE LCD_Restart
  BY <1>16, Zenon DEF LCD_Restart, timers, motor
<1>17. CASE OpenLcdDisplay
  BY <1>17, Zenon DEF OpenLcdDisplay, timers, motor
<1>18. CASE UNCHANGED vars
  BY <1>18, Zenon DEF vars, power, timers, motor
<1> QED BY <1>1, <1>2, <1>3, <1>4, <1>5, <1>6, <1>7, <1>8, <1>9, <1>10, <1>11, <1>12,
           <1>13, <1>14, <1>15, <1>16, <1>17, <1>18 DEF Next

\* Every step keeps event, semaphore and the places of the requesters in range.
LEMMA NextCounted ==
  ASSUME Counted, WindowFlags, [Next]_vars
  PROVE  Counted'
<1> USE BackwashAssumption DEF Counted, Events, Outcomes, Motor!Outcomes
<1>1. ASSUME NEW w, GuiWinAdd(w) \/ GuiWinDeleteTop
      PROVE  lcd_jump_event' \in SUBSET Events
  BY <1>1 DEF GuiWinAdd, GuiWinDeleteTop, UserMain3WinFun
<1>2. CASE lcd_refresh_from_sleep
  BY <1>2 DEF lcd_refresh_from_sleep
<1>3. CASE UserMain3Event
  BY <1>3 DEF UserMain3Event
<1>4. CASE UserKey
  <2>1. lcd_jump_event' \in SUBSET Events /\ sent' \in {"none", "EXIT"}
    BY <1>1, <1>4, EnterSends DEF UserKey
  <2> QED BY <1>4, <2>1 DEF UserKey
<1>5. CASE TimerKey
  <2>1. lcd_jump_event' \in SUBSET Events /\ sent' \in {"none", "EXIT"}
    BY <1>5, EnterSends DEF TimerKey
  <2> QED BY <1>5, <2>1 DEF TimerKey
<1>6. ASSUME NEW t \in Requesters, Request(t) PROVE Counted'
  <2>1. lcd_refresh_sem' \in 0..Refreshes
    BY <1>6 DEF Request, Prepare
  <2> QED BY <1>6, <2>1 DEF Request
<1>7. ASSUME NEW t \in Requesters, Moto_Cycle(t) PROVE Counted'
  BY <1>7 DEF Moto_Cycle, power, Motor!Start, Motor!Refuse
<1>8. ASSUME NEW t \in Requesters, Push(t) PROVE Counted'
  <2>1. lcd_jump_event' \in SUBSET Events
    BY <1>1, <1>8 DEF Push
  <2> QED BY <1>8, <2>1 DEF Push
<1>9. CASE JumptoReminder
  <2>1. lcd_refresh_sem' \in 0..Refreshes
    BY <1>9 DEF JumptoReminder, Prepare
  <2> QED BY <1>9, <2>1 DEF JumptoReminder
<1>10. CASE PowerCallback
  BY <1>10 DEF PowerCallback, power
<1>11. CASE PushBattery
  <2>1. lcd_jump_event' \in SUBSET Events
    BY <1>1, <1>11 DEF PushBattery
  <2> QED BY <1>11, <2>1 DEF PushBattery
<1>12. CASE Refresh_Display
  BY <1>12 DEF Refresh_Display, UserMain3WinFun
<1>13. CASE wifi_connect_start \/ wifi_connect_stop
  <2>1. lcd_jump_event' \in SUBSET Events
    BY <1>1, <1>13 DEF wifi_connect_start, wifi_connect_stop
  <2> QED BY <1>13, <2>1 DEF wifi_connect_start, wifi_connect_stop
<1>14. CASE wifi_connect_success \/ K2_Setjump_Sem_Release
  BY <1>14 DEF wifi_connect_success, K2_Setjump_Sem_Release, power
<1>15. CASE MotorStep
  <2>1. sent' \in Events \cup {"none"}
    BY <1>15 DEF MotorStep, Motor!Turn, Motor!End, Motor!Revive
  <2> QED BY <1>15, <2>1 DEF MotorStep, power
<1>16. CASE BeforeSleep \/ LCD_Restart \/ OpenLcdDisplay
  <2>1. UNCHANGED <<lcd_jump_event, pc>> /\ sent' = "none"
    BY <1>16 DEF BeforeSleep, LCD_Restart, OpenLcdDisplay
  <2>2. lcd_refresh_sem' \in 0..Refreshes
    BY <1>16 DEF BeforeSleep, LCD_Restart, OpenLcdDisplay
  <2> QED BY <2>1, <2>2
<1>17. CASE UNCHANGED vars
  BY <1>17 DEF vars, power
<1> QED BY <1>2, <1>3, <1>4, <1>5, <1>6, <1>7, <1>8, <1>9, <1>10, <1>11, <1>12, <1>13,
           <1>14, <1>15, <1>16, <1>17 DEF Next

-----------------------------------------------------------------------------
(* The theorems.                                                            *)

BackwashInv == StackInv /\ ViewInv /\ WindowFlags /\ ThreadFlags /\ Counted

\* The inductive invariant holds of every behaviour.
THEOREM BackwashSafe == Spec => []BackwashInv
<1>1. Init => BackwashInv
  <2> SUFFICES ASSUME Init PROVE BackwashInv
    OBVIOUS
  <2>1. WindowFlags /\ ThreadFlags
    BY Zenon DEF Init, Motor!Init, WindowFlags, ThreadFlags
  <2>2. StackInv
    BY BackwashAssumption
       DEF Init, StackInv, StackType, MainIsRoot, OverMenu, Windows
  <2>3. ViewInv
    BY DEF Init, ViewInv, UpdateIsGuarded, OutcomeShown, GuiGetTopWin, Last
  <2>4. Counted
    BY BackwashAssumption DEF Init, Motor!Init, Counted
  <2> QED BY <2>1, <2>2, <2>3, <2>4 DEF BackwashInv
<1>2. BackwashInv /\ [Next]_vars => BackwashInv'
  BY NextSteps, StackStepKeeps, NextView, NextWindowFlags, NextThreadFlags, NextCounted
     DEF BackwashInv
<1> QED BY <1>1, <1>2, PTL DEF Spec

\* The main window is the root of the stack and nowhere else, and the stack does not
\* overflow, whatever GuiWinAdd, GuiWinDeleteTop and GuiWinInit the threads call.
THEOREM StackRooted == Spec => []Rooted
<1>1. BackwashInv => Rooted
  <2> SUFFICES ASSUME BackwashInv PROVE Rooted
    OBVIOUS
  <2>1. TypeOK
    BY Zenon DEF BackwashInv, StackInv, StackType, WindowFlags, ThreadFlags, Counted, TypeOK
  <2> QED BY <2>1 DEF BackwashInv, StackInv, MainIsRoot, Rooted
<1> QED BY <1>1, BackwashSafe, PTL

\* The motor is paused and the device awake while the update window is on top: it is
\* opened from the menu only, so that leaving one never uncovers another.
THEOREM UpdateGuarded == Spec => []UpdateIsGuarded
<1>1. BackwashInv => UpdateIsGuarded
  BY DEF BackwashInv, ViewInv
<1> QED BY <1>1, BackwashSafe, PTL

\* The backwash window does not lock: with the motor idle and every event received it
\* shows an outcome, or the outcome was discarded.
THEOREM OutcomeLeaves == Spec => []OutcomeUnlocks
<1>1. BackwashInv => OutcomeUnlocks
  BY DEF BackwashInv, ViewInv, OutcomeShown, OutcomeUnlocks
<1> QED BY <1>1, BackwashSafe, PTL

-----------------------------------------------------------------------------
(* The message "Finish".                                                    *)

\* "Finish" is shown and its Enter is to come or has come.
FinishWaits == GuiGetTopWin = "win3" /\ moto_done /\ (DoneJump_Timer \/ K2_Sem)

\* How it ends.
FinishEnds == GuiGetTopWin # "win3" \/ lost \/ working

\* What a step does to it: an Enter that has come is not used up in vain.
FinishStep == FinishWaits => FinishEnds' \/ (FinishWaits' /\ (K2_Sem => K2_Sem'))

\* Drawing any window ends it.
LEMMA ShowFinish ==
  ASSUME NEW s, Show(s)
  PROVE  FinishEnds'
<1>1. GuiGetTopWin' = Last(s)
  BY DEF Show, GuiGetTopWin
<1>2. Last(s) = "win3" => (lost' <=> ~working')
  BY Zenon DEF Show
<1> QED BY <1>1, <1>2 DEF FinishEnds

\* So does the main window.
LEMMA HomeFinish ==
  ASSUME Home
  PROVE  FinishEnds'
<1>1. GuiGetTopWin' = "win1"
  BY DEF Home, GuiGetTopWin, Last
<1> QED BY <1>1 DEF FinishEnds

\* A step that draws nothing and leaves the timer and its Enter to come.
LEMMA StillFinish ==
  ASSUME UNCHANGED stack, moto_done => moto_done', K2_Sem => K2_Sem',
         DoneJump_Timer => DoneJump_Timer' \/ K2_Sem'
  PROVE  FinishStep
<1>1. GuiGetTopWin' = GuiGetTopWin
  BY DEF GuiGetTopWin
<1> QED BY <1>1 DEF FinishStep, FinishWaits

\* A window is pushed or popped.
LEMMA AddFinish ==
  ASSUME NEW w, GuiWinAdd(w) \/ GuiWinDeleteTop, UNCHANGED <<DoneJump_Timer, K2_Sem>>
  PROVE  FinishStep
<1>1. CASE \E s : Show(s)
  BY <1>1, ShowFinish DEF FinishStep
<1>2. CASE UNCHANGED <<gui, lcd_jump_event, MotoWorkStatus, pmOta, lost>>
  BY <1>2, StillFinish DEF gui
<1> QED BY <1>1, <1>2 DEF GuiWinAdd, GuiWinDeleteTop

\* Enter, pressed by the user or by the timer, leaves the window.
LEMMA EnterFinish ==
  ASSUME Enter
  PROVE  FinishWaits => FinishEnds'
<1> SUFFICES ASSUME FinishWaits PROVE FinishEnds'
  OBVIOUS
<1>1. GuiGetTopWin = "win3" /\ moto_done
  BY DEF FinishWaits
<1>2. UserMain3Enter
  BY <1>1 DEF Enter, Navigate, UserMain31Enter
<1>3. Home
  BY <1>1, <1>2 DEF UserMain3Enter
<1> QED BY <1>3, HomeFinish

\* An event is received.
LEMMA EventFinish ==
  ASSUME UserMain3Event
  PROVE  FinishStep
<1>0. UNCHANGED K2_Sem
  BY DEF UserMain3Event
<1>1. ASSUME NEW e \in Outcomes, UserMain3Outcome(e), UNCHANGED stack PROVE FinishStep
  <2>1. moto_done' /\ (DoneJump_Timer => DoneJump_Timer')
    BY <1>1, Zenon DEF UserMain3Outcome
  <2> QED BY <1>0, <1>1, <2>1, StillFinish
<1>2. CASE UNCHANGED <<gui, DoneJump_Timer>>
  BY <1>0, <1>2, StillFinish DEF gui
<1>3. CASE \E s : Show(s)
  BY <1>3, ShowFinish DEF FinishStep
<1>4. CASE UNCHANGED <<stack, DoneJump_Timer>> /\ moto_done' = TRUE
  <2>1. moto_done'
    BY <1>4, Zenon
  <2> QED BY <1>0, <1>4, <2>1, StillFinish
<1> QED BY <1>1, <1>2, <1>3, <1>4 DEF UserMain3Event

\* Every step.
LEMMA NextFinish ==
  ASSUME [Next]_vars
  PROVE  FinishStep
<1>1. CASE lcd_refresh_from_sleep
  <2>1. UNCHANGED <<moto_done, DoneJump_Timer, K2_Sem>>
    BY <1>1 DEF lcd_refresh_from_sleep, timers
  <2>2. Home \/ UNCHANGED stack
    BY <1>1 DEF lcd_refresh_from_sleep
  <2> QED BY <2>1, <2>2, HomeFinish, StillFinish DEF FinishStep
<1>2. CASE UserMain3Event
  BY <1>2, EventFinish
<1>3. CASE UserKey
  <2>1. (Enter \/ GuiWinDeleteTop) /\ UNCHANGED <<DoneJump_Timer, K2_Sem>>
    BY <1>3 DEF UserKey, timers
  <2> QED BY <2>1, EnterFinish, AddFinish DEF FinishStep
<1>4. CASE TimerKey
  BY <1>4, EnterFinish DEF TimerKey, FinishStep
<1>5. ASSUME NEW t \in Requesters, Request(t) \/ Moto_Cycle(t) PROVE FinishStep
  BY <1>5, StillFinish DEF Request, Moto_Cycle, gui, timers
<1>6. ASSUME NEW t \in Requesters, Push(t) PROVE FinishStep
  <2>1. UNCHANGED <<DoneJump_Timer, K2_Sem>> /\ \E w : GuiWinAdd(w)
    BY <1>6 DEF Push, timers
  <2> QED BY <2>1, AddFinish
<1>7. CASE PushBattery
  BY <1>7, AddFinish DEF PushBattery, timers
<1>8. CASE Refresh_Display
  BY <1>8, ShowFinish DEF Refresh_Display, FinishStep
<1>9. CASE wifi_connect_start
  BY <1>9, AddFinish, StillFinish DEF wifi_connect_start, gui
<1>10. CASE wifi_connect_stop
  BY <1>10, AddFinish, StillFinish DEF wifi_connect_stop, gui
<1>11. CASE wifi_connect_success \/ JumptoReminder \/ PowerCallback \/ MotorStep
            \/ BeforeSleep \/ LCD_Restart \/ OpenLcdDisplay \/ UNCHANGED vars
  BY <1>11, StillFinish
     DEF wifi_connect_success, JumptoReminder, PowerCallback, MotorStep, BeforeSleep,
         LCD_Restart, OpenLcdDisplay, vars, gui, timers
<1>12. CASE K2_Setjump_Sem_Release
  <2>1. K2_Sem' /\ UNCHANGED <<stack, moto_done>>
    BY <1>12, Zenon DEF K2_Setjump_Sem_Release, gui
  <2> QED BY <2>1, StillFinish
<1> QED BY <1>1, <1>2, <1>3, <1>4, <1>5, <1>6, <1>7, <1>8, <1>9, <1>10, <1>11, <1>12
        DEF Next

\* Once "Finish" is shown with DoneJump_Timer running, no step of any thread takes
\* the Enter that will remove it, except by removing it, by drawing the window again
\* (which discards the outcome) or by another cycle; and an Enter that has come is
\* used by UserMain3InputFun to leave.  It is the part of FinishDisappears that does
\* not depend on fairness.
THEOREM FinishNotStuck == Spec => [][FinishStep]_vars
<1>1. [Next]_vars => [FinishStep]_vars
  BY NextFinish
<1> QED BY <1>1, PTL DEF Spec

-----------------------------------------------------------------------------
(* The motor as the windows use it.                                         *)

\* A step that leaves the motor working or idle as it was and sends nothing.
LEMMA GateStep ==
  ASSUME WindowFlags', ThreadFlags', UNCHANGED working, sent' = "none"
  PROVE  Motor!Next
BY Zenon DEF WindowFlags, ThreadFlags, Motor!Next, Motor!Gate

\* Enter starts the motor, is refused, or at most pauses or resumes it.
LEMMA EnterMotor ==
  ASSUME WindowFlags', ThreadFlags', Enter
  PROVE  Motor!Next
<1>1. CASE LcdtoBackwash
  BY <1>1, Zenon DEF LcdtoBackwash, Motor!Next
<1>2. CASE ~LcdtoBackwash
  <2>1. UNCHANGED working /\ sent' = "none"
    BY <1>2 DEF Enter, Navigate, UserMain3Enter, UserMain31Enter, motor
  <2> QED BY <2>1, GateStep
<1> QED BY <1>1, <1>2

\* The windows and the threads that ask for a flush use the motor as Flush, which
\* Moto implements, allows: every step is one of Flush, or leaves the motor alone.
THEOREM BackwashRefinesFlush == Spec => Motor!Spec
<1>1. Init => Motor!Init
  BY DEF Init
<1>2. WindowFlags' /\ ThreadFlags' /\ [Next]_vars => [Motor!Next]_Motor!vars
  <2> SUFFICES ASSUME WindowFlags', ThreadFlags', [Next]_vars
               PROVE  [Motor!Next]_Motor!vars
    OBVIOUS
  <2>1. CASE UserKey
    <3>1. Enter \/ (UNCHANGED working /\ sent' = "none")
      BY <2>1 DEF UserKey
    <3> QED BY <3>1, EnterMotor, GateStep
  <2>2. CASE TimerKey
    BY <2>2, EnterMotor DEF TimerKey
  <2>3. ASSUME NEW t \in Requesters, Moto_Cycle(t) PROVE Motor!Next
    BY <2>3, Zenon DEF Moto_Cycle, Motor!Next
  <2>4. CASE MotorStep
    BY <2>4, Zenon DEF MotorStep, Motor!Next
  <2>5. ASSUME NEW t \in Requesters, Request(t) \/ Push(t) PROVE Motor!Next
    BY <2>5, GateStep DEF Request, Push, motor
  <2>6. CASE lcd_refresh_from_sleep \/ UserMain3Event \/ JumptoReminder \/ PowerCallback
    BY <2>6, GateStep DEF lcd_refresh_from_sleep, UserMain3Event, JumptoReminder,
                          PowerCallback, motor
  <2>7. CASE PushBattery \/ Refresh_Display \/ wifi_connect_start \/ wifi_connect_success
    BY <2>7, GateStep DEF PushBattery, Refresh_Display, wifi_connect_start,
                          wifi_connect_success, motor
  <2>8. CASE wifi_connect_stop \/ K2_Setjump_Sem_Release \/ BeforeSleep \/ LCD_Restart
             \/ OpenLcdDisplay
    BY <2>8, GateStep DEF wifi_connect_stop, K2_Setjump_Sem_Release, BeforeSleep,
                          LCD_Restart, OpenLcdDisplay, motor
  <2>9. CASE UNCHANGED vars
    BY <2>9 DEF vars, motor, Motor!vars, Motor!gates
  <2> QED BY <2>1, <2>2, <2>3, <2>4, <2>5, <2>6, <2>7, <2>8, <2>9 DEF Next
<1>3. BackwashInv => WindowFlags /\ ThreadFlags
  BY DEF BackwashInv
<1> QED BY <1>1, <1>2, <1>3, BackwashSafe, PTL DEF Spec, Motor!Spec
=============================================================================

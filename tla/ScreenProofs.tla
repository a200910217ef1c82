---------------------------- MODULE ScreenProofs ----------------------------
(***************************************************************************)
(* Proofs about Power and Screen: the flag for a low battery, the warning  *)
(* and the supply agree whatever is read; the backlight is never left on.  *)
(***************************************************************************)
EXTENDS Screen, TLAPS

-----------------------------------------------------------------------------
(* The supply.                                                              *)

SupplyInv == PowerTypeOK /\ SupplyAgrees

\* A reading of the supply keeps flag, warning and level in agreement.
LEMMA CallbackKeepsSupply ==
  ASSUME SupplyInv, NEW dc \in BOOLEAN, NEW v \in Volts, PowerCallback(dc, v)
  PROVE  SupplyInv'
<1> v \in Nat
  BY VoltsAssumption
<1>1. CASE dc
  BY <1>1 DEF SupplyInv, PowerTypeOK, SupplyAgrees, PowerCallback, OnMains
<1>2. CASE ~dc
  <2>1. CASE Replaced(v)
    BY <1>2, <2>1 DEF SupplyInv, PowerTypeOK, SupplyAgrees, PowerCallback, OnBattery,
                      Replaced
  <2>2. CASE Discharged(v)
    BY <1>2, <2>2 DEF SupplyInv, PowerTypeOK, SupplyAgrees, PowerCallback, OnBattery,
                      Discharged
  <2> QED BY <1>2, <2>1, <2>2 DEF PowerCallback, OnBattery
<1> QED BY <1>1, <1>2

\* So the supply alone keeps its types and the agreement.
LEMMA SupplyKept == PowerSpec => []SupplyInv
<1>1. PowerInit => SupplyInv
  BY DEF PowerInit, SupplyInv, PowerTypeOK, SupplyAgrees
<1>2. SupplyInv /\ [PowerNext]_power => SupplyInv'
  <2> SUFFICES ASSUME SupplyInv, [PowerNext]_power PROVE SupplyInv'
    OBVIOUS
  <2>1. CASE PowerNext
    BY <2>1, CallbackKeepsSupply DEF PowerNext
  <2>2. CASE UNCHANGED power
    BY <2>2 DEF power, SupplyInv, PowerTypeOK, SupplyAgrees
  <2> QED BY <2>1, <2>2
<1> QED BY <1>1, <1>2, PTL DEF PowerSpec

\* PowerCallback keeps LowVoltageFlag, warning_value and Now_DC_level in agreement,
\* whatever the converter reads.
THEOREM PowerSafe == PowerSpec => []SupplyAgrees
<1>1. SupplyInv => SupplyAgrees
  BY DEF SupplyInv
<1> QED BY <1>1, SupplyKept, PTL

-----------------------------------------------------------------------------
(* The backlight.                                                           *)

\* The timer was started with the vote, which has not lost a minute.
TimerFresh == timer => delay = 2

\* A refresh that waits for the lcd thread finds the pin set.
RefreshLit == lcd_refresh_sem > 0 /\ LCD_Flag = 3 => bk

\* The Enter that may close the update window has started the timer.
EnterTimed ==
  window = "searching" /\ K2_Sem > 0 /\ bk => timer \/ button # Poll \/ lapse # {}

LightInv ==
  /\ delay \in 0..2 /\ K2_Sem \in Nat /\ lcd_refresh_sem \in Nat
  /\ lapse \subseteq {"jump", "search", "init"}
  /\ TimerFresh /\ RefreshLit /\ EnterTimed /\ LitHasTimer /\ DarkWhenAsleep

USE DEF LightInv, TimerFresh, RefreshLit, EnterTimed, LitHasTimer, DarkWhenAsleep,
        ScreenTimerRefresh, Poll
USE MaxClicksAssumption

\* The button thread.
LEMMA ButtonLight ==
  ASSUME LightInv,
         (\E c \in Callbacks : OpenLcdDisplay(c)) \/ LetGo \/ Light \/ Refresh
  PROVE  LightInv'
<1>1. ASSUME NEW c \in Callbacks, OpenLcdDisplay(c) PROVE LightInv'
  <2>1. button' # Poll
    BY <1>1 DEF OpenLcdDisplay, Callbacks
  <2>2. LCD_Flag' # 3
    BY <1>1 DEF OpenLcdDisplay, OpenedFlag
  <2> QED BY <1>1, <2>1, <2>2 DEF OpenLcdDisplay
<1>2. CASE LetGo
  BY <1>2 DEF LetGo, screen, votes
<1>3. CASE Light
  <2>1. button' # Poll
    BY <1>3 DEF Light
  <2> QED BY <1>3, <2>1 DEF Light, votes
<1>4. CASE Refresh
  <2>1. K2_Sem' \in Nat
    BY <1>4 DEF Refresh, Click
  <2> QED BY <1>4, <2>1 DEF Refresh, votes
<1> QED BY <1>1, <1>2, <1>3, <1>4

\* The timer.
LEMMA TimerLight ==
  ASSUME LightInv, Minute \/ TimerPreempts
  PROVE  LightInv'
<1>1. CASE Minute
  <2>1. CASE timer
    BY <1>1, <2>1 DEF Minute, LcdBacklightTimerCallback, keys, votes
  <2>2. CASE ~timer
    <3>1. ~timer' /\ UNCHANGED <<LCD_Flag, bk, lapse, asleep, lcd_refresh_sem, button,
                                 K2_Sem, motor, window>>
      BY <1>1, <2>2, Zenon DEF Minute, keys, votes
    <3>2. delay' \in 0..2
      BY <1>1 DEF Minute
    <3> QED BY <2>2, <3>1, <3>2
  <2> QED BY <2>1, <2>2
<1>2. CASE TimerPreempts
  BY <1>2 DEF TimerPreempts, LcdBacklightTimerCallback, keys, votes
<1> QED BY <1>1, <1>2

\* The lcd thread, and the threads that open the screen.
LEMMA LcdLight ==
  ASSUME LightInv, lcd_task \/ RestartAwake \/ Jump
  PROVE  LightInv'
<1>1. CASE lcd_refresh_from_sleep
  <2>1. lcd_refresh_sem > 0 /\ lcd_refresh_sem' = lcd_refresh_sem - 1
        /\ UNCHANGED <<timer, delay, lapse, asleep, button, K2_Sem, motor, window>>
    BY <1>1 DEF lcd_refresh_from_sleep, keys, votes
  <2>2. (bk' => bk) /\ LCD_Flag' # 3
    BY <1>1, <2>1 DEF lcd_refresh_from_sleep, OpenLcdDisplayNoBL
  <2> QED BY <2>1, <2>2
<1>2. CASE MenuEnter
  BY <1>2 DEF MenuEnter, screen
<1>3. CASE SearchPass
  <2>1. CASE K2_Sem > 0
    <3>1. lapse' # {} /\ lapse' \subseteq {"jump", "search", "init"}
      BY <1>3, <2>1 DEF SearchPass
    <3>2. timer' = FALSE /\ K2_Sem' = K2_Sem - 1 /\ window' = "closed"
          /\ UNCHANGED <<bk, LCD_Flag, delay, asleep, lcd_refresh_sem>>
      BY <1>3, <2>1 DEF SearchPass
    <3> QED BY <2>1, <3>1, <3>2
  <2>2. CASE ~(K2_Sem > 0)
    BY <1>3, <2>2 DEF SearchPass
  <2> QED BY <2>1, <2>2
<1>4. CASE UpdateEnter
  BY <1>4 DEF UpdateEnter, screen
<1>5. CASE RestartAwake
  BY <1>5 DEF RestartAwake, LCD_Restart, keys, votes
<1>6. CASE Jump
  BY <1>6 DEF Jump, OpenLcdDisplayNoBL, keys, votes
<1> QED BY <1>1, <1>2, <1>3, <1>4, <1>5, <1>6 DEF lcd_task

\* The motor, the supply and the other voters.
LEMMA VoterLight ==
  ASSUME LightInv, Moto_Cycle \/ Moto_Cycle_Done \/ PowerTimer \/ OtherVote
  PROVE  LightInv'
<1>1. CASE Moto_Cycle
  BY <1>1 DEF Moto_Cycle, keys
<1>2. CASE Moto_Cycle_Done
  BY <1>2 DEF Moto_Cycle_Done, keys
<1>3. CASE PowerTimer
  BY <1>3 DEF PowerTimer, keys, votes
<1>4. CASE OtherVote
  BY <1>4 DEF OtherVote, screen, keys
<1> QED BY <1>1, <1>2, <1>3, <1>4

\* Sleep and waking.
LEMMA SleepLight ==
  ASSUME LightInv, BeforeSleep \/ WakeShown \/ WakeHidden
  PROVE  LightInv'
<1>1. CASE BeforeSleep
  <2>1. ~timer /\ ~motor /\ window = "closed" /\ lcd_refresh_sem = 0
    BY <1>1 DEF BeforeSleep, Vote, Ready
  <2> QED BY <1>1, <2>1 DEF BeforeSleep, keys, votes
<1>2. CASE WakeShown
  BY <1>2 DEF WakeShown, LCD_Restart, keys, votes
<1>3. CASE WakeHidden
  BY <1>3 DEF WakeHidden, screen, keys, votes
<1> QED BY <1>1, <1>2, <1>3

\* So every step keeps the invariant.
LEMMA NextKeepsLight ==
  ASSUME LightInv, [Next]_vars
  PROVE  LightInv'
<1>1. CASE UNCHANGED vars
  BY <1>1 DEF vars, screen, keys, votes
<1>2. CASE Next
  BY <1>2, ButtonLight, TimerLight, LcdLight, VoterLight, SleepLight DEF Next
<1> QED BY <1>1, <1>2

\* The invariant behind the two theorems below, over every step of the device.
THEOREM LightSafe == Spec => []LightInv
<1>1. Init => LightInv
  BY DEF Init
<1>2. LightInv /\ [Next]_vars => LightInv'
  BY NextKeepsLight
<1> QED BY <1>1, <1>2, PTL DEF Spec

\* The backlight is off while the device sleeps, save for the three lapses: by
\* LitHasTimer and because the timer fires before the vote ends (low.c).
THEOREM SleepsDark == Spec => []DarkWhenAsleep
<1>1. LightInv => DarkWhenAsleep
  OBVIOUS
<1> QED BY <1>1, LightSafe, PTL

\* Whoever lights the screen leaves something that darkens it.
THEOREM LitIsTimed == Spec => []LitHasTimer
<1>1. LightInv => LitHasTimer
  OBVIOUS
<1> QED BY <1>1, LightSafe, PTL

-----------------------------------------------------------------------------
(* The supply as a part of the device.                                      *)

\* The steps of the device are steps of the supply, or leave it alone: the device
\* implements PowerSpec.
THEOREM ScreenRefinesPower == Spec => PowerSpec
<1>1. Init => PowerInit
  BY DEF Init
<1>2. [Next]_vars => [PowerNext]_power
  <2> SUFFICES ASSUME [Next]_vars PROVE [PowerNext]_power
    OBVIOUS
  <2>1. CASE PowerTimer
    BY <2>1 DEF PowerTimer, PowerNext
  <2>2. CASE UNCHANGED vars
    BY <2>2 DEF vars
  <2>3. CASE Next /\ ~PowerTimer
    BY <2>3 DEF Next, OpenLcdDisplay, LetGo, Light, Refresh, Minute, TimerPreempts,
       lcd_task, lcd_refresh_from_sleep, MenuEnter, SearchPass, UpdateEnter,
       RestartAwake, Jump, Moto_Cycle, Moto_Cycle_Done, OtherVote, BeforeSleep,
       WakeShown, WakeHidden
  <2> QED BY <2>1, <2>2, <2>3
<1> QED BY <1>1, <1>2, PTL DEF Spec, PowerSpec

\* So the flag the motor looks at and the warning the cloud sees agree in the device.
THEOREM DeviceSupplyAgrees == Spec => []SupplyAgrees
BY PowerSafe, ScreenRefinesPower, PTL
-----------------------------------------------------------------------------
(* A held key.                                                              *)

HIDE DEF LightInv, TimerFresh, RefreshLit, EnterTimed, LitHasTimer, DarkWhenAsleep

\* The flags are Boolean.
ScreenFlags ==
  /\ bk \in BOOLEAN /\ timer \in BOOLEAN /\ asleep \in BOOLEAN /\ pressed \in BOOLEAN
  /\ OnceFlag \in BOOLEAN /\ motor \in BOOLEAN /\ other \in BOOLEAN
  /\ blind \in BOOLEAN

\* What the screen's types need beside LightInv.
PressType ==
  /\ LCD_Flag \in 0..3 /\ Long_Sem_Counter \in {0, 1}
  /\ window \in {"closed", "open", "searching"}
  /\ \/ button = Poll
     \/ button \in [at : {"light", "power", "init", "refresh"}, callback : Callbacks]

\* The callbacks of a press come while the key is held; one that is under way when
\* the key is held has kept the vote fresh, so that neither the timer nor sleep
\* comes between two callbacks of a long press.
HeldAwake ==
  /\ button.callback = "down" => pressed
  /\ pressed /\ button.callback # "down" => delay = 2

\* The first callback of a long press leaves the screen lit; the later ones find it
\* unlocked.
LongUnlocks ==
  /\ button.callback = "long" =>
       /\ pressed /\ LCD_Flag \in {0, 1}
       /\ Long_Sem_Counter = 1 => LCD_Flag = 0
  /\ Long_Sem_Counter = 1 =>
       pressed /\ button.callback \in {"none", "long"} /\ LCD_Flag \in {0, 1}
  /\ OnceFlag => Long_Sem_Counter = 1

PressInv == PressType /\ HeldAwake /\ LongUnlocks /\ ~blind

USE DEF PressInv, PressType, HeldAwake, LongUnlocks

\* The button thread.
LEMMA ButtonPress ==
  ASSUME PressInv, LightInv, ScreenFlags,
         (\E c \in Callbacks : OpenLcdDisplay(c)) \/ LetGo \/ Light \/ Refresh
  PROVE  PressInv'
<1>1. ASSUME NEW c \in Callbacks, OpenLcdDisplay(c) PROVE PressInv'
  <2>1. (pressed' <=> c # "free") /\ (c = "down" <=> ~pressed) /\ (blind' <=> blind)
    BY <1>1, Zenon DEF OpenLcdDisplay, ScreenFlags
  <2>2. OnceFlag' => OnceFlag /\ c # "free"
    <3>1. CASE c = "free"
      BY <1>1, <3>1, Zenon DEF OpenLcdDisplay
    <3>2. CASE c # "free"
      BY <1>1, <3>2 DEF OpenLcdDisplay
    <3> QED BY <3>1, <3>2
  <2>3. button' \in [at : {"light", "power", "init", "refresh"}, callback : Callbacks]
        /\ button'.callback = c /\ button = Poll
    BY <1>1 DEF OpenLcdDisplay
  <2>4. LCD_Flag' = OpenedFlag(c) /\ UNCHANGED <<delay, window>>
        /\ Long_Sem_Counter' = IF c = "free" THEN 0 ELSE Long_Sem_Counter
    BY <1>1 DEF OpenLcdDisplay, votes
  <2> QED BY <1>1, <2>1, <2>2, <2>3, <2>4 DEF OpenedFlag, Callbacks
<1>2. CASE LetGo
  <2>1. ~pressed' /\ (OnceFlag' <=> OnceFlag) /\ (blind' <=> blind)
    BY <1>2, Zenon DEF LetGo
  <2> QED BY <1>2, <2>1 DEF LetGo, screen, votes
<1>3. CASE Light
  <2>1. (pressed' <=> pressed) /\ (OnceFlag' <=> OnceFlag) /\ (blind' <=> blind)
    BY <1>3, Zenon DEF Light
  <2> QED BY <1>3, <2>1 DEF Light, votes
<1>4. CASE Refresh
  <2>1. (pressed' <=> pressed) /\ button' = Poll /\ delay' = 2
        /\ UNCHANGED <<LCD_Flag, window>>
    BY <1>4 DEF Refresh, votes
  <2>2. CASE button.callback = "long"
    <3>1. Long_Sem_Counter' = 1 /\ (blind' <=> (blind \/ (OnceFlag' /\ LCD_Flag # 0)))
          /\ (OnceFlag' <=> OnceFlag \/ Long_Sem_Counter > 0)
      BY <1>4, <2>2, Zenon DEF Refresh, Click
    <3> QED BY <2>1, <2>2, <3>1
  <2>3. CASE button.callback # "long"
    <3>1. UNCHANGED <<OnceFlag, Long_Sem_Counter, blind>>
      BY <1>4, <2>3 DEF Refresh, Click
    <3> QED BY <2>1, <2>3, <3>1
  <2> QED BY <2>2, <2>3
<1> QED BY <1>1, <1>2, <1>3, <1>4

\* The timer, which comes only while no long press is under way.
LEMMA TimerPress ==
  ASSUME PressInv, LightInv, Minute \/ TimerPreempts
  PROVE  PressInv'
<1>1. UNCHANGED <<pressed, OnceFlag, blind>>
  BY DEF Minute, TimerPreempts, keys
<1>2. UNCHANGED <<button, Long_Sem_Counter, window>>
  BY DEF Minute, TimerPreempts, keys, votes
<1>3. LCD_Flag' \in {2, LCD_Flag}
  BY DEF Minute, TimerPreempts, LcdBacklightTimerCallback
<1>4. (~pressed /\ button = Poll) \/ button.callback = "down"
  BY DEF Minute, TimerPreempts
<1> QED BY <1>1, <1>2, <1>3, <1>4

\* The lcd thread and the threads that open the screen.
LEMMA LcdPress ==
  ASSUME PressInv, LightInv, lcd_task \/ RestartAwake \/ Jump
  PROVE  PressInv'
<1>1. UNCHANGED <<pressed, OnceFlag, blind>>
  BY DEF lcd_task, lcd_refresh_from_sleep, MenuEnter, SearchPass, UpdateEnter,
         RestartAwake, Jump, keys
<1>2. UNCHANGED <<button, Long_Sem_Counter>> /\ delay' \in {2, delay}
  BY DEF lcd_task, lcd_refresh_from_sleep, MenuEnter, SearchPass, UpdateEnter,
         RestartAwake, Jump, LCD_Restart, keys, screen
<1>3. LCD_Flag' = LCD_Flag \/ (LCD_Flag = 3 /\ LCD_Flag' = 2)
  BY DEF lcd_task, lcd_refresh_from_sleep, MenuEnter, SearchPass, UpdateEnter,
         RestartAwake, Jump, OpenLcdDisplayNoBL, screen
<1>4. window' \in {"closed", "open", "searching"}
  BY DEF lcd_task, lcd_refresh_from_sleep, MenuEnter, SearchPass, UpdateEnter,
         RestartAwake, Jump, votes
<1> QED BY <1>1, <1>2, <1>3, <1>4

\* The motor, the supply, the other voters, sleep and waking.  A held key is awake.
LEMMA VoterPress ==
  ASSUME PressInv, LightInv,
         \/ Moto_Cycle \/ Moto_Cycle_Done \/ PowerTimer \/ OtherVote
         \/ BeforeSleep \/ WakeShown \/ WakeHidden
  PROVE  PressInv'
<1>1. UNCHANGED <<pressed, OnceFlag, blind>>
  BY DEF Moto_Cycle, Moto_Cycle_Done, PowerTimer, OtherVote, BeforeSleep,
         WakeShown, WakeHidden, keys
<1>2. UNCHANGED <<button, Long_Sem_Counter, window>> /\ delay' \in {2, delay}
  BY DEF Moto_Cycle, Moto_Cycle_Done, PowerTimer, OtherVote, BeforeSleep, WakeShown,
         WakeHidden, LCD_Restart, keys, votes, screen
<1>3. LCD_Flag' = LCD_Flag \/ BeforeSleep
  BY DEF Moto_Cycle, Moto_Cycle_Done, PowerTimer, OtherVote, WakeShown, WakeHidden,
         screen
<1>4. BeforeSleep =>
        /\ LCD_Flag' = 3 /\ ~(delay > 0)
        /\ ~(button.at \in {"light", "power", "refresh"})
  BY DEF BeforeSleep, Vote, Ready
<1>5. BeforeSleep => LCD_Flag' = 3 /\ Long_Sem_Counter = 0 /\ button.callback # "long"
  BY <1>4
<1> QED BY <1>1, <1>2, <1>3, <1>5

\* So every step keeps it.
LEMMA NextKeepsPress ==
  ASSUME PressInv, LightInv, ScreenFlags, [Next]_vars
  PROVE  PressInv'
<1>1. CASE UNCHANGED vars
  BY <1>1 DEF vars, screen, keys, votes
<1>2. CASE Next
  BY <1>2, ButtonPress, TimerPress, LcdPress, VoterPress DEF Next
<1> QED BY <1>1, <1>2

\* Every step keeps the flags Boolean.
LEMMA NextKeepsFlags ==
  ASSUME ScreenFlags, [Next]_vars
  PROVE  ScreenFlags'
<1>1. ASSUME NEW c \in Callbacks, OpenLcdDisplay(c) PROVE ScreenFlags'
  <2>1. OnceFlag' \in BOOLEAN
    BY <1>1, Zenon DEF OpenLcdDisplay, ScreenFlags
  <2> QED BY <1>1, <2>1, Zenon DEF OpenLcdDisplay, ScreenFlags, votes
<1>2. CASE LetGo
  BY <1>2, Zenon DEF LetGo, ScreenFlags, screen, votes
<1>3. CASE Light
  BY <1>3, Zenon DEF Light, ScreenFlags, votes
<1>4. CASE Refresh
  <2>1. OnceFlag' \in BOOLEAN /\ blind' \in BOOLEAN
    BY <1>4, Zenon DEF Refresh, Click, ScreenFlags
  <2> QED BY <1>4, <2>1, Zenon DEF Refresh, ScreenFlags, votes
<1>5. CASE Minute
  <2>1. bk' \in BOOLEAN /\ timer' \in BOOLEAN
    BY <1>5, Zenon DEF Minute, LcdBacklightTimerCallback, ScreenFlags
  <2> QED BY <1>5, <2>1, Zenon DEF Minute, ScreenFlags, keys, votes
<1>6. CASE TimerPreempts
  BY <1>6, Zenon DEF TimerPreempts, LcdBacklightTimerCallback, ScreenFlags, keys, votes
<1>7. CASE lcd_refresh_from_sleep
  BY <1>7, Zenon DEF lcd_refresh_from_sleep, OpenLcdDisplayNoBL, ScreenFlags, keys, votes
<1>8. CASE MenuEnter
  BY <1>8, Zenon DEF MenuEnter, ScreenFlags, screen
<1>9. CASE SearchPass
  BY <1>9, Zenon DEF SearchPass, ScreenFlags
<1>10. CASE UpdateEnter
  BY <1>10, Zenon DEF UpdateEnter, ScreenFlags, screen
<1>11. CASE RestartAwake
  BY <1>11, Zenon DEF RestartAwake, LCD_Restart, ScreenFlags, keys, votes
<1>12. CASE Jump
  BY <1>12, Zenon DEF Jump, OpenLcdDisplayNoBL, ScreenFlags, keys, votes
<1>13. CASE Moto_Cycle
  BY <1>13, Zenon DEF Moto_Cycle, ScreenFlags, keys
<1>14. CASE Moto_Cycle_Done
  BY <1>14, Zenon DEF Moto_Cycle_Done, ScreenFlags, keys
<1>15. CASE PowerTimer
  <2>1. timer' \in BOOLEAN
    BY <1>15, Zenon DEF PowerTimer, ScreenFlags
  <2> QED BY <1>15, <2>1, Zenon DEF PowerTimer, ScreenFlags, keys, votes
<1>16. CASE OtherVote
  BY <1>16, Zenon DEF OtherVote, ScreenFlags, screen, keys
<1>17. CASE BeforeSleep
  BY <1>17, Zenon DEF BeforeSleep, ScreenFlags, keys, votes
<1>18. CASE WakeShown
  BY <1>18, Zenon DEF WakeShown, LCD_Restart, ScreenFlags, keys, votes
<1>19. CASE WakeHidden
  BY <1>19, Zenon DEF WakeHidden, ScreenFlags, screen, keys, votes
<1>20. CASE UNCHANGED vars
  BY <1>20, Zenon DEF vars, ScreenFlags, screen, keys, votes
<1> QED BY <1>1, <1>2, <1>3, <1>4, <1>5, <1>6, <1>7, <1>8, <1>9, <1>10, <1>11, <1>12,
           <1>13, <1>14, <1>15, <1>16, <1>17, <1>18, <1>19, <1>20 DEF Next, lcd_task

\* A long press reaches the windows only with the screen unlocked: a held key keeps
\* the vote fresh, so neither the timer nor sleep locks the screen between two of its
\* callbacks (K0_LongSem_Release does not look at LCD_Flag).
THEOREM LongPressIsSeen == Spec => []LongPressSeen
<1>1. Init => PressInv /\ ScreenFlags
  <2>1. Init => ScreenFlags
    BY Zenon DEF Init, ScreenFlags
  <2> QED BY <2>1 DEF Init
<1>2. LightInv /\ PressInv /\ ScreenFlags /\ [Next]_vars => PressInv'
  BY NextKeepsPress
<1>3. ScreenFlags /\ [Next]_vars => ScreenFlags'
  BY NextKeepsFlags
<1>4. LightInv /\ PressInv /\ ScreenFlags /\ SupplyInv => LongPressSeen
  <2> SUFFICES ASSUME LightInv, PressInv, ScreenFlags, SupplyInv PROVE LongPressSeen
    OBVIOUS
  <2>1. {bk, timer, asleep, pressed, OnceFlag, motor, other, blind} \subseteq BOOLEAN
    BY Zenon DEF ScreenFlags
  <2>2. delay \in 0..2 /\ K2_Sem \in Nat /\ lcd_refresh_sem \in Nat
        /\ lapse \subseteq {"jump", "search", "init"}
    BY DEF LightInv
  <2>3. PowerTypeOK
    BY DEF SupplyInv
  <2>4. TypeOK
    BY <2>1, <2>2, <2>3, Zenon DEF TypeOK
  <2> QED BY <2>4, Zenon DEF LongPressSeen
<1> QED BY <1>1, <1>2, <1>3, <1>4, LightSafe, SupplyKept, ScreenRefinesPower, PTL DEF Spec
-----------------------------------------------------------------------------
(* A restart of the screen.                                                 *)

HIDE DEF PressInv, PressType, HeldAwake, LongUnlocks

\* The device does not sleep over a restart that waits for the lcd thread.
RestartWaits == lcd_refresh_sem > 0 => ~asleep

\* What a step does to one: it is taken only by opening the screen.
RestartStep ==
  lcd_refresh_sem > 0 => LCD_Flag' # 3 \/ (lcd_refresh_sem' >= lcd_refresh_sem /\ ~asleep')

\* A step that takes no restart and does not fall asleep.
LEMMA RestartStays ==
  ASSUME RestartWaits, lcd_refresh_sem \in Nat, UNCHANGED lcd_refresh_sem,
         asleep' => asleep
  PROVE  RestartWaits' /\ RestartStep
BY DEF RestartWaits, RestartStep

\* Every step.
LEMMA NextRestart ==
  ASSUME RestartWaits, lcd_refresh_sem \in Nat, [Next]_vars
  PROVE  RestartWaits' /\ RestartStep
<1>1. CASE lcd_refresh_from_sleep
  <2>1. LCD_Flag' # 3
    BY <1>1 DEF lcd_refresh_from_sleep, OpenLcdDisplayNoBL
  <2>2. ~asleep'
    BY <1>1 DEF lcd_refresh_from_sleep
  <2> QED BY <2>1, <2>2 DEF RestartWaits, RestartStep
<1>2. CASE RestartAwake \/ WakeShown
  <2>1. ~asleep'
    BY <1>2, Zenon DEF RestartAwake, WakeShown
  <2>2. lcd_refresh_sem' \in {lcd_refresh_sem, lcd_refresh_sem + 1}
    BY <1>2 DEF RestartAwake, WakeShown, LCD_Restart
  <2> QED BY <2>1, <2>2 DEF RestartWaits, RestartStep
<1>3. CASE BeforeSleep
  <2>1. ~(lcd_refresh_sem > 0) /\ UNCHANGED lcd_refresh_sem
    BY <1>3 DEF BeforeSleep, Ready
  <2> QED BY <2>1 DEF RestartWaits, RestartStep
<1>4. CASE WakeHidden
  <2>1. ~asleep' /\ UNCHANGED lcd_refresh_sem
    BY <1>4, Zenon DEF WakeHidden
  <2> QED BY <2>1, RestartStays
<1>5. CASE UNCHANGED vars
  BY <1>5, RestartStays DEF vars
<1>6. CASE \/ \E c \in Callbacks : OpenLcdDisplay(c)
           \/ LetGo \/ Light \/ Refresh \/ Minute \/ TimerPreempts
           \/ MenuEnter \/ SearchPass \/ UpdateEnter \/ Jump
           \/ Moto_Cycle \/ Moto_Cycle_Done \/ PowerTimer \/ OtherVote
  <2>1. UNCHANGED <<lcd_refresh_sem, asleep>>
    BY <1>6 DEF OpenLcdDisplay, LetGo, Light, Refresh, Minute, TimerPreempts, MenuEnter,
       SearchPass, UpdateEnter, Jump, Moto_Cycle, Moto_Cycle_Done, PowerTimer, OtherVote
  <2> QED BY <2>1, RestartStays
<1> QED BY <1>1, <1>2, <1>3, <1>4, <1>5, <1>6 DEF Next, lcd_task

\* A restart of the screen that LCD_Restart has asked for is never slept over, and no
\* thread takes it from the lcd thread: lcd_refresh_from_sleep can run until the
\* screen is open, and its pass opens it.  It is the part of WakeShows that does not
\* depend on fairness.
THEOREM RestartNotLost == Spec => []RestartWaits /\ [][RestartStep]_vars
<1>1. Init => RestartWaits
  BY DEF Init, RestartWaits
<1>2. LightInv => lcd_refresh_sem \in Nat
  BY DEF LightInv
<1>3. LightInv /\ RestartWaits /\ [Next]_vars => RestartWaits' /\ [RestartStep]_vars
  BY <1>2, NextRestart
<1> QED BY <1>1, <1>3, LightSafe, PTL DEF Spec
=============================================================================

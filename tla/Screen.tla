------------------------------- MODULE Screen -------------------------------
(***************************************************************************)
(* The screen and sleep: applications/low.c, display/12864.c, key.c, with  *)
(* the supply of module Power and what the motor, the update window and    *)
(* the other threads do to the screen.                                     *)
(*                                                                         *)
(* ScreenTimerRefresh starts the timer that darkens the screen after one   *)
(* minute and a vote against sleep for two.  The motor and the update      *)
(* window stop the timer and hold votes of their own.  The device sleeps   *)
(* when no vote is held and no thread is ready: a thread in a delay does   *)
(* not count.  BeforeSleep takes the power of the screen and leaves the    *)
(* pin of the backlight alone.                                             *)
(*                                                                         *)
(* lcd_gpio_init, which LcdInit and LCD_Restart call, sets that pin: every *)
(* way to open a screen that was off lights it.                            *)
(***************************************************************************)
EXTENDS Power

CONSTANT MaxClicks      \* bound: Enter clicks and refreshes that wait

ASSUME MaxClicksAssumption == MaxClicks \in Nat \ {0}

VARIABLES
  LCD_Flag,             \* 0 lit, 1 lit but locked, 2 dark, 3 off
  bk,                   \* LCD_BK_PIN is high
  timer,                \* Screen_Backlight_Timer runs
  delay,                \* minutes left of the vote PM_LCD_ID
  asleep,
  lcd_refresh_sem,
  button,               \* the button thread: in which callback, and where
  pressed, OnceFlag, Long_Sem_Counter,
  K2_Sem,               \* Enter clicks that wait for a window
  motor,                \* the motor runs and holds PM_MOTO_ID
  window,               \* the update window: "closed", "open" or "searching"
  other,                \* a vote of another thread: the clock, storage, reports
  blind,                \* history: a click was passed on with the screen locked
  lapse                 \* history: what may leave the backlight on

screen == <<LCD_Flag, bk, timer, delay, lapse>>
keys == <<button, pressed, OnceFlag, Long_Sem_Counter, K2_Sem, blind>>
votes == <<motor, window, other>>
vars == <<screen, asleep, lcd_refresh_sem, keys, votes, power>>

Poll == [at |-> "poll", callback |-> "none"]

ScreenTimerRefresh == timer' = TRUE /\ delay' = 2

-----------------------------------------------------------------------------
(* The button thread.  One key stands for the three: its press is Enter's   *)
(* (K2_Sem_Release), its long press Up's (K0_LongSem_Release).              *)

\* What each callback does first.  A long press of a key that has been reported
\* repeats it.
Callbacks == {"down", "long", "free"}

\* Faulty variant: only a press opens the screen.
OpenedFlag_Press(c) ==
  CASE c # "down" -> LCD_Flag
    [] LCD_Flag \in {2, 3} -> 1
    [] OTHER -> 0

\* OpenLcdDisplay writes the flag first.
OpenedFlag(c) == IF LCD_Flag \in {2, 3} THEN 1 ELSE 0

OpenLcdDisplay(c) ==
  /\ ~asleep /\ button = Poll
  /\ (c = "down") # pressed
  /\ c = "free" => Long_Sem_Counter > 0
  /\ pressed' = (c # "free")
  /\ IF c = "free" THEN OnceFlag' = FALSE /\ Long_Sem_Counter' = 0
                   ELSE UNCHANGED <<OnceFlag, Long_Sem_Counter>>
  /\ LCD_Flag' = OpenedFlag(c)
  /\ button' = [at |-> CASE LCD_Flag = 0 -> "refresh"
                         [] LCD_Flag \in {1, 2} -> "light"
                         [] LCD_Flag = 3 -> "power",
                callback |-> c]
  /\ UNCHANGED <<bk, timer, delay, lapse, asleep, lcd_refresh_sem, K2_Sem, blind,
                 votes, power>>

\* A key that was not held long is let go: no callback.
LetGo ==
  /\ ~asleep /\ button = Poll /\ pressed /\ Long_Sem_Counter = 0
  /\ pressed' = FALSE
  /\ UNCHANGED <<screen, asleep, lcd_refresh_sem, button, OnceFlag, Long_Sem_Counter,
                 K2_Sem, blind, votes, power>>

\* The pin follows; LcdInit waits after it.
Light ==
  /\ ~asleep /\ button.at \in {"light", "power"}
  /\ bk' = TRUE
  /\ button' = [button EXCEPT !.at = IF @ = "power" THEN "init" ELSE "refresh"]
  /\ UNCHANGED <<LCD_Flag, timer, delay, lapse, asleep, lcd_refresh_sem, pressed,
                 OnceFlag, Long_Sem_Counter, K2_Sem, blind, votes, power>>

\* Passed on: a press when the screen is unlocked, the second callback of a long
\* press, and every later one as a click.
Click ==
  \/ /\ button.callback = "down"
     /\ K2_Sem' = IF LCD_Flag = 0 /\ K2_Sem < MaxClicks THEN K2_Sem + 1 ELSE K2_Sem
     /\ UNCHANGED <<OnceFlag, Long_Sem_Counter, blind>>
  \/ /\ button.callback = "long"
     /\ Long_Sem_Counter' = 1
     /\ OnceFlag' = (OnceFlag \/ Long_Sem_Counter > 0)
     /\ blind' = (blind \/ (OnceFlag' /\ LCD_Flag # 0))
     /\ UNCHANGED K2_Sem
  \/ /\ button.callback = "free"
     /\ UNCHANGED <<OnceFlag, Long_Sem_Counter, K2_Sem, blind>>

Refresh ==
  /\ ~asleep /\ button.at \in {"init", "refresh"}
  /\ ScreenTimerRefresh
  /\ Click
  /\ button' = Poll
  /\ UNCHANGED <<LCD_Flag, bk, lapse, asleep, lcd_refresh_sem, pressed, votes, power>>

-----------------------------------------------------------------------------
(* The timer and the lcd thread.                                            *)

\* Faulty variant: the pin is left alone.
LcdBacklightTimerCallback_Lit ==
  LCD_Flag' = 2 /\ timer' = FALSE /\ UNCHANGED <<bk, lapse>>

LcdBacklightTimerCallback ==
  LCD_Flag' = 2 /\ bk' = FALSE /\ timer' = FALSE /\ lapse' = {}

\* A minute after the refresh the timer fires, and after another the vote ends;
\* threads that are ready run before.  (While a key is held the callbacks refresh.)
Minute ==
  /\ ~asleep /\ delay > 0 /\ ~pressed
  /\ lcd_refresh_sem = 0 /\ button = Poll /\ window # "open" /\ K2_Sem = 0
  /\ delay' = delay - 1
  /\ IF delay = 2 /\ timer THEN LcdBacklightTimerCallback
                           ELSE UNCHANGED <<LCD_Flag, bk, timer, lapse>>
  /\ UNCHANGED <<asleep, lcd_refresh_sem, keys, votes, power>>

\* The timer preempts the button thread between its two writes.
TimerPreempts ==
  /\ ~asleep /\ timer /\ delay = 2 /\ button.callback = "down"
  /\ LcdBacklightTimerCallback
  /\ delay' = 1
  /\ UNCHANGED <<asleep, lcd_refresh_sem, keys, votes, power>>

\* LCD_Restart, from a wake-up, the clock or the report timer.
LCD_Restart ==
  /\ ScreenTimerRefresh
  /\ IF LCD_Flag = 3
     THEN /\ bk' = TRUE
          /\ lcd_refresh_sem' = IF lcd_refresh_sem < MaxClicks THEN lcd_refresh_sem + 1
                                                               ELSE lcd_refresh_sem
     ELSE UNCHANGED <<bk, lcd_refresh_sem>>

\* Faulty variant: the screen stays off.
OpenLcdDisplayNoBL_Off == UNCHANGED <<LCD_Flag, bk>>

OpenLcdDisplayNoBL ==
  IF LCD_Flag = 3 THEN LCD_Flag' = 2 /\ bk' = TRUE ELSE UNCHANGED <<LCD_Flag, bk>>

lcd_refresh_from_sleep ==
  /\ ~asleep /\ lcd_refresh_sem > 0
  /\ lcd_refresh_sem' = lcd_refresh_sem - 1
  /\ OpenLcdDisplayNoBL
  /\ UNCHANGED <<timer, delay, lapse, asleep, keys, votes, power>>

RestartAwake ==
  /\ ~asleep /\ LCD_Restart
  /\ UNCHANGED <<LCD_Flag, lapse, asleep, keys, votes, power>>

\* JumptoReminder, JumptoAutomatic and JumptoDelta, and a backwash the cloud asks
\* for: the screen is opened, the timer not started.
Jump ==
  /\ ~asleep /\ OpenLcdDisplayNoBL
  /\ lapse' = IF LCD_Flag = 3 /\ ~timer THEN lapse \cup {"jump"} ELSE lapse
  /\ UNCHANGED <<timer, delay, asleep, lcd_refresh_sem, keys, votes, power>>

-----------------------------------------------------------------------------
(* The motor and the update window.                                         *)

Moto_Cycle ==
  /\ ~asleep /\ ~motor /\ LowVoltageFlag = 0 /\ window = "closed"
  /\ motor' = TRUE
  /\ timer' = FALSE
  /\ UNCHANGED <<LCD_Flag, bk, delay, lapse, asleep, lcd_refresh_sem, keys, window,
                 other, power>>

\* Faulty variant: the timer stays stopped.
Moto_Cycle_Done_Stopped ==
  /\ ~asleep /\ motor /\ motor' = FALSE
  /\ UNCHANGED <<screen, asleep, lcd_refresh_sem, keys, window, other, power>>

Moto_Cycle_Done ==
  /\ ~asleep /\ motor
  /\ ScreenTimerRefresh
  /\ motor' = FALSE
  /\ UNCHANGED <<LCD_Flag, bk, lapse, asleep, lcd_refresh_sem, keys, window, other,
                 power>>

\* A window takes an Enter: the menu may open the update window.
MenuEnter ==
  /\ ~asleep /\ window = "closed" /\ K2_Sem > 0
  /\ K2_Sem' = K2_Sem - 1
  /\ window' \in {"closed", "open"}
  /\ UNCHANGED <<screen, asleep, lcd_refresh_sem, button, pressed, OnceFlag,
                 Long_Sem_Counter, blind, motor, other, power>>

\* Its first pass.  An Enter that waits closes it, and the search begins none the
\* less.
SearchPass ==
  /\ ~asleep /\ window = "open"
  /\ timer' = FALSE
  /\ IF K2_Sem > 0
     THEN K2_Sem' = K2_Sem - 1 /\ window' = "closed" /\ lapse' = lapse \cup {"search"}
     ELSE window' = "searching" /\ UNCHANGED <<K2_Sem, lapse>>
  /\ UNCHANGED <<LCD_Flag, bk, delay, asleep, lcd_refresh_sem, button, pressed,
                 OnceFlag, Long_Sem_Counter, blind, motor, other, power>>

\* Enter closes it, unless a download has begun.
UpdateEnter ==
  /\ ~asleep /\ window = "searching" /\ K2_Sem > 0
  /\ K2_Sem' = K2_Sem - 1
  /\ window' \in {"closed", "searching"}
  /\ UNCHANGED <<screen, asleep, lcd_refresh_sem, button, pressed, OnceFlag,
                 Long_Sem_Counter, blind, motor, other, power>>

-----------------------------------------------------------------------------
(* The supply, other threads, sleep.                                        *)

\* Power_State_Change keeps the device awake on mains; off mains the screen gets
\* its two minutes.
PowerTimer ==
  \E dc \in BOOLEAN, v \in Volts :
     /\ ~asleep
     /\ PowerCallback(dc, v)
     /\ IF Now_DC_level = 1 /\ ~dc THEN ScreenTimerRefresh ELSE UNCHANGED <<timer, delay>>
     /\ UNCHANGED <<LCD_Flag, bk, lapse, asleep, lcd_refresh_sem, keys, votes>>

OtherVote ==
  /\ ~asleep /\ other' = ~other
  /\ UNCHANGED <<screen, asleep, lcd_refresh_sem, keys, motor, window, power>>

\* A thread is ready; one in LcdInit waits.
Ready ==
  \/ lcd_refresh_sem > 0 \/ window = "open" \/ K2_Sem > 0
  \/ button.at \in {"light", "power", "refresh"}

Vote == delay > 0 \/ motor \/ window # "closed" \/ other \/ Now_DC_level = 1

BeforeSleep ==
  /\ ~asleep /\ ~Vote /\ ~Ready
  /\ asleep' = TRUE
  /\ LCD_Flag' = 3
  /\ lapse' = IF button # Poll THEN lapse \cup {"init"} ELSE lapse
  /\ UNCHANGED <<bk, timer, delay, lcd_refresh_sem, keys, votes, power>>

\* A key or the pressure switch, whose interrupt has set its flag: user_notify
\* restarts the screen.
WakeShown ==
  /\ asleep /\ asleep' = FALSE
  /\ LCD_Restart
  /\ UNCHANGED <<LCD_Flag, lapse, keys, votes, power>>

\* The clock, the report timer, or a flag that comes too late.
WakeHidden ==
  /\ asleep /\ asleep' = FALSE
  /\ UNCHANGED <<screen, lcd_refresh_sem, keys, votes, power>>

-----------------------------------------------------------------------------
Init ==
  /\ PowerInit
  /\ LCD_Flag = 0 /\ bk = TRUE /\ timer = TRUE /\ delay = 2 /\ lapse = {}
  /\ asleep = FALSE /\ lcd_refresh_sem = 0
  /\ button = Poll /\ pressed = FALSE /\ OnceFlag = FALSE /\ Long_Sem_Counter = 0
  /\ K2_Sem = 0 /\ blind = FALSE
  /\ motor = FALSE /\ window = "closed" /\ other = FALSE

lcd_task == lcd_refresh_from_sleep \/ MenuEnter \/ SearchPass \/ UpdateEnter

Next ==
  \/ \E c \in Callbacks : OpenLcdDisplay(c)
  \/ LetGo \/ Light \/ Refresh
  \/ Minute \/ TimerPreempts
  \/ lcd_task \/ RestartAwake \/ Jump
  \/ Moto_Cycle \/ Moto_Cycle_Done
  \/ PowerTimer \/ OtherVote
  \/ BeforeSleep \/ WakeShown \/ WakeHidden

Spec == Init /\ [][Next]_vars

\* The lcd thread makes a pass every 10 ms.
FairSpec == Spec /\ WF_vars(lcd_refresh_from_sleep)

-----------------------------------------------------------------------------
(* Properties.                                                              *)

TypeOK ==
  /\ PowerTypeOK
  /\ LCD_Flag \in 0..3 /\ delay \in 0..2 /\ K2_Sem \in Nat /\ lcd_refresh_sem \in Nat
  /\ {bk, timer, asleep, pressed, OnceFlag, motor, other, blind} \subseteq BOOLEAN
  /\ Long_Sem_Counter \in {0, 1} /\ window \in {"closed", "open", "searching"}
  /\ lapse \subseteq {"jump", "search", "init"}

\* The backlight is off while the device sleeps (BeforeSleep does not switch it
\* off), except for the three lapses.
DarkWhenAsleep == asleep /\ bk => lapse # {}

\* A lit screen gets dark: its timer runs, or someone who will start it holds the
\* device awake.
LitHasTimer ==
  bk => timer \/ motor \/ window # "closed" \/ lapse # {} \/ button # Poll

\* A long press reaches the windows only when the screen is unlocked: its callbacks
\* (K0_LongSem_Release) do not look at the flag.
LongPressSeen == TypeOK /\ ~blind

\* A restarted screen is shown (LCD_Restart, lcd_refresh_from_sleep).
WakeShows == lcd_refresh_sem > 0 ~> LCD_Flag # 3
=============================================================================

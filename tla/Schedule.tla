------------------------------ MODULE Schedule ------------------------------
(***************************************************************************)
(* The reminder and the automatic backwash: applications/rtc.c.            *)
(*                                                                         *)
(* An alarm interrupt fires every hour, counts the elapsed time of every   *)
(* enabled timer in RAM and wakes the check thread, which saves each count *)
(* in flash or, when it has reached the period, restarts it and opens the  *)
(* window of the timer.  Meanwhile the menu (the lcd thread) and the cloud *)
(* (the uart thread) change periods store by store, the motor cycle clears *)
(* the counts in RAM only, and power may fail between any two stores.      *)
(*                                                                         *)
(* Alarms are an hour apart and a check takes seconds: no alarm comes      *)
(* before the check of the previous one has ended.  Week, Day and Enable   *)
(* are the same in RAM and in flash here; how the two can differ is the    *)
(* subject of Settings.                                                    *)
(***************************************************************************)
EXTENDS Naturals, Sequences

CONSTANTS
  DayHours, WeekDays,              \* 24 and 7
  LongWeek, ShortWeek, ShortDay,   \* 9, 8 and 5: what syr_range_set does
  Weeks,                           \* the weeks a user may choose
  Changed                          \* the timers users change

ASSUME ScheduleAssumption ==
  /\ DayHours \in Nat \ {0} /\ WeekDays \in Nat \ {0}
  /\ LongWeek \in Nat /\ ShortWeek \in Nat /\ ShortDay \in Nat
  /\ Weeks \subseteq Nat /\ Changed \subseteq {"Reminder", "Automatic"}

VARIABLES
  Enable, Week, Day,   \* Reminder_Enable ..., Automatic_Day, for each timer
  Time,                \* RTC_Reminder_Time, RTC_Automatic_Time
  saved,               \* their copies in flash, keys 16 and 17
  RTC_Check_Sem,       \* a check is due
  pmRtc,               \* PM_RTC_ID holds a request not to sleep
  pc, cur,             \* where the check thread is, and at which timer
  arg,                 \* the argument of the Flash_Set it is inside of
  opened,              \* the windows the latest check has opened
  todo,                \* for the lcd and the uart thread, the stores to come
  hours,               \* history: alarms of an enabled timer since its restart
  cleared,             \* history: restarted in RAM, flash has the old count
  revived,             \* history: booted with that old count
  edited,              \* history: period changed, no check has saved since
  behind,              \* history: a tick was left out of flash for good
  argOld, argEdited    \* history: restarted, edited since arg was evaluated

stored == <<Enable, Week, Day>>
check  == <<RTC_Check_Sem, pmRtc, pc, cur, arg, opened>>
hist   == <<hours, cleared, revived, edited, behind, argOld, argEdited>>
vars   == <<stored, Time, saved, check, todo, hist>>

Timers  == {"Reminder", "Automatic"}
Editors == {"lcd", "uart"}

Period(p) == Week[p] * WeekDays * DayHours + Day[p] * DayHours

\* Faulty variants: a tick early, a tick late.
Due_Early(p) == Enable[p] /\ Time[p] + 1 >= Period(p)
Due_Late(p) == Enable[p] /\ Time[p] > Period(p)

Due(p) == Enable[p] /\ Time[p] >= Period(p)
Checking == RTC_Check_Sem \/ pc \notin {"off", "idle"}
InFlight(p) == pc \in {"zero", "save"} /\ cur = p

\* The counts of the timers in S restart, in RAM only.
Restart(S) ==
  /\ Time' = [p \in Timers |-> IF p \in S THEN 0 ELSE Time[p]]
  /\ hours' = [p \in Timers |-> IF p \in S THEN 0 ELSE hours[p]]
  /\ cleared' = [p \in Timers |-> p \in S \/ cleared[p]]
  /\ revived' = [p \in Timers |-> p \notin S /\ revived[p]]

-----------------------------------------------------------------------------
(* The alarm interrupt.                                                     *)

RTC_Counter_Increase ==
  LET Tick(f) == [p \in Timers |-> IF Enable[p] THEN f[p] + 1 ELSE f[p]]
  IN  Time' = Tick(Time) /\ hours' = Tick(hours)

RTC_Alarm ==
  /\ pc # "off" /\ ~Checking
  /\ RTC_Counter_Increase
  /\ RTC_Check_Sem' = TRUE
  /\ pmRtc' = TRUE
  /\ UNCHANGED <<stored, saved, pc, cur, arg, opened, todo, cleared, revived,
                 edited, behind, argOld, argEdited>>

-----------------------------------------------------------------------------
(* The check thread.                                                        *)

Take ==
  /\ pc = "idle" /\ RTC_Check_Sem
  /\ RTC_Check_Sem' = FALSE
  /\ pc' = "examine" /\ cur' = "Reminder" /\ opened' = {}
  /\ UNCHANGED <<stored, Time, saved, pmRtc, arg, todo, hist>>

\* Faulty variant: the device never sleeps again.
Proceed_Awake ==
  /\ UNCHANGED pmRtc
  /\ \/ cur = "Reminder" /\ pc' = "examine" /\ cur' = "Automatic"
     \/ cur = "Automatic" /\ pc' = "idle" /\ cur' = "Reminder"

\* On to the second timer, or back to sleep.
Proceed ==
  \/ /\ cur = "Reminder"
     /\ pc' = "examine" /\ cur' = "Automatic"
     /\ UNCHANGED pmRtc
  \/ /\ cur = "Automatic"
     /\ pc' = "idle" /\ cur' = "Reminder"
     /\ pmRtc' = FALSE

\* A disabled timer is left alone, a tick that came before it was disabled too.
Skip ==
  /\ pc = "examine" /\ ~Enable[cur]
  /\ Proceed
  /\ behind' = [behind EXCEPT ![cur] = @ \/ Time[cur] > saved[cur]]
  /\ UNCHANGED <<stored, Time, saved, RTC_Check_Sem, arg, opened, todo, hours,
                 cleared, revived, edited, argOld, argEdited>>

Fire ==
  /\ pc = "examine" /\ Due(cur)
  /\ Restart({cur})
  /\ pc' = "zero" /\ arg' = 0
  /\ argOld' = FALSE /\ argEdited' = FALSE
  /\ UNCHANGED <<stored, saved, RTC_Check_Sem, pmRtc, cur, opened, todo, edited,
                 behind>>

\* Faulty variant: the count is not saved.
Keep_Unsaved ==
  /\ pc = "examine" /\ Enable[cur] /\ ~Due(cur)
  /\ Proceed
  /\ UNCHANGED <<stored, Time, saved, RTC_Check_Sem, arg, opened, todo, hist>>

\* Flash_Set evaluates its argument and waits for the store.
Keep ==
  /\ pc = "examine" /\ Enable[cur] /\ ~Due(cur)
  /\ pc' = "save" /\ arg' = Time[cur]
  /\ argOld' = FALSE /\ argEdited' = FALSE
  /\ UNCHANGED <<stored, Time, saved, RTC_Check_Sem, pmRtc, cur, opened, todo,
                 hours, cleared, revived, edited, behind>>

\* Faulty variant: both timers write key 16.
Written_OneKey ==
  /\ saved' = [saved EXCEPT !["Reminder"] = arg]
  /\ cleared' = [cleared EXCEPT ![cur] = argOld]
  /\ edited' = [edited EXCEPT ![cur] = argEdited]
  /\ behind' = [behind EXCEPT ![cur] = FALSE]
  /\ arg' = 0 /\ argOld' = FALSE /\ argEdited' = FALSE
  /\ UNCHANGED <<stored, Time, RTC_Check_Sem, opened, todo, hours, revived>>

\* The end of Flash_Set.
Written ==
  /\ saved' = [saved EXCEPT ![cur] = arg]
  /\ cleared' = [cleared EXCEPT ![cur] = argOld]
  /\ edited' = [edited EXCEPT ![cur] = argEdited]
  /\ behind' = [behind EXCEPT ![cur] = FALSE]
  /\ arg' = 0 /\ argOld' = FALSE /\ argEdited' = FALSE
  /\ UNCHANGED <<stored, Time, RTC_Check_Sem, opened, todo, hours, revived>>

Save == pc = "save" /\ Written /\ Proceed

\* Faulty variant: the window is left out.
Zero_NoWindow == pc = "zero" /\ Written /\ Proceed

Zero == pc = "zero" /\ Written /\ pc' = "jump" /\ UNCHANGED <<cur, pmRtc>>

\* LCD_Restart, JumptoReminder or JumptoAutomatic, insert_notify_array.
Jump ==
  /\ pc = "jump"
  /\ opened' = opened \cup {cur}
  /\ Proceed
  /\ UNCHANGED <<stored, Time, saved, RTC_Check_Sem, arg, todo, hist>>

-----------------------------------------------------------------------------
(* The menu, the cloud and the motor cycle.  One store at a time.           *)

Stores == [what : {"Week", "Day", "Enable", "Time", "Clear", "Flash", "Range"},
           p : Timers, v : Nat]
StoreOf(what, p, v) == [what |-> what, p |-> p, v |-> v]
Begin(e, stores) ==
  /\ pc # "off" /\ todo[e] = << >>
  /\ todo' = [todo EXCEPT ![e] = stores]
  /\ UNCHANGED <<stored, Time, saved, check, hist>>

\* A settings window confirmed: the count restarts if the period changed.
MenuConfirm(p, w, d, on) ==
  Begin("lcd",
        (IF w # Week[p] \/ d # Day[p]
         THEN <<StoreOf("Week", p, w), StoreOf("Day", p, d), StoreOf("Time", p, 0)>>
         ELSE << >>) \o <<StoreOf("Enable", p, on)>>)

\* A manual backwash: RTC_Reset.
RTC_Reset ==
  Begin("lcd", <<StoreOf("Clear", "Reminder", 0), StoreOf("Flash", "Reminder", 0),
                 StoreOf("Flash", "Automatic", 0)>>)

\* syr_remind_time_set, syr_auto_time_set: in days, the week kept in 8 bits, and
\* the count goes on.
syr_time_set(p, v) ==
  Begin("uart", <<StoreOf("Week", p, (v \div WeekDays) % 256),
                  StoreOf("Day", p, v % WeekDays)>>)

syr_switch_set(p, on) == Begin("uart", <<StoreOf("Enable", p, on)>>)

syr_range_set ==
  Begin("uart", <<StoreOf("Range", "Automatic", 0), StoreOf("Range", "Reminder", 0)>>)

\* What is left of a script after its first store, and what that store adds.
Rest(e) ==
  LET s == Head(todo[e])
  IN  (IF s.what = "Range" /\ Week[s.p] > LongWeek
       THEN <<StoreOf("Week", s.p, ShortWeek), StoreOf("Day", s.p, ShortDay),
              StoreOf("Time", s.p, 0)>>
       ELSE << >>) \o Tail(todo[e])

\* The single stores.
Edit(p) ==
  /\ edited' = [edited EXCEPT ![p] = TRUE]
  /\ argEdited' = (argEdited \/ InFlight(p))
  /\ UNCHANGED <<Enable, Time, saved, hours, cleared, revived, behind, argOld>>

StoreWeek(p, v) == Week' = [Week EXCEPT ![p] = v] /\ UNCHANGED Day /\ Edit(p)

StoreDay(p, v) == Day' = [Day EXCEPT ![p] = v] /\ UNCHANGED Week /\ Edit(p)

StoreEnable(p, v) ==
  /\ Enable' = [Enable EXCEPT ![p] = (v = 1)]
  /\ UNCHANGED <<Week, Day, Time, saved, hist>>

StoreTime(S) ==
  /\ Restart(S)
  /\ argOld' = (argOld \/ \E p \in S : InFlight(p))
  /\ UNCHANGED <<stored, saved, edited, behind, argEdited>>

StoreFlash(p) ==
  /\ saved' = [saved EXCEPT ![p] = 0]
  /\ cleared' = [cleared EXCEPT ![p] = FALSE]
  /\ behind' = [behind EXCEPT ![p] = @ \/ Time[p] # 0]
  /\ UNCHANGED <<stored, Time, hours, revived, edited, argOld, argEdited>>

Store(e) ==
  /\ pc # "off" /\ todo[e] # << >>
  /\ todo' = [todo EXCEPT ![e] = Rest(e)]
  /\ LET s == Head(todo[e])
     IN  \/ s.what = "Week" /\ StoreWeek(s.p, s.v)
         \/ s.what = "Day" /\ StoreDay(s.p, s.v)
         \/ s.what = "Enable" /\ StoreEnable(s.p, s.v)
         \/ s.what = "Time" /\ StoreTime({s.p})
         \/ s.what = "Clear" /\ StoreTime(Timers)
         \/ s.what = "Flash" /\ StoreFlash(s.p)
         \/ s.what = "Range" /\ UNCHANGED <<stored, Time, saved, hist>>
  /\ UNCHANGED check

\* Moto_Cycle restarts both counts and leaves flash alone.
RTC_Clear == pc # "off" /\ StoreTime(Timers) /\ UNCHANGED <<check, todo>>

-----------------------------------------------------------------------------
(* Power.                                                                   *)

PowerLoss ==
  /\ pc # "off"
  /\ pc' = "off" /\ cur' = "Reminder" /\ arg' = 0 /\ opened' = {}
  /\ RTC_Check_Sem' = FALSE /\ pmRtc' = FALSE
  /\ todo' = [e \in Editors |-> << >>]
  /\ argOld' = FALSE /\ argEdited' = FALSE
  /\ UNCHANGED <<stored, Time, saved, hours, cleared, revived, edited, behind>>

\* Flash2Mem and RTC_Init.
Boot ==
  /\ pc = "off"
  /\ pc' = "idle"
  /\ Time' = saved
  /\ revived' = [p \in Timers |-> revived[p] \/ cleared[p]]
  /\ cleared' = [p \in Timers |-> FALSE]
  /\ behind' = [p \in Timers |-> FALSE]
  /\ UNCHANGED <<stored, saved, RTC_Check_Sem, pmRtc, cur, arg, opened, todo,
                 hours, edited, argOld, argEdited>>

-----------------------------------------------------------------------------
\* A device set up some time ago, between two alarms.
Init ==
  /\ Enable \in [Timers -> BOOLEAN]
  /\ Week \in [Timers -> Weeks] /\ Day \in [Timers -> 1..(WeekDays - 1)]
  /\ Time = [p \in Timers |-> 0] /\ saved = Time /\ hours = Time
  /\ RTC_Check_Sem = FALSE /\ pmRtc = FALSE
  /\ pc = "idle" /\ cur = "Reminder" /\ arg = 0 /\ opened = {}
  /\ todo = [e \in Editors |-> << >>]
  /\ cleared = [p \in Timers |-> FALSE] /\ revived = cleared
  /\ edited = cleared /\ behind = cleared
  /\ argOld = FALSE /\ argEdited = FALSE

CheckStep == Take \/ Skip \/ Fire \/ Keep \/ Save \/ Zero \/ Jump

Command ==
  \/ \E p \in Changed, w \in Weeks, d \in 0..(WeekDays - 1), on \in {0, 1} :
        MenuConfirm(p, w, d, on)
  \/ \E p \in Changed, w \in Weeks, d \in 0..(WeekDays - 1) :
        syr_time_set(p, w * WeekDays + d)
  \/ \E p \in Changed, on \in {0, 1} : syr_switch_set(p, on)
  \/ RTC_Reset \/ syr_range_set

Next ==
  \/ RTC_Alarm \/ CheckStep
  \/ Command \/ \E e \in Editors : Store(e)
  \/ RTC_Clear \/ PowerLoss \/ Boot

Spec == Init /\ [][Next]_vars

\* The check thread runs: its priority is above the menu's, and the cloud's
\* thread, above its own, waits for input most of the time.
FairSpec == Spec /\ WF_vars(CheckStep)

-----------------------------------------------------------------------------
(* Properties.                                                              *)

TypeOK ==
  /\ Enable \in [Timers -> BOOLEAN] /\ Week \in [Timers -> Nat] /\ Day \in [Timers -> Nat]
  /\ Time \in [Timers -> Nat] /\ saved \in [Timers -> Nat] /\ hours \in [Timers -> Nat]
  /\ RTC_Check_Sem \in BOOLEAN /\ pmRtc \in BOOLEAN
  /\ pc \in {"off", "idle", "examine", "zero", "save", "jump"}
  /\ cur \in Timers /\ arg \in Nat /\ opened \subseteq Timers
  /\ todo \in [Editors -> Seq(Stores)]
  /\ cleared \in [Timers -> BOOLEAN] /\ revived \in [Timers -> BOOLEAN]
  /\ edited \in [Timers -> BOOLEAN] /\ behind \in [Timers -> BOOLEAN]
  /\ argOld \in BOOLEAN /\ argEdited \in BOOLEAN

\* The device stays awake for exactly as long as a check is due or under way.
CheckKeepsAwake == Checking <=> pmRtc

ScheduleInv == TypeOK /\ CheckKeepsAwake

\* No timer is ahead of the clock: its count is at most the alarms since it was
\* restarted, whatever is saved, restored and restarted in between; except after
\* a power failure between a restart in RAM and the next save.
NotAhead == \A p \in Timers : revived[p] \/ Time[p] <= hours[p]

\* So a timer fires only when its whole period has really passed.
FiresOnTime ==
  [][\A p \in Timers : (Fire /\ cur = p) => revived[p] \/ hours[p] >= Period(p)]_vars

\* A power failure costs the tick of an unfinished check and no other, unless a
\* tick was left out of flash for good.
LossBounded ==
  pc # "off" =>
     \A p \in Timers : behind[p] \/ Time[p] <= saved[p] + (IF Checking THEN 1 ELSE 0)

\* The remaining hours that the menu shows and the cloud is told, Period - Time in
\* 32 bits, do not wrap below zero, except after a change of the period that no
\* check has seen.  (A period of zero is passed by the first tick.)
RemainingFits ==
  \A p \in Timers :
     \/ edited[p] \/ behind[p] \/ pc = "off"
     \/ Time[p] <= Period(p)
     \/ Period(p) = 0 /\ Checking

\* A timer that has restarted because it was due opens its window, unless power
\* fails.
FiringOpens ==
  \A p \in Timers :
     (pc = "zero" /\ cur = p) ~> (p \in opened \/ pc = "off")

\* Every check ends and lets the device sleep.
CheckEnds == pmRtc ~> ~pmRtc
=============================================================================

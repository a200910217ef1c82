--------------------------- MODULE ScheduleProofs ---------------------------
(***************************************************************************)
(* The counts of the schedule, for periods of any length.                  *)
(***************************************************************************)
EXTENDS Schedule, TLAPS

\* A period is a number of hours.
LEMMA PeriodType == TypeOK => \A p \in Timers : Period(p) \in Nat
<1> SUFFICES ASSUME TypeOK, NEW p \in Timers PROVE Period(p) \in Nat
  OBVIOUS
<1>1. ASSUME NEW a \in Nat, NEW b \in Nat PROVE a * b \in Nat
  OBVIOUS
<1>2. Week[p] \in Nat /\ Day[p] \in Nat
  BY DEF TypeOK
<1>3. WeekDays \in Nat /\ DayHours \in Nat
  BY ScheduleAssumption
<1>4. Week[p] * WeekDays \in Nat /\ Day[p] * DayHours \in Nat
  BY <1>1, <1>2, <1>3
<1>5. Week[p] * WeekDays * DayHours \in Nat
  BY <1>1, <1>3, <1>4
<1> QED
  BY <1>4, <1>5 DEF Period

\* So it is after a step.
LEMMA PeriodTypePrime == TypeOK' => (\A p \in Timers : Period(p) \in Nat)'
BY PeriodType, PTL

-----------------------------------------------------------------------------
(* Types.                                                                   *)

Kinds == {"Week", "Day", "Enable", "Time", "Clear", "Flash", "Range"}

\* A store is a store, and a few of them are a script.
LEMMA StoreType ==
  ASSUME NEW k \in Kinds, NEW p \in Timers, NEW v \in Nat
  PROVE  StoreOf(k, p, v) \in Stores
BY DEF Kinds, StoreOf, Stores

\* A few stores in a row are a script.
LEMMA ScriptTypes ==
  ASSUME NEW a \in Stores, NEW b \in Stores, NEW c \in Stores, NEW s \in Seq(Stores)
  PROVE  /\ << >> \o s \in Seq(Stores)
         /\ <<a>> \in Seq(Stores) /\ <<a, b>> \in Seq(Stores)
         /\ <<a, b, c>> \in Seq(Stores) /\ <<a, b, c>> \o s \in Seq(Stores)
OBVIOUS

\* Starting a script and continuing one keep the type.
LEMMA BeginType ==
  ASSUME NEW e \in Editors, NEW s \in Seq(Stores), TypeOK, todo' = [todo EXCEPT ![e] = s]
  PROVE  todo' \in [Editors -> Seq(Stores)]
BY DEF TypeOK

\* Every operation starts a script of stores.
LEMMA CommandType == TypeOK /\ Command => todo' \in [Editors -> Seq(Stores)]
<1> SUFFICES ASSUME TypeOK, Command PROVE todo' \in [Editors -> Seq(Stores)]
  OBVIOUS
<1>1. ASSUME NEW p \in Changed PROVE p \in Timers
  BY ScheduleAssumption DEF Timers
<1>2. "lcd" \in Editors /\ "uart" \in Editors
  BY DEF Editors
<1>3. "Reminder" \in Timers /\ "Automatic" \in Timers
  BY DEF Timers
<1>4. ASSUME NEW p \in Changed, NEW w \in Weeks, NEW d \in 0..(WeekDays - 1),
             NEW on \in {0, 1}, MenuConfirm(p, w, d, on)
      PROVE  todo' \in [Editors -> Seq(Stores)]
  <2>1. w \in Nat /\ d \in Nat /\ on \in Nat
    BY ScheduleAssumption
  <2>2. /\ StoreOf("Week", p, w) \in Stores /\ StoreOf("Day", p, d) \in Stores
        /\ StoreOf("Time", p, 0) \in Stores /\ StoreOf("Enable", p, on) \in Stores
    BY <1>1, <2>1, StoreType DEF Kinds
  <2>3. (IF w # Week[p] \/ d # Day[p]
         THEN <<StoreOf("Week", p, w), StoreOf("Day", p, d), StoreOf("Time", p, 0)>>
         ELSE << >>) \o <<StoreOf("Enable", p, on)>> \in Seq(Stores)
    BY <2>2, ScriptTypes
  <2> QED
    BY <1>2, <1>4, <2>3, BeginType DEF MenuConfirm, Begin
<1>5. ASSUME NEW p \in Changed, NEW w \in Weeks, NEW d \in 0..(WeekDays - 1),
             syr_time_set(p, w * WeekDays + d)
      PROVE  todo' \in [Editors -> Seq(Stores)]
  <2> DEFINE v == w * WeekDays + d
  <2>1. WeekDays \in Nat \ {0} /\ w \in Nat /\ d \in Nat
    BY ScheduleAssumption
  <2>2. v \in Nat
    BY <2>1
  <2>3. syr_time_set(p, v)
    BY <1>5
  <2> HIDE DEF v
  <2>4. (v \div WeekDays) % 256 \in Nat /\ v % WeekDays \in Nat
    BY <2>1, <2>2
  <2>5. /\ StoreOf("Week", p, (v \div WeekDays) % 256) \in Stores
        /\ StoreOf("Day", p, v % WeekDays) \in Stores
    BY <1>1, <2>4, StoreType DEF Kinds
  <2>6. <<StoreOf("Week", p, (v \div WeekDays) % 256), StoreOf("Day", p, v % WeekDays)>>
          \in Seq(Stores)
    BY <2>5, ScriptTypes
  <2> QED
    BY <1>2, <2>3, <2>6, BeginType DEF syr_time_set, Begin
<1>6. ASSUME NEW p \in Changed, NEW on \in {0, 1}, syr_switch_set(p, on)
      PROVE  todo' \in [Editors -> Seq(Stores)]
  <2>1. StoreOf("Enable", p, on) \in Stores
    BY <1>1, StoreType DEF Kinds
  <2>2. <<StoreOf("Enable", p, on)>> \in Seq(Stores)
    BY <2>1, ScriptTypes
  <2> QED
    BY <1>2, <1>6, <2>2, BeginType DEF syr_switch_set, Begin
<1>7. CASE RTC_Reset
  <2>1. /\ StoreOf("Clear", "Reminder", 0) \in Stores
        /\ StoreOf("Flash", "Reminder", 0) \in Stores
        /\ StoreOf("Flash", "Automatic", 0) \in Stores
    BY <1>3, StoreType DEF Kinds
  <2>2. <<StoreOf("Clear", "Reminder", 0), StoreOf("Flash", "Reminder", 0),
          StoreOf("Flash", "Automatic", 0)>> \in Seq(Stores)
    BY <2>1, ScriptTypes
  <2> QED
    BY <1>2, <1>7, <2>2, BeginType DEF RTC_Reset, Begin
<1>8. CASE syr_range_set
  <2>1. /\ StoreOf("Range", "Automatic", 0) \in Stores
        /\ StoreOf("Range", "Reminder", 0) \in Stores
    BY <1>3, StoreType DEF Kinds
  <2>2. <<StoreOf("Range", "Automatic", 0), StoreOf("Range", "Reminder", 0)>>
          \in Seq(Stores)
    BY <2>1, ScriptTypes
  <2> QED
    BY <1>2, <1>8, <2>2, BeginType DEF syr_range_set, Begin
<1> QED
  BY <1>4, <1>5, <1>6, <1>7, <1>8 DEF Command

\* A script stays one when its first store is carried out.
LEMMA StoreStepType ==
  ASSUME NEW e \in Editors, TypeOK, Store(e)
  PROVE  todo' \in [Editors -> Seq(Stores)] /\ Head(todo[e]) \in Stores
<1>1. todo[e] \in Seq(Stores) /\ todo[e] # << >>
  BY DEF TypeOK, Store
<1>2. Head(todo[e]) \in Stores /\ Tail(todo[e]) \in Seq(Stores)
  BY <1>1
<1> DEFINE s == Head(todo[e])
<1>3. s.p \in Timers
  BY <1>2 DEF Stores
<1>4. /\ StoreOf("Week", s.p, ShortWeek) \in Stores
      /\ StoreOf("Day", s.p, ShortDay) \in Stores
      /\ StoreOf("Time", s.p, 0) \in Stores
  BY <1>3, StoreType, ScheduleAssumption DEF Kinds
<1>5. Rest(e) \in Seq(Stores)
  BY <1>2, <1>4, ScriptTypes DEF Rest
<1>6. todo' = [todo EXCEPT ![e] = Rest(e)]
  BY DEF Store
<1> QED
  BY <1>2, <1>5, <1>6, BeginType

\* Restarting counts keeps the types.
LEMMA StoreTimeType ==
  ASSUME TypeOK, \E S \in SUBSET Timers : StoreTime(S) /\ UNCHANGED check,
         todo' \in [Editors -> Seq(Stores)]
  PROVE  TypeOK'
<1>1. PICK S \in SUBSET Timers : StoreTime(S) /\ UNCHANGED check
  OBVIOUS
<1>2. Time' \in [Timers -> Nat] /\ hours' \in [Timers -> Nat]
  BY <1>1 DEF TypeOK, StoreTime, Restart
<1>3. cleared' \in [Timers -> BOOLEAN] /\ revived' \in [Timers -> BOOLEAN]
  BY <1>1 DEF TypeOK, StoreTime, Restart
<1>4. argOld' \in BOOLEAN
  BY <1>1, Zenon DEF TypeOK, StoreTime
<1>5. UNCHANGED <<Enable, Week, Day, saved, edited, behind, argEdited, RTC_Check_Sem, pmRtc,
                  pc, cur, arg, opened>>
  BY <1>1 DEF StoreTime, stored, check
<1> QED
  BY <1>2, <1>3, <1>4, <1>5 DEF TypeOK

\* Every step keeps the types.
LEMMA TypeStep == TypeOK /\ [Next]_vars => TypeOK'
<1> SUFFICES ASSUME TypeOK, [Next]_vars PROVE TypeOK'
  OBVIOUS
<1>1. CASE RTC_Alarm
  BY <1>1 DEF TypeOK, RTC_Alarm, RTC_Counter_Increase, stored
<1>2. CASE CheckStep
  <2> USE DEF TypeOK, stored, hist
  <2>1. CASE Take
    BY <2>1 DEF Take, Timers
  <2>2. CASE Skip
    BY <2>2 DEF Skip, Proceed, Timers
  <2>3. CASE Fire
    BY <2>3 DEF Fire, Restart
  <2>4. CASE Keep
    BY <2>4 DEF Keep
  <2>5. CASE Save
    BY <2>5 DEF Save, Written, Proceed, Timers
  <2>6. CASE Zero
    BY <2>6 DEF Zero, Written
  <2>7. CASE Jump
    BY <2>7 DEF Jump, Proceed, Timers
  <2> QED
    BY <1>2, <2>1, <2>2, <2>3, <2>4, <2>5, <2>6, <2>7 DEF CheckStep
<1>3. CASE Command
  <2>1. todo' \in [Editors -> Seq(Stores)]
    BY <1>3, CommandType
  <2>2. UNCHANGED <<stored, Time, saved, check, hist>>
    BY <1>3 DEF Command, MenuConfirm, syr_time_set, syr_switch_set, RTC_Reset, syr_range_set, Begin
  <2> QED
    BY <2>1, <2>2 DEF TypeOK, stored, check, hist
<1>4. ASSUME NEW e \in Editors, Store(e) PROVE TypeOK'
  <2>1. todo' \in [Editors -> Seq(Stores)]
    BY <1>4, StoreStepType
  <2>2. Head(todo[e]) \in Stores
    BY <1>4, StoreStepType
  <2> DEFINE s == Head(todo[e])
  <2>3. s.p \in Timers /\ s.v \in Nat
    BY <2>2 DEF Stores
  <2> HIDE DEF s
  <2> USE <2>1, <2>3 DEF TypeOK, stored, check, hist
  <2>4. CASE StoreWeek(s.p, s.v) /\ UNCHANGED check
    BY <2>4 DEF StoreWeek, Edit, InFlight
  <2>5. CASE StoreDay(s.p, s.v) /\ UNCHANGED check
    BY <2>5 DEF StoreDay, Edit, InFlight
  <2>6. CASE StoreEnable(s.p, s.v) /\ UNCHANGED check
    BY <2>6 DEF StoreEnable
  <2>7. CASE \E S \in SUBSET Timers : StoreTime(S) /\ UNCHANGED check
    BY <2>1, <2>7, StoreTimeType
  <2>8. CASE StoreFlash(s.p) /\ UNCHANGED check
    BY <2>8 DEF StoreFlash
  <2>9. CASE UNCHANGED <<stored, Time, saved, hist>> /\ UNCHANGED check
    BY <2>9
  <2>10. {s.p} \in SUBSET Timers
    BY <2>3
  <2> QED
    BY <1>4, <2>4, <2>5, <2>6, <2>7, <2>8, <2>9, <2>10 DEF Store, s
<1>5. CASE RTC_Clear
  <2>1. StoreTime(Timers) /\ UNCHANGED check /\ UNCHANGED todo
    BY <1>5 DEF RTC_Clear
  <2> QED
    BY <2>1, StoreTimeType DEF TypeOK
<1>6. CASE PowerLoss
  <2>1. "Reminder" \in Timers /\ << >> \in Seq(Stores)
    BY DEF Timers
  <2> QED
    BY <1>6, <2>1 DEF TypeOK, PowerLoss, stored
<1>7. CASE Boot
  BY <1>7 DEF TypeOK, Boot, stored
<1>8. CASE UNCHANGED vars
  BY <1>8 DEF TypeOK, vars, stored, check, hist
<1> QED
  BY <1>1, <1>2, <1>3, <1>4, <1>5, <1>6, <1>7, <1>8 DEF Next

-----------------------------------------------------------------------------
(* The check and sleep.                                                     *)

Awake == CheckKeepsAwake /\ (RTC_Check_Sem => pc = "idle")

\* Every step keeps the sleep vote with the check.
LEMMA AwakeStep == TypeOK /\ Awake /\ [Next]_vars => Awake'
<1> SUFFICES ASSUME TypeOK, Awake, [Next]_vars PROVE Awake'
  OBVIOUS
<1> USE DEF Awake, CheckKeepsAwake, Checking
<1>1. CASE RTC_Alarm
  BY <1>1 DEF RTC_Alarm, TypeOK
<1>2. CASE CheckStep
  BY <1>2 DEF CheckStep, Take, Skip, Fire, Keep, Save, Zero, Jump, Written, Proceed, TypeOK
<1>3. CASE UNCHANGED check
  BY <1>3 DEF check
<1>4. CASE PowerLoss \/ Boot
  BY <1>4 DEF PowerLoss, Boot, TypeOK
<1>5. Command => UNCHANGED check
  BY DEF Command, MenuConfirm, syr_time_set, syr_switch_set, RTC_Reset, syr_range_set, Begin
<1>6. \A e \in Editors : Store(e) => UNCHANGED check
  BY DEF Store
<1>7. RTC_Clear \/ UNCHANGED vars => UNCHANGED check
  BY DEF RTC_Clear, vars
<1> QED
  BY <1>1, <1>2, <1>3, <1>4, <1>5, <1>6, <1>7 DEF Next

-----------------------------------------------------------------------------
(* The effect of a step of the menu, the cloud or the motor: seen from one  *)
(* timer, one of a few stores, or none.                                     *)

Nothing == UNCHANGED <<stored, Time, saved, hist>>

UserStore ==
  \/ \E p \in Timers, v \in Nat :
        StoreWeek(p, v) \/ StoreDay(p, v) \/ StoreEnable(p, v) \/ StoreFlash(p)
  \/ \E S \in SUBSET Timers : StoreTime(S)
  \/ Nothing

\* Next, with the scripts left out.
Steps ==
  \/ RTC_Alarm \/ CheckStep
  \/ pc # "off" /\ UserStore /\ UNCHANGED check
  \/ PowerLoss \/ Boot
  \/ UNCHANGED vars

\* Every step is one of Steps.
LEMMA StepCases == TypeOK /\ [Next]_vars => Steps
<1> SUFFICES ASSUME TypeOK, [Next]_vars PROVE Steps
  OBVIOUS
<1>1. CASE Command
  <2>1. pc # "off" /\ Nothing /\ UNCHANGED check
    BY <1>1 DEF Command, MenuConfirm, syr_time_set, syr_switch_set, RTC_Reset,
                syr_range_set, Begin, Nothing
  <2> QED
    BY <2>1 DEF Steps, UserStore
<1>2. ASSUME NEW e \in Editors, Store(e) PROVE Steps
  <2> DEFINE s == Head(todo[e])
  <2>1. s \in Stores
    BY <1>2, StoreStepType
  <2>2. s.p \in Timers /\ s.v \in Nat /\ {s.p} \in SUBSET Timers
    BY <2>1 DEF Stores
  <2>3. /\ pc # "off" /\ UNCHANGED check
        /\ \/ StoreWeek(s.p, s.v) \/ StoreDay(s.p, s.v) \/ StoreEnable(s.p, s.v)
           \/ StoreFlash(s.p) \/ StoreTime({s.p}) \/ StoreTime(Timers) \/ Nothing
    BY <1>2 DEF Store, Nothing
  <2> HIDE DEF s
  <2> QED
    BY <2>2, <2>3 DEF Steps, UserStore
<1>3. CASE RTC_Clear
  <2>1. pc # "off" /\ StoreTime(Timers) /\ UNCHANGED check
    BY <1>3 DEF RTC_Clear
  <2> QED
    BY <2>1 DEF Steps, UserStore
<1> QED
  BY <1>1, <1>2, <1>3 DEF Next, Steps

-----------------------------------------------------------------------------
(* No count is ahead of the clock.                                          *)

\* What a restart does to one timer.
LEMMA RestartAt ==
  ASSUME NEW p \in Timers, NEW S \in SUBSET Timers, TypeOK, Restart(S)
  PROVE  /\ p \in S => Time'[p] = 0 /\ hours'[p] = 0 /\ cleared'[p] /\ ~revived'[p]
         /\ p \notin S => /\ Time'[p] = Time[p] /\ hours'[p] = hours[p]
                         /\ cleared'[p] = cleared[p] /\ revived'[p] = revived[p]
<1>1. /\ Time'[p] = IF p \in S THEN 0 ELSE Time[p]
      /\ hours'[p] = IF p \in S THEN 0 ELSE hours[p]
  BY DEF Restart
<1>2. /\ cleared'[p] = (p \in S \/ cleared[p])
      /\ revived'[p] = (p \notin S /\ revived[p])
  BY Zenon DEF Restart
<1>3. cleared[p] \in BOOLEAN /\ revived[p] \in BOOLEAN
  BY DEF TypeOK
<1> QED
  BY <1>1, <1>2, <1>3

Clock(p) ==
  /\ revived[p] \/ Time[p] <= hours[p]
  /\ revived[p] \/ cleared[p] \/ saved[p] <= hours[p]
  /\ InFlight(p) => revived[p] \/ argOld \/ arg <= hours[p]

\* No step takes a count ahead of the clock.
LEMMA ClockStep ==
  ASSUME NEW p \in Timers, TypeOK, Awake, Clock(p), Steps
  PROVE  Clock(p)'
<1> USE DEF TypeOK, Clock, InFlight
<1>1. CASE RTC_Alarm
  BY <1>1 DEF RTC_Alarm, RTC_Counter_Increase, Checking
<1>2. CASE CheckStep
  <2>1. CASE Take
    BY <2>1 DEF Take, hist
  <2>2. CASE Skip
    BY <2>2 DEF Skip, Proceed
  <2>3. CASE Fire
    <3>1. {cur} \in SUBSET Timers /\ Restart({cur})
      BY <2>3 DEF Fire
    <3>2. /\ p = cur => Time'[p] = 0 /\ hours'[p] = 0 /\ cleared'[p] /\ ~revived'[p]
          /\ p # cur => /\ Time'[p] = Time[p] /\ hours'[p] = hours[p]
                        /\ cleared'[p] = cleared[p] /\ revived'[p] = revived[p]
      BY <3>1, RestartAt
    <3> QED
      BY <2>3, <3>2 DEF Fire
  <2>4. CASE Keep
    BY <2>4 DEF Keep
  <2>5. CASE Save
    BY <2>5 DEF Save, Written, Proceed
  <2>6. CASE Zero
    BY <2>6 DEF Zero, Written
  <2>7. CASE Jump
    BY <2>7 DEF Jump, Proceed, hist
  <2> QED
    BY <1>2, <2>1, <2>2, <2>3, <2>4, <2>5, <2>6, <2>7 DEF CheckStep
<1>3. CASE UserStore /\ UNCHANGED check
  <2>1. ASSUME NEW q \in Timers, NEW v \in Nat, StoreWeek(q, v) \/ StoreDay(q, v)
        PROVE  Clock(p)'
    BY <1>3, <2>1 DEF StoreWeek, StoreDay, Edit, check
  <2>2. ASSUME NEW q \in Timers, NEW v \in Nat, StoreEnable(q, v) PROVE Clock(p)'
    BY <1>3, <2>2 DEF StoreEnable, check, hist
  <2>3. ASSUME NEW q \in Timers, StoreFlash(q) PROVE Clock(p)'
    BY <1>3, <2>3 DEF StoreFlash, check
  <2>4. ASSUME NEW S \in SUBSET Timers, StoreTime(S) PROVE Clock(p)'
    <3>1. Restart(S)
      BY <2>4 DEF StoreTime
    <3>2. /\ p \in S => Time'[p] = 0 /\ hours'[p] = 0 /\ cleared'[p] /\ ~revived'[p]
          /\ p \notin S => /\ Time'[p] = Time[p] /\ hours'[p] = hours[p]
                          /\ cleared'[p] = cleared[p] /\ revived'[p] = revived[p]
      BY <3>1, RestartAt
    <3>3. (argOld => argOld') /\ (p \in S /\ InFlight(p) => argOld')
      BY <2>4, Zenon DEF StoreTime
    <3>4. saved' = saved /\ pc' = pc /\ cur' = cur /\ arg' = arg
      BY <1>3, <2>4 DEF StoreTime, check
    <3>5. CASE p \in S
      BY <3>2, <3>3, <3>4, <3>5
    <3>6. CASE p \notin S
      BY <3>2, <3>3, <3>4, <3>6
    <3> QED
      BY <3>5, <3>6
  <2>5. CASE Nothing
    BY <1>3, <2>5 DEF Nothing, check, hist
  <2> QED
    BY <1>3, <2>1, <2>2, <2>3, <2>4, <2>5 DEF UserStore
<1>4. CASE PowerLoss
  BY <1>4 DEF PowerLoss
<1>5. CASE Boot
  BY <1>5 DEF Boot
<1>6. CASE UNCHANGED vars
  BY <1>6 DEF vars, check, hist
<1> QED
  BY <1>1, <1>2, <1>3, <1>4, <1>5, <1>6 DEF Steps

-----------------------------------------------------------------------------
(* Flash is one tick behind, while a check is due for the timer, or level.  *)

\* The check has not dealt with p yet.
NotYet(p) ==
  \/ RTC_Check_Sem
  \/ pc \in {"examine", "zero", "save"} /\ cur = p
  \/ pc \in {"examine", "zero", "save", "jump"} /\ cur = "Reminder" /\ p = "Automatic"

Loss(p) ==
  pc # "off" =>
     /\ behind[p] \/ Time[p] <= saved[p] \/ (NotYet(p) /\ Time[p] <= saved[p] + 1)
     /\ InFlight(p) => Time[p] <= arg

\* No step leaves flash further behind.
LEMMA LossStep ==
  ASSUME NEW p \in Timers, TypeOK, Awake, Loss(p), Steps
  PROVE  Loss(p)'
<1> USE DEF TypeOK, Loss, InFlight, NotYet, Awake
<1>1. CASE RTC_Alarm
  <2>1. ~NotYet(p) /\ ~InFlight(p)'
    BY <1>1 DEF RTC_Alarm, Checking
  <2>2. Time'[p] = Time[p] \/ Time'[p] = Time[p] + 1
    BY <1>1 DEF RTC_Alarm, RTC_Counter_Increase
  <2>3. NotYet(p)'
    BY <1>1 DEF RTC_Alarm
  <2>4. /\ pc' = pc /\ pc # "off" /\ behind'[p] = behind[p] /\ saved'[p] = saved[p]
        /\ Time[p] \in Nat /\ saved[p] \in Nat
    BY <1>1 DEF RTC_Alarm
  <2> HIDE DEF NotYet, InFlight, TypeOK
  <2> QED
    BY <2>1, <2>2, <2>3, <2>4
<1>2. CASE CheckStep
  <2>1. CASE Take
    BY <2>1 DEF Take, hist, Timers
  <2>2. CASE Skip
    <3>1. ~InFlight(p)'
      BY <2>2 DEF Skip, Proceed
    <3>2. Time'[p] = Time[p] /\ saved'[p] = saved[p]
      BY <2>2 DEF Skip
    <3>3. CASE p = cur
      <4>1. behind'[p] = (behind[p] \/ Time[p] > saved[p])
        BY <2>2, <3>3, Zenon DEF Skip
      <4>2. behind'[p] \/ ~(Time[p] > saved[p])
        BY <4>1, Zenon
      <4>3. behind'[p] \/ Time'[p] <= saved'[p]
        BY <3>2, <4>2
      <4> HIDE DEF NotYet, InFlight
      <4> QED
        BY <3>1, <4>3
    <3>4. CASE p # cur
      <4>1. behind'[p] = behind[p]
        BY <2>2, <3>4 DEF Skip
      <4>2. NotYet(p) => NotYet(p)'
        BY <2>2, <3>4 DEF Skip, Proceed, Timers
      <4> HIDE DEF NotYet, InFlight
      <4> QED
        BY <2>2, <3>1, <3>2, <4>1, <4>2 DEF Skip
    <3> QED
      BY <3>3, <3>4
  <2>3. CASE Fire
    <3>1. {cur} \in SUBSET Timers /\ Restart({cur})
      BY <2>3 DEF Fire
    <3>2. /\ p = cur => Time'[p] = 0 /\ hours'[p] = 0 /\ cleared'[p] /\ ~revived'[p]
          /\ p # cur => /\ Time'[p] = Time[p] /\ hours'[p] = hours[p]
                        /\ cleared'[p] = cleared[p] /\ revived'[p] = revived[p]
      BY <3>1, RestartAt
    <3> QED
      BY <2>3, <3>2 DEF Fire
  <2>4. CASE Keep
    BY <2>4 DEF Keep
  <2>5. CASE Save
    BY <2>5 DEF Save, Written, Proceed, Timers
  <2>6. CASE Zero
    BY <2>6 DEF Zero, Written
  <2>7. CASE Jump
    BY <2>7 DEF Jump, Proceed, hist, Timers
  <2> QED
    BY <1>2, <2>1, <2>2, <2>3, <2>4, <2>5, <2>6, <2>7 DEF CheckStep
<1>3. CASE UserStore /\ UNCHANGED check
  <2>1. ASSUME NEW q \in Timers, NEW v \in Nat, StoreWeek(q, v) \/ StoreDay(q, v)
        PROVE  Loss(p)'
    BY <1>3, <2>1 DEF StoreWeek, StoreDay, Edit, check
  <2>2. ASSUME NEW q \in Timers, NEW v \in Nat, StoreEnable(q, v) PROVE Loss(p)'
    BY <1>3, <2>2 DEF StoreEnable, check, hist
  <2>3. ASSUME NEW q \in Timers, StoreFlash(q) PROVE Loss(p)'
    <3>1. NotYet(p)' = NotYet(p) /\ InFlight(p)' = InFlight(p) /\ pc' = pc /\ arg' = arg
      BY <1>3 DEF check
    <3>2. CASE q = p
      <4>1. behind'[p] = (behind[p] \/ Time[p] # 0) /\ Time'[p] = Time[p]
        BY <2>3, <3>2, Zenon DEF StoreFlash
      <4>2. behind'[p] \/ Time'[p] = 0
        BY <4>1, Zenon
      <4>3. saved'[p] = 0
        BY <2>3, <3>2 DEF StoreFlash
      <4>4. behind'[p] \/ Time'[p] <= saved'[p]
        BY <4>2, <4>3
      <4> HIDE DEF NotYet, InFlight
      <4> QED
        BY <3>1, <4>1, <4>4
    <3>3. CASE q # p
      BY <2>3, <3>1, <3>3 DEF StoreFlash
    <3> QED
      BY <3>2, <3>3
  <2>4. ASSUME NEW S \in SUBSET Timers, StoreTime(S) PROVE Loss(p)'
    <3>1. Restart(S)
      BY <2>4 DEF StoreTime
    <3>2. /\ p \in S => Time'[p] = 0 /\ hours'[p] = 0 /\ cleared'[p] /\ ~revived'[p]
          /\ p \notin S => /\ Time'[p] = Time[p] /\ hours'[p] = hours[p]
                          /\ cleared'[p] = cleared[p] /\ revived'[p] = revived[p]
      BY <3>1, RestartAt
    <3> QED
      BY <1>3, <2>4, <3>2 DEF StoreTime, check
  <2>5. CASE Nothing
    BY <1>3, <2>5 DEF Nothing, check, hist
  <2> QED
    BY <1>3, <2>1, <2>2, <2>3, <2>4, <2>5 DEF UserStore
<1>4. CASE PowerLoss
  BY <1>4 DEF PowerLoss
<1>5. CASE Boot
  BY <1>5 DEF Boot
<1>6. CASE UNCHANGED vars
  BY <1>6 DEF vars, check, hist
<1> QED
  BY <1>1, <1>2, <1>3, <1>4, <1>5, <1>6 DEF Steps

-----------------------------------------------------------------------------
(* A saved count is below the period.                                       *)

Remain(p) ==
  /\ edited[p] \/ saved[p] = 0 \/ saved[p] < Period(p)
  /\ InFlight(p) => argEdited \/ arg = 0 \/ arg < Period(p)

\* A period changes only with its two parts.
LEMMA PeriodStep ==
  ASSUME NEW p \in Timers, Week'[p] = Week[p], Day'[p] = Day[p]
  PROVE  Period(p)' = Period(p)
BY DEF Period

\* No step saves a count that has reached the period.
LEMMA RemainStep ==
  ASSUME NEW p \in Timers, TypeOK, TypeOK', Awake, Remain(p), Steps
  PROVE  Remain(p)'
<1>0. Period(p) \in Nat /\ Period(p)' \in Nat
  BY PeriodType, PeriodTypePrime
<1> USE <1>0 DEF TypeOK, Remain, InFlight
<1>1. CASE RTC_Alarm
  BY <1>1, PeriodStep DEF RTC_Alarm, Checking, stored
<1>2. CASE CheckStep
  <2>0. Period(p)' = Period(p)
    BY <1>2, PeriodStep DEF CheckStep, Take, Skip, Fire, Keep, Save, Zero, Jump, Written, stored
  <2> USE <2>0
  <2>1. CASE Take
    BY <2>1 DEF Take, hist
  <2>2. CASE Skip
    BY <2>2 DEF Skip, Proceed
  <2>3. CASE Fire
    BY <2>3 DEF Fire
  <2>4. CASE Keep
    BY <2>4 DEF Keep, Due
  <2>5. CASE Save
    BY <2>5 DEF Save, Written, Proceed
  <2>6. CASE Zero
    BY <2>6 DEF Zero, Written
  <2>7. CASE Jump
    BY <2>7 DEF Jump, Proceed, hist
  <2> QED
    BY <1>2, <2>1, <2>2, <2>3, <2>4, <2>5, <2>6, <2>7 DEF CheckStep
<1>3. CASE UserStore /\ UNCHANGED check
  <2>1. ASSUME NEW q \in Timers, NEW v \in Nat, StoreWeek(q, v) \/ StoreDay(q, v)
        PROVE  Remain(p)'
    <3>1. CASE q = p
      BY <1>3, <2>1, <3>1 DEF StoreWeek, StoreDay, Edit, check
    <3>2. CASE q # p
      <4>1. Period(p)' = Period(p)
        BY <2>1, <3>2, PeriodStep DEF StoreWeek, StoreDay
      <4> QED
        BY <1>3, <2>1, <3>2, <4>1 DEF StoreWeek, StoreDay, Edit, check
    <3> QED
      BY <3>1, <3>2
  <2>2. ASSUME NEW q \in Timers, NEW v \in Nat, StoreEnable(q, v) PROVE Remain(p)'
    BY <1>3, <2>2, PeriodStep DEF StoreEnable, check, hist
  <2>3. ASSUME NEW q \in Timers, StoreFlash(q) PROVE Remain(p)'
    BY <1>3, <2>3, PeriodStep DEF StoreFlash, check, stored
  <2>4. ASSUME NEW S \in SUBSET Timers, StoreTime(S) PROVE Remain(p)'
    BY <1>3, <2>4, PeriodStep DEF StoreTime, check, stored
  <2>5. CASE Nothing
    BY <1>3, <2>5, PeriodStep DEF Nothing, check, hist, stored
  <2> QED
    BY <1>3, <2>1, <2>2, <2>3, <2>4, <2>5 DEF UserStore
<1>4. CASE PowerLoss
  BY <1>4, PeriodStep DEF PowerLoss, stored
<1>5. CASE Boot
  BY <1>5, PeriodStep DEF Boot, stored
<1>6. CASE UNCHANGED vars
  BY <1>6, PeriodStep DEF vars, check, hist, stored
<1> QED
  BY <1>1, <1>2, <1>3, <1>4, <1>5, <1>6 DEF Steps

-----------------------------------------------------------------------------
(* The theorems.                                                            *)

SafeInv == TypeOK /\ Awake /\ \A p \in Timers : Clock(p) /\ Loss(p) /\ Remain(p)

\* The invariant holds at the start,
LEMMA SafeInit == Init => SafeInv
<1> SUFFICES ASSUME Init PROVE SafeInv
  OBVIOUS
<1>1. TypeOK
  <2>1. "Reminder" \in Timers /\ << >> \in Seq(Stores)
    BY DEF Timers
  <2>2. Weeks \subseteq Nat /\ 1..(WeekDays - 1) \subseteq Nat
    BY ScheduleAssumption
  <2>3. Week \in [Timers -> Nat] /\ Day \in [Timers -> Nat]
    BY <2>2 DEF Init
  <2> QED
    BY <2>1, <2>3 DEF Init, TypeOK
<1>2. Awake
  BY DEF Init, Awake, CheckKeepsAwake, Checking
<1>3. ASSUME NEW p \in Timers PROVE Clock(p) /\ Loss(p) /\ Remain(p)
  BY DEF Init, Clock, Loss, Remain, InFlight
<1> QED
  BY <1>1, <1>2, <1>3 DEF SafeInv

\* is kept by every step,
LEMMA SafeStep == SafeInv /\ [Next]_vars => SafeInv'
<1> SUFFICES ASSUME SafeInv, [Next]_vars PROVE SafeInv'
  OBVIOUS
<1>1. TypeOK' /\ Awake' /\ Steps
  BY TypeStep, AwakeStep, StepCases DEF SafeInv
<1>2. ASSUME NEW p \in Timers PROVE Clock(p)' /\ Loss(p)' /\ Remain(p)'
  BY <1>1, ClockStep, LossStep, RemainStep DEF SafeInv
<1> QED
  BY <1>1, <1>2 DEF SafeInv

\* and so holds always.
LEMMA SafeAlways == Spec => []SafeInv
BY SafeInit, SafeStep, PTL DEF Spec

\* Types, and the device stays awake for exactly as long as a check is due or
\* under way.
THEOREM ScheduleSafe == Spec => []ScheduleInv
<1>1. SafeInv => ScheduleInv
  BY DEF SafeInv, Awake, ScheduleInv
<1> QED
  BY <1>1, SafeAlways, PTL

\* No count runs ahead of the clock.
THEOREM CountsNotAhead == Spec => []NotAhead
<1>1. SafeInv => NotAhead
  BY DEF SafeInv, Clock, NotAhead
<1> QED
  BY <1>1, SafeAlways, PTL

\* A timer fires only when its whole period has passed.
THEOREM TimersFireOnTime == Spec => FiresOnTime
<1>1. SafeInv /\ [Next]_vars
        => [\A p \in Timers : (Fire /\ cur = p) => revived[p] \/ hours[p] >= Period(p)]_vars
  <2> SUFFICES ASSUME SafeInv, NEW p \in Timers, Fire, cur = p
               PROVE  revived[p] \/ hours[p] >= Period(p)
    OBVIOUS
  <2>1. Period(p) \in Nat
    BY PeriodType DEF SafeInv
  <2>2. Time[p] >= Period(p) /\ Time[p] \in Nat /\ hours[p] \in Nat
    BY DEF SafeInv, TypeOK, Fire, Due
  <2>3. revived[p] \/ Time[p] <= hours[p]
    BY DEF SafeInv, Clock
  <2> QED
    BY <2>1, <2>2, <2>3
<1> QED
  BY <1>1, SafeAlways, PTL DEF Spec, FiresOnTime

\* A power failure costs one tick at most.
THEOREM PowerLossCostsOneTick == Spec => []LossBounded
<1>1. SafeInv => LossBounded
  <2> SUFFICES ASSUME SafeInv, pc # "off", NEW p \in Timers
               PROVE  behind[p] \/ Time[p] <= saved[p] + (IF Checking THEN 1 ELSE 0)
    BY DEF LossBounded
  <2>1. NotYet(p) => Checking
    BY DEF NotYet, Checking
  <2>2. Time[p] \in Nat /\ saved[p] \in Nat
    BY DEF SafeInv, TypeOK
  <2>3. behind[p] \/ Time[p] <= saved[p] \/ (NotYet(p) /\ Time[p] <= saved[p] + 1)
    BY DEF SafeInv, Loss
  <2>4. CASE Checking
    BY <2>2, <2>3, <2>4
  <2>5. CASE ~Checking
    BY <2>1, <2>2, <2>3, <2>5
  <2> QED
    BY <2>4, <2>5
<1> QED
  BY <1>1, SafeAlways, PTL

\* The remaining hours do not wrap below zero.
THEOREM RemainingHoursFit == Spec => []RemainingFits
<1>1. SafeInv => RemainingFits
  <2> SUFFICES ASSUME SafeInv, NEW p \in Timers, pc # "off", ~edited[p], ~behind[p]
               PROVE  Time[p] <= Period(p) \/ (Period(p) = 0 /\ Checking)
    BY DEF RemainingFits
  <2>1. Period(p) \in Nat /\ Time[p] \in Nat /\ saved[p] \in Nat
    BY PeriodType DEF SafeInv, TypeOK
  <2>2. Time[p] <= saved[p] \/ (Checking /\ Time[p] <= saved[p] + 1)
    BY DEF SafeInv, Loss, NotYet, Checking
  <2>3. saved[p] = 0 \/ saved[p] < Period(p)
    BY DEF SafeInv, Remain
  <2> QED
    BY <2>1, <2>2, <2>3
<1> QED
  BY <1>1, SafeAlways, PTL

-----------------------------------------------------------------------------
(* The end of a check.                                                      *)

\* The steps that a check has before it at most.
StepsLeft ==
  IF RTC_Check_Sem THEN 8
  ELSE IF pc \in {"off", "idle"} THEN 0
  ELSE (IF cur = "Reminder" THEN 4 ELSE 0)
       + (IF pc = "examine" THEN 3 ELSE IF pc = "zero" THEN 2 ELSE 1)

\* A step while the device is kept awake for a check.
CheckGetsOn == pmRtc => ~pmRtc' \/ UNCHANGED check \/ StepsLeft' < StepsLeft

\* A timer that has restarted because it was due, until its window is opened.
Firing(p) == pc \in {"zero", "jump"} /\ cur = p
FiringGetsOn == \A p \in Timers : Firing(p) => Firing(p)' \/ p \in opened' \/ pc' = "off"

\* On to the second timer, or to the end.
LEMMA ProceedStep ==
  ASSUME pc \in {"examine", "save", "jump"}, ~RTC_Check_Sem, UNCHANGED RTC_Check_Sem, Proceed
  PROVE  ~pmRtc' \/ StepsLeft' < StepsLeft
<1>1. CASE cur = "Reminder"
  <2>1. pc' = "examine" /\ cur' = "Automatic"
    BY <1>1 DEF Proceed
  <2>2. StepsLeft' = 3
    BY <2>1 DEF StepsLeft
  <2>3. StepsLeft \in {5, 7}
    BY <1>1 DEF StepsLeft
  <2> QED
    BY <2>2, <2>3
<1>2. CASE cur # "Reminder"
  BY <1>2, Zenon DEF Proceed
<1> QED
  BY <1>1, <1>2

\* The check thread moves towards the end of the check, and nobody else moves it.
LEMMA ProgressStep ==
  ASSUME TypeOK, Awake, Steps
  PROVE  CheckGetsOn /\ FiringGetsOn
<1> USE DEF Awake, CheckKeepsAwake, Checking
<1>1. CASE RTC_Alarm
  BY <1>1 DEF RTC_Alarm, CheckGetsOn, FiringGetsOn, Firing
<1>2. CASE UNCHANGED check
  BY <1>2 DEF check, CheckGetsOn, FiringGetsOn, Firing
<1>3. CASE PowerLoss
  BY <1>3 DEF PowerLoss, CheckGetsOn, FiringGetsOn, Firing
<1>4. CASE Boot
  BY <1>4 DEF Boot, CheckGetsOn, FiringGetsOn, Firing
<1>5. CASE CheckStep
  <2> USE DEF CheckGetsOn, FiringGetsOn, Firing, StepsLeft, TypeOK, Timers
  <2>1. CASE Take
    BY <2>1 DEF Take
  <2>2. CASE Skip
    BY <2>2, ProceedStep DEF Skip
  <2>3. CASE Fire
    BY <2>3 DEF Fire
  <2>4. CASE Keep
    BY <2>4 DEF Keep
  <2>5. CASE Save
    BY <2>5, ProceedStep DEF Save, Written
  <2>6. CASE Zero
    BY <2>6 DEF Zero, Written
  <2>7. CASE Jump
    BY <2>7, ProceedStep DEF Jump
  <2> QED
    BY <1>5, <2>1, <2>2, <2>3, <2>4, <2>5, <2>6, <2>7 DEF CheckStep
<1>6. CASE UNCHANGED vars
  BY <1>2, <1>6 DEF vars
<1> QED
  BY <1>1, <1>2, <1>3, <1>4, <1>5, <1>6 DEF Steps

\* While a check is due or under way every step either leaves it alone or brings it
\* nearer to its end, and it has at most eight: no change in the menu, no command of
\* the cloud and no backwash sends the check thread back or adds an alarm.  It is the
\* part of CheckEnds that does not depend on fairness.
THEOREM ChecksGetOn == Spec => [](StepsLeft \in 0..8) /\ [][CheckGetsOn]_vars
<1>1. SafeInv => StepsLeft \in 0..8
  BY DEF StepsLeft
<1>2. SafeInv /\ [Next]_vars => [CheckGetsOn]_vars
  BY StepCases, ProgressStep DEF SafeInv
<1> QED
  BY <1>1, <1>2, SafeAlways, PTL DEF Spec

\* A timer that has restarted because it was due is on its way to its window: no edit
\* that comes while its zero is written to flash, or before the window is opened, makes
\* the check pass it over; only a power failure does.  It is the part of FiringOpens
\* that does not depend on fairness.
THEOREM FiringsGetOn == Spec => [][FiringGetsOn]_vars
<1>1. SafeInv /\ [Next]_vars => [FiringGetsOn]_vars
  BY StepCases, ProgressStep DEF SafeInv
<1> QED
  BY <1>1, SafeAlways, PTL DEF Spec
=============================================================================

------------------------------ MODULE Settings ------------------------------
(***************************************************************************)
(* The settings of the device: 25 keys in flash (storage/flashwork.c), a   *)
(* copy of each in RAM, and the setters of applications/syr_api.c, power.c *)
(* and lcd_display.c that change both.                                     *)
(*                                                                         *)
(* A setter assigns the variable and then calls Flash_Set, which evaluates *)
(* its argument, takes PM_STORAGE_ID, waits for the lock of the store and  *)
(* writes.  The menu, the serial link, the schedule, the timer thread and  *)
(* the keys run setters concurrently; power may fail between any two       *)
(* steps.  A script is what one operation still has to do.                 *)
(***************************************************************************)
EXTENDS Naturals, Sequences

CONSTANTS
  Threads,      \* the threads that run operations
  Clearers,     \* those of them that may call Flash_Clear
  Tested,       \* the settings they change
  Values        \* the values they choose, each of at most 8 bits

ASSUME SettingsAssumption ==
  /\ Clearers \subseteq Threads \cap {"lcd", "uart"}
  /\ Values \subseteq Nat

VARIABLES
  phase,        \* "off", "boot" (Flash_Init) or "run"
  flash,        \* what Flash_Get reads from each key; an absent key reads 0
  mem,          \* the settings in RAM
  bootTodo,     \* the Flash_Set calls Flash_Init still has to make
  todo,         \* for each thread, the rest of its script
  arg,          \* for each thread, the call of Flash_Set it is inside of
  clearing,     \* the threads inside Flash_Clear
  pmStorage,    \* PM_STORAGE_ID holds a request not to sleep
  raced,        \* history: settings assigned while another thread was about
                \* to write an older value of theirs
  cut,          \* history: power failed between the mark of the first boot
                \* and the last default
  disturbed     \* history: another thread wrote during Flash_Clear

vars == <<phase, flash, mem, bootTodo, todo, arg, clearing, pmStorage, raced,
          cut, disturbed>>
hist == <<raced, cut, disturbed>>

-----------------------------------------------------------------------------
(* The tables.                                                              *)

Key_list ==
  <<"Reminder_Week", "Reminder_Day", "Reminder_Enable", "Automatic_Week",
    "Automatic_Day", "Automatic_Enable", "Deltapress_Enable",
    "Counter_Manual", "Counter_Automatic", "Counter_Deltapress",
    "Counter_Error", "Setting_Deltapress", "Setting_Hardness",
    "Setting_Backwashtime", "Setting_Language", "RTC_Reminder_Time",
    "RTC_Automatic_Time", "BAT_State", "TDS_CND", "Time_Range",
    "Telemetry_Timeout", "Telemetry_Interval", "Report_Interval",
    "AP_Timeout">>

\* Key 0, "boot_times", is no setting.
Keys == 0..24

\* The settings Flash2Mem loads, and the key it loads each of them from.
Loaded == {Key_list[k] : k \in (1..24) \ {12}}
ReadKey == [n \in Loaded |-> CHOOSE k \in 1..24 : Key_list[k] = n]

\* The key each setter passes to Flash_Set; 25 and 26 are beyond Key_list.
WriteKey == [n \in Loaded |->
  CASE n = "TDS_CND" -> 21
    [] n = "Time_Range" -> 22
    [] n = "Telemetry_Timeout" -> 23
    [] n = "Telemetry_Interval" -> 24
    [] n = "Report_Interval" -> 25
    [] n = "AP_Timeout" -> 26
    [] n = "BAT_State" -> 19
    [] OTHER -> ReadKey[n]]

\* The keys Set_Default writes, and the values.
DefaultKeys == <<2, 4, 5, 6, 13, 14, 15, 19, 20, 21, 22, 23, 24>>
DefaultValues == <<1, 8, 5, 1, 30, 21, 1, 19, 0, 30, 1800, 24, 0>>

-----------------------------------------------------------------------------
(* Scripts.  A step of a script assigns the variable `name' and writes the  *)
(* key `key'; `how' says what to assign and which argument to pass.         *)

Step(n, k, v, how) == [name |-> n, key |-> k, val |-> v, how |-> how]

FromRam(n, v) == Step(n, WriteKey[n], v, "ram")    \* X = v; Flash_Set(k, X)
FromArg(n, v) == Step(n, WriteKey[n], v, "arg")    \* X = v; Flash_Set(k, v)
Count(n) == Step(n, WriteKey[n], 0, "inc")         \* X++;   Flash_Set(k, X)
IfNew(n, v) == Step(n, WriteKey[n], v, "new")      \* if(X != v) as FromRam
RamOnly(n, v) == Step(n, WriteKey[n], v, "only")   \* X = v
IfLong(n) == Step(n, WriteKey[n], 0, "range")      \* the ifs of syr_range_set

Store_Default(i) == Step("none", DefaultKeys[i], DefaultValues[i], "store")

\* Faulty variant: the backwash time is left out.
Set_Default_NoTime ==
  [i \in 1..12 |-> Store_Default(IF i < 6 THEN i ELSE i + 1)]

\* Set_Default writes flash only.
Set_Default == [i \in 1..13 |-> Store_Default(i)]

\* The setters with one variable that pass the variable, and the value.
RamSetters == {"Setting_Backwashtime", "Setting_Hardness", "Reminder_Enable",
               "Automatic_Enable", "Deltapress_Enable", "Setting_Language",
               "Counter_Automatic", "Counter_Deltapress", "Counter_Error"}
ArgSetters == {"Telemetry_Interval", "AP_Timeout", "Report_Interval",
               "Telemetry_Timeout"}

\* The setters of syr_api.c, called by the serial link and, some, by the menu.
syr_ram_set == UNION {{<<FromRam(n, v)>> : n \in RamSetters} : v \in Values}
syr_arg_set == UNION {{<<FromArg(n, v)>> : n \in ArgSetters} : v \in Values}
syr_tdscalib_set == {<<FromRam("TDS_CND", IF v = 0 THEN 1 ELSE v)>> : v \in Values}
syr_count_manual_set == {<<FromRam("Counter_Manual", 0)>>}
syr_remind_time_set ==
  {<<FromRam("Reminder_Week", v \div 7), FromRam("Reminder_Day", v % 7)>>
     : v \in Values}
syr_auto_time_set ==
  {<<FromRam("Automatic_Week", v \div 7), FromRam("Automatic_Day", v % 7)>>
     : v \in Values}
syr_range_set ==
  {<<FromRam("Time_Range", v), IfLong("Automatic_Week"), IfLong("Reminder_Week")>>
     : v \in {0, 1}}

SyrScripts == syr_ram_set \cup syr_arg_set \cup syr_tdscalib_set
              \cup syr_count_manual_set \cup syr_remind_time_set
              \cup syr_auto_time_set \cup syr_range_set

\* A manual backwash is counted; RTC_Reset.
ManualBackwash ==
  <<Count("Counter_Manual"),
    RamOnly("RTC_Reminder_Time", 0), RamOnly("RTC_Automatic_Time", 0),
    Step("RTC_Reminder_Time", WriteKey["RTC_Reminder_Time"], 0, "store"),
    Step("RTC_Automatic_Time", WriteKey["RTC_Automatic_Time"], 0, "store")>>

\* The menus of Reminder and Automatic: week w, day d, enabled e.
MenuPeriod(week, day, enable, time, w, d, e) ==
  IF mem[week] # w \/ mem[day] # d
  THEN <<FromRam(week, w), FromRam(day, d), RamOnly(time, 0), IfNew(enable, e)>>
  ELSE <<IfNew(enable, e)>>

ReminderMenu == {MenuPeriod("Reminder_Week", "Reminder_Day", "Reminder_Enable",
                            "RTC_Reminder_Time", v \div 7, v % 7, e)
                   : v \in Values, e \in {0, 1}}
AutomaticMenu == {MenuPeriod("Automatic_Week", "Automatic_Day", "Automatic_Enable",
                             "RTC_Automatic_Time", v \div 7, v % 7, e)
                    : v \in Values, e \in {0, 1}}
CounterMenu == {<<FromArg(n, 0)>> : n \in {"Counter_Manual", "Counter_Automatic",
                                          "Counter_Deltapress", "Counter_Error"}}
DeltapressMenu == {<<FromArg("Deltapress_Enable", v)>>
                     : v \in {0, 1} \ {mem["Deltapress_Enable"]}}

MenuScripts == ReminderMenu \cup AutomaticMenu \cup CounterMenu \cup DeltapressMenu
               \cup {ManualBackwash, <<Count("Counter_Error")>>}

\* PowerSet and JumpToBatteryEmpty in the timer thread.
TimerScripts ==
  {<<FromRam("BAT_State", v)>> : v \in {0, 1} \ {mem["BAT_State"]}}
  \cup {<<Count("Counter_Error")>>}

Scripts(t) ==
  CASE t = "uart" -> SyrScripts
    [] t = "lcd" -> SyrScripts \cup MenuScripts
    [] t = "timer" -> TimerScripts
    [] t = "rtc" -> {<<Count("Counter_Automatic")>>}
    [] OTHER -> {<<Count("Counter_Deltapress")>>}

-----------------------------------------------------------------------------
NoArg == [name |-> "none", key |-> 0, val |-> 0]

Idle(t) == todo[t] = <<>> /\ arg[t] = NoArg

\* A thread begins an operation.
Begin(t) ==
  /\ phase = "run"
  /\ Idle(t) /\ t \notin clearing
  /\ \E s \in Scripts(t) :
       /\ \A i \in 1..Len(s) : s[i].name \in Tested
       /\ todo' = [todo EXCEPT ![t] = s]
  /\ UNCHANGED <<phase, flash, mem, bootTodo, arg, clearing, pmStorage, hist>>

\* Another thread holds a value of n that it has not written yet.
Holds(u, n) ==
  \/ arg[u].name = n
  \/ /\ todo[u] # <<>>
     /\ Head(todo[u]).how = "store"
     /\ Head(todo[u]).name = n

\* The variable of the first step is assigned v; `how' is left to do.
Put(t, v, how) ==
  LET s == Head(todo[t])
  IN  /\ mem' = [mem EXCEPT ![s.name] = v]
      /\ todo' = [todo EXCEPT ![t] =
           IF how = "done" THEN Tail(@)
           ELSE [@ EXCEPT ![1] = [s EXCEPT !.val = v, !.how = how]]]
      /\ raced' = IF \E u \in Threads \ {t} : Holds(u, s.name)
                  THEN raced \cup {s.name} ELSE raced

Assign(t) ==
  /\ phase = "run" /\ arg[t] = NoArg /\ todo[t] # <<>>
  /\ LET s == Head(todo[t])
     IN  \/ s.how = "ram" /\ Put(t, s.val, "load")
         \/ s.how = "inc" /\ Put(t, mem[s.name] + 1, "load")
         \/ s.how = "arg" /\ Put(t, s.val, "store")
         \/ s.how = "only" /\ Put(t, s.val, "done")
         \/ s.how = "new" /\ mem[s.name] # s.val /\ Put(t, s.val, "load")
  /\ UNCHANGED <<phase, flash, bootTodo, arg, clearing, pmStorage, cut, disturbed>>

\* The other period of at least ten weeks is cut to 8 weeks and 5 days when
\* the range of the menu becomes short.
Shorten(n) ==
  IF n = "Automatic_Week"
  THEN <<FromRam(n, 8), FromRam("Automatic_Day", 5),
         RamOnly("RTC_Automatic_Time", 0)>>
  ELSE <<FromRam(n, 8), FromRam("Reminder_Day", 5),
         RamOnly("RTC_Reminder_Time", 0)>>

\* The conditions inside a script.
Check(t) ==
  /\ phase = "run" /\ arg[t] = NoArg /\ todo[t] # <<>>
  /\ LET s == Head(todo[t])
         long == mem["Time_Range"] = 0 /\ mem[s.name] > 9
     IN  \/ /\ s.how = "new" /\ mem[s.name] = s.val
            /\ todo' = [todo EXCEPT ![t] = Tail(@)]
         \/ /\ s.how = "range"
            /\ todo' = [todo EXCEPT ![t] =
                 (IF long THEN Shorten(s.name) ELSE <<>>) \o Tail(@)]
  /\ UNCHANGED <<phase, flash, mem, bootTodo, arg, clearing, pmStorage, hist>>

\* Faulty variant: the argument is evaluated by an earlier step.
Flash_Set_Early(t) ==
  /\ phase = "run" /\ arg[t] = NoArg /\ todo[t] # <<>>
  /\ LET s == Head(todo[t])
     IN  /\ s.how \in {"load", "store"}
         /\ arg' = [arg EXCEPT ![t] = [name |-> s.name, key |-> s.key, val |-> s.val]]
         /\ todo' = [todo EXCEPT ![t] = Tail(@)]
  /\ pmStorage' = TRUE
  /\ UNCHANGED <<phase, flash, mem, bootTodo, clearing, hist>>

\* Flash_Set is entered: its argument is evaluated and sleep is forbidden.
Flash_Set(t) ==
  /\ phase = "run" /\ arg[t] = NoArg /\ todo[t] # <<>>
  /\ LET s == Head(todo[t])
     IN  /\ s.how \in {"load", "store"}
         /\ arg' = [arg EXCEPT ![t] =
              [name |-> s.name, key |-> s.key,
               val |-> IF s.how = "load" THEN mem[s.name] ELSE s.val]]
         /\ todo' = [todo EXCEPT ![t] = Tail(@)]
  /\ pmStorage' = TRUE
  /\ UNCHANGED <<phase, flash, mem, bootTodo, clearing, hist>>

\* A key beyond Key_list is some other string: no setting is written.
Stored(k, v) == [j \in Keys |-> IF j = k THEN v ELSE flash[j]]

\* ef_set_env has the lock and writes; Flash_Set allows sleep and returns.
Flash_Set_Return(t) ==
  /\ phase = "run" /\ arg[t] # NoArg
  /\ flash' = Stored(arg[t].key, arg[t].val)
  /\ arg' = [arg EXCEPT ![t] = NoArg]
  /\ pmStorage' = FALSE
  /\ disturbed' = (disturbed \/ (clearing # {} /\ t \notin clearing))
  /\ UNCHANGED <<phase, mem, bootTodo, todo, clearing, raced, cut>>

-----------------------------------------------------------------------------
(* Factory reset, boot and loss of power.                                   *)

\* Flash_Clear, from the menu, the cloud, or at the end of a firmware update.
Flash_Clear(t) ==
  /\ phase = "run"
  /\ t \in Clearers /\ Idle(t) /\ t \notin clearing
  /\ clearing' = clearing \cup {t}
  /\ todo' = [todo EXCEPT ![t] = Set_Default]
  /\ pmStorage' = TRUE
  /\ UNCHANGED <<phase, flash, mem, bootTodo, arg, hist>>

Halt == /\ phase' = "off"
        /\ todo' = [t \in Threads |-> <<>>]
        /\ arg' = [t \in Threads |-> NoArg]
        /\ clearing' = {}
        /\ pmStorage' = FALSE
        /\ bootTodo' = <<>>
        /\ raced' = {}
        /\ disturbed' = FALSE
        /\ mem' = [n \in Loaded |-> 0]
        /\ UNCHANGED flash

\* rt_hw_cpu_reset after the delay of Flash_Clear.
Reset(t) ==
  /\ phase = "run" /\ t \in clearing /\ Idle(t)
  /\ Halt
  /\ cut' = FALSE

PowerLoss ==
  /\ phase # "off"
  /\ Halt
  /\ cut' = (cut \/ (phase = "boot" /\ bootTodo # <<>> /\ flash[0] = 1))

\* Flash_Init: the first boot marks itself and then stores the defaults.
Boot ==
  /\ phase = "off"
  /\ phase' = "boot"
  /\ bootTodo' = IF flash[0] = 0
                 THEN <<Step("none", 0, 1, "store")>> \o Set_Default ELSE <<>>
  /\ UNCHANGED <<flash, mem, todo, arg, clearing, pmStorage, hist>>

BootStore ==
  /\ phase = "boot" /\ bootTodo # <<>>
  /\ flash' = Stored(Head(bootTodo).key, Head(bootTodo).val)
  /\ bootTodo' = Tail(bootTodo)
  /\ UNCHANGED <<phase, mem, todo, arg, clearing, pmStorage, hist>>

Flash2Mem ==
  /\ phase = "boot" /\ bootTodo = <<>>
  /\ phase' = "run"
  /\ mem' = [n \in Loaded |-> flash[ReadKey[n]]]
  /\ UNCHANGED <<flash, bootTodo, todo, arg, clearing, pmStorage, hist>>

Init ==
  /\ phase = "off"
  /\ flash = [k \in Keys |-> 0]
  /\ mem = [n \in Loaded |-> 0]
  /\ bootTodo = <<>>
  /\ todo = [t \in Threads |-> <<>>]
  /\ arg = [t \in Threads |-> NoArg]
  /\ clearing = {} /\ pmStorage = FALSE
  /\ raced = {} /\ cut = FALSE /\ disturbed = FALSE

Next ==
  \/ \E t \in Threads : \/ Begin(t) \/ Assign(t) \/ Check(t)
                        \/ Flash_Set(t) \/ Flash_Set_Return(t)
                        \/ Flash_Clear(t) \/ Reset(t)
  \/ PowerLoss \/ Boot \/ BootStore \/ Flash2Mem

Spec == Init /\ [][Next]_vars

-----------------------------------------------------------------------------
(* Properties.                                                              *)

Steps == [name : Loaded \cup {"none"}, key : Nat, val : Nat,
          how : {"ram", "arg", "inc", "new", "only", "range", "load", "store"}]

Switches == pmStorage \in BOOLEAN /\ cut \in BOOLEAN /\ disturbed \in BOOLEAN

Ranges ==
  /\ phase \in {"off", "boot", "run"}
  /\ flash \in [Keys -> Nat] /\ mem \in [Loaded -> Nat]
  /\ bootTodo \in Seq(Steps) /\ todo \in [Threads -> Seq(Steps)]
  /\ arg \in [Threads -> [name : Loaded \cup {"none"}, key : Nat, val : Nat]]
  /\ clearing \in SUBSET Threads
  /\ raced \in SUBSET Loaded

TypeOK == Switches /\ Ranges

\* Settings that every assignment is meant to save.
Saved == Loaded \ {"RTC_Reminder_Time", "RTC_Automatic_Time"}

\* Settings whose key is written by their own setters and by no others.
Own == {n \in Saved : /\ WriteKey[n] = ReadKey[n]
                      /\ \A m \in Loaded \ {n} : WriteKey[m] # ReadKey[n]}

\* A thread has assigned n and not yet written it.
Unsaved(t, n) ==
  \/ arg[t].name = n
  \/ /\ todo[t] # <<>>
     /\ Head(todo[t]).name = n
     /\ Head(todo[t]).how \in {"load", "store"}

\* Whatever threads set, in whatever order, flash ends up with the value in RAM
\* of every setting with a key of its own, so that a restart keeps it, unless
\* two threads raced for it between argument and write of Flash_Set.
SavedUnlessRaced ==
  phase = "run" /\ clearing = {} =>
    \A n \in Own \ raced :
      (\A t \in Threads : ~Unsaved(t, n)) => flash[ReadKey[n]] = mem[n]

\* The inductive invariant behind it.  A step names the key of its own setting,
\* the steps of Set_Default belong to Flash_Clear, a setting with a key of its
\* own is about to be written only at the head of a script, and the backwash time
\* is passed as the variable.
StepOK(t, i) ==
  LET s == todo[t][i]
  IN  /\ s.name = "none" => t \in clearing /\ s.how = "store"
      /\ s.name # "none" => s.key = WriteKey[s.name]
      /\ s.how = "only" => s.name \notin Saved
      /\ i > 1 /\ s.how \in {"load", "store"} => s.name \notin Saved
      /\ s.name = "Setting_Backwashtime" => s.how \in {"ram", "load"}

ScriptsOK == \A t \in Threads : \A i \in 1..Len(todo[t]) : StepOK(t, i)

CallsOK == \A t \in Threads :
  /\ arg[t].name # "none" => arg[t].key = WriteKey[arg[t].name]
  /\ arg[t].name = "none" /\ arg[t] # NoArg => t \in clearing

Quiet == phase # "run" => clearing = {} /\ \A t \in Threads : Idle(t)

\* A value held by a thread is the one in RAM, and RAM is in flash or will be.
Latest(n) ==
  /\ \A t \in Threads : arg[t].name = n => arg[t].val = mem[n]
  /\ \A t \in Threads :
       todo[t] # <<>> /\ Head(todo[t]).name = n /\ Head(todo[t]).how = "store"
         => Head(todo[t]).val = mem[n]
  /\ \/ flash[ReadKey[n]] = mem[n]
     \/ \E t \in Threads : Unsaved(t, n)

SettingsInv ==
  /\ TypeOK /\ ScriptsOK /\ CallsOK /\ Quiet
  /\ phase = "run" /\ clearing = {} => \A n \in Own \ raced : Latest(n)

\* A device that runs has a backwash time: (Setting_Backwashtime - 20) s is the
\* dwell.  Only a power failure in the middle of the first Flash_Init, after
\* boot_times was stored, leaves it 0 for good.
Configured == phase = "run" => cut \/ mem["Setting_Backwashtime"] # 0

\* When Flash_Clear resets the device, flash holds the defaults, unless another
\* thread wrote a setting meanwhile.
ClearRestores ==
  \A t \in clearing :
    Idle(t) /\ ~disturbed =>
      \A i \in 1..13 : flash[DefaultKeys[i]] = DefaultValues[i]

\* Key_list says which key holds which setting: a setting that was set is read
\* back from its key after a restart.
SettingsSurviveRestart ==
  phase = "run" /\ clearing = {} /\ (\A t \in Threads : Idle(t)) =>
    \A n \in Saved : flash[ReadKey[n]] = mem[n]
=============================================================================

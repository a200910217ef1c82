--------------------------- MODULE SettingsProofs ---------------------------
(***************************************************************************)
(* Flash keeps up with RAM, for any number of threads and any values.      *)
(***************************************************************************)
EXTENDS Settings, SequenceTheorems, TLAPS

Names == {"Reminder_Week", "Reminder_Day", "Reminder_Enable", "Automatic_Week",
    "Automatic_Day", "Automatic_Enable", "Deltapress_Enable",
    "Counter_Manual", "Counter_Automatic", "Counter_Deltapress",
    "Counter_Error", "Setting_Hardness",
    "Setting_Backwashtime", "Setting_Language", "RTC_Reminder_Time",
    "RTC_Automatic_Time", "BAT_State", "TDS_CND", "Time_Range",
    "Telemetry_Timeout", "Telemetry_Interval", "Report_Interval",
    "AP_Timeout"}

\* The settings Flash2Mem loads are those of Key_list but Setting_Deltapress.
LEMMA LoadedNames == Loaded = Names
<1>1. ASSUME NEW k \in (1..24) \ {12} PROVE Key_list[k] \in Names
  BY SMTT(60) DEF Key_list, Names
<1>2. ASSUME NEW n \in Names PROVE \E k \in (1..24) \ {12} : Key_list[k] = n
  <2>1. /\ Key_list[1] = "Reminder_Week" /\ Key_list[2] = "Reminder_Day"
        /\ Key_list[3] = "Reminder_Enable" /\ Key_list[4] = "Automatic_Week"
        /\ Key_list[5] = "Automatic_Day" /\ Key_list[6] = "Automatic_Enable"
        /\ Key_list[7] = "Deltapress_Enable" /\ Key_list[8] = "Counter_Manual"
        /\ Key_list[9] = "Counter_Automatic" /\ Key_list[10] = "Counter_Deltapress"
        /\ Key_list[11] = "Counter_Error" /\ Key_list[13] = "Setting_Hardness"
    BY DEF Key_list
  <2>2. /\ Key_list[14] = "Setting_Backwashtime" /\ Key_list[15] = "Setting_Language"
        /\ Key_list[16] = "RTC_Reminder_Time" /\ Key_list[17] = "RTC_Automatic_Time"
        /\ Key_list[18] = "BAT_State" /\ Key_list[19] = "TDS_CND"
        /\ Key_list[20] = "Time_Range" /\ Key_list[21] = "Telemetry_Timeout"
        /\ Key_list[22] = "Telemetry_Interval" /\ Key_list[23] = "Report_Interval"
        /\ Key_list[24] = "AP_Timeout"
    BY DEF Key_list
  <2> QED
    BY <2>1, <2>2 DEF Names
<1> QED
  BY <1>1, <1>2 DEF Loaded

\* Every setting is loaded from a key of Key_list and saved to some index.
LEMMA KeyTypes == ReadKey \in [Loaded -> Keys] /\ WriteKey \in [Loaded -> Nat]
<1>1. ASSUME NEW n \in Loaded PROVE (CHOOSE k \in 1..24 : Key_list[k] = n) \in 1..24
  BY DEF Loaded
<1>2. ReadKey \in [Loaded -> Keys]
  BY <1>1 DEF ReadKey, Keys
<1> QED
  BY <1>2 DEF WriteKey, Keys

-----------------------------------------------------------------------------
(* The scripts the operations start with.                                   *)

TimeName == "Setting_Backwashtime"

\* The backwash time is set by syr_backwashtime_set alone.
GoodStep(s) == /\ s \in Steps
               /\ s.name \in Loaded
               /\ s.key = WriteKey[s.name]
               /\ s.how \in {"only", "load", "store"} => s.name \notin Saved
               /\ s.name = TimeName => s.how = "ram" /\ s.val \in Values

GoodScript(s) == s \in Seq(Steps) /\ \A i \in 1..Len(s) : GoodStep(s[i])

\* The kinds of step the setters are written with are good.
LEMMA StepKinds ==
  ASSUME NEW n \in Loaded, NEW v \in Nat
  PROVE  /\ n # TimeName \/ v \in Values => GoodStep(FromRam(n, v))
         /\ n # TimeName => /\ GoodStep(FromArg(n, v)) /\ GoodStep(Count(n))
                            /\ GoodStep(IfNew(n, v)) /\ GoodStep(IfLong(n))
         /\ n \notin Saved => /\ GoodStep(RamOnly(n, v))
                             /\ GoodStep(Step(n, WriteKey[n], v, "store"))
<1>1. WriteKey[n] \in Nat
  BY KeyTypes
<1>2. n \notin Saved => n # TimeName
  BY DEF Saved, TimeName
<1> QED
  BY <1>1, <1>2 DEF GoodStep, Steps, Step, FromRam, FromArg, Count, IfNew, IfLong, RamOnly

\* Scripts of one to five good steps are good.
LEMMA Tuples ==
  ASSUME NEW a, NEW b, NEW c, NEW d, NEW e
  PROVE  /\ GoodStep(a) => GoodScript(<<a>>)
         /\ GoodStep(a) /\ GoodStep(b) => GoodScript(<<a, b>>)
         /\ GoodStep(a) /\ GoodStep(b) /\ GoodStep(c) => GoodScript(<<a, b, c>>)
         /\ GoodStep(a) /\ GoodStep(b) /\ GoodStep(c) /\ GoodStep(d)
              => GoodScript(<<a, b, c, d>>)
         /\ GoodStep(a) /\ GoodStep(b) /\ GoodStep(c) /\ GoodStep(d) /\ GoodStep(e)
              => GoodScript(<<a, b, c, d, e>>)
<1>1. GoodStep(a) => GoodScript(<<a>>)
  BY DEF GoodScript, GoodStep
<1>2. GoodStep(a) /\ GoodStep(b) => GoodScript(<<a, b>>)
  BY DEF GoodScript, GoodStep
<1>3. GoodStep(a) /\ GoodStep(b) /\ GoodStep(c) => GoodScript(<<a, b, c>>)
  BY DEF GoodScript, GoodStep
<1>4. GoodStep(a) /\ GoodStep(b) /\ GoodStep(c) /\ GoodStep(d)
        => GoodScript(<<a, b, c, d>>)
  BY DEF GoodScript, GoodStep
<1>5. GoodStep(a) /\ GoodStep(b) /\ GoodStep(c) /\ GoodStep(d) /\ GoodStep(e)
        => GoodScript(<<a, b, c, d, e>>)
  BY DEF GoodScript, GoodStep
<1> QED
  BY <1>1, <1>2, <1>3, <1>4, <1>5

\* The setters of syr_api.c.
LEMMA SyrGood == ASSUME NEW s \in SyrScripts PROVE GoodScript(s)
<1> USE SettingsAssumption, LoadedNames DEF Names, TimeName
<1>1. ASSUME NEW v \in Nat PROVE v \div 7 \in Nat /\ v % 7 \in Nat
  OBVIOUS
<1>2. CASE s \in syr_ram_set
  <2>1. PICK v \in Values, n \in RamSetters : s = <<FromRam(n, v)>>
    BY <1>2 DEF syr_ram_set
  <2>2. n \in Loaded /\ v \in Nat
    BY DEF RamSetters
  <2> QED
    BY <2>1, <2>2, StepKinds, Tuples
<1>3. CASE s \in syr_arg_set
  <2>1. PICK v \in Values, n \in ArgSetters : s = <<FromArg(n, v)>>
    BY <1>3 DEF syr_arg_set
  <2>2. n \in Loaded /\ n # TimeName /\ v \in Nat
    BY DEF ArgSetters
  <2> QED
    BY <2>1, <2>2, StepKinds, Tuples
<1>4. CASE s \in syr_tdscalib_set
  <2>1. PICK v \in Nat : s = <<FromRam("TDS_CND", v)>>
    BY <1>4 DEF syr_tdscalib_set
  <2> QED
    BY <2>1, StepKinds, Tuples
<1>5. CASE s \in syr_count_manual_set
  BY <1>5, StepKinds, Tuples DEF syr_count_manual_set
<1>6. CASE s \in syr_remind_time_set
  <2>1. PICK v \in Values : s = <<FromRam("Reminder_Week", v \div 7),
                                  FromRam("Reminder_Day", v % 7)>>
    BY <1>6 DEF syr_remind_time_set
  <2>2. /\ GoodStep(FromRam("Reminder_Week", v \div 7))
        /\ GoodStep(FromRam("Reminder_Day", v % 7))
    BY <1>1, StepKinds
  <2> QED
    BY <2>1, <2>2, Tuples
<1>7. CASE s \in syr_auto_time_set
  <2>1. PICK v \in Values : s = <<FromRam("Automatic_Week", v \div 7),
                                  FromRam("Automatic_Day", v % 7)>>
    BY <1>7 DEF syr_auto_time_set
  <2>2. /\ GoodStep(FromRam("Automatic_Week", v \div 7))
        /\ GoodStep(FromRam("Automatic_Day", v % 7))
    BY <1>1, StepKinds
  <2> QED
    BY <2>1, <2>2, Tuples
<1>8. CASE s \in syr_range_set
  <2>1. PICK v \in {0, 1} : s = <<FromRam("Time_Range", v), IfLong("Automatic_Week"),
                                  IfLong("Reminder_Week")>>
    BY <1>8 DEF syr_range_set
  <2>2. /\ GoodStep(FromRam("Time_Range", v)) /\ GoodStep(IfLong("Automatic_Week"))
        /\ GoodStep(IfLong("Reminder_Week"))
    BY StepKinds
  <2> QED
    BY <2>1, <2>2, Tuples
<1> QED
  BY <1>2, <1>3, <1>4, <1>5, <1>6, <1>7, <1>8 DEF SyrScripts

\* The menu.
LEMMA MenuGood == ASSUME NEW s \in MenuScripts PROVE GoodScript(s)
<1> USE SettingsAssumption, LoadedNames DEF Names, TimeName
<1>1. ASSUME NEW v \in Nat PROVE v \div 7 \in Nat /\ v % 7 \in Nat
  OBVIOUS
<1>0. "RTC_Reminder_Time" \notin Saved /\ "RTC_Automatic_Time" \notin Saved
  BY DEF Saved
<1>2. CASE s \in ReminderMenu
  <2>1. PICK v \in Values, e \in {0, 1} :
          s = MenuPeriod("Reminder_Week", "Reminder_Day", "Reminder_Enable",
                         "RTC_Reminder_Time", v \div 7, v % 7, e)
    BY <1>2 DEF ReminderMenu
  <2>2. /\ GoodStep(FromRam("Reminder_Week", v \div 7))
        /\ GoodStep(FromRam("Reminder_Day", v % 7))
    BY <1>1, StepKinds
  <2>3. /\ GoodStep(RamOnly("RTC_Reminder_Time", 0))
        /\ GoodStep(IfNew("Reminder_Enable", e))
    BY <1>0, StepKinds
  <2> QED
    BY <2>1, <2>2, <2>3, Tuples DEF MenuPeriod
<1>3. CASE s \in AutomaticMenu
  <2>1. PICK v \in Values, e \in {0, 1} :
          s = MenuPeriod("Automatic_Week", "Automatic_Day", "Automatic_Enable",
                         "RTC_Automatic_Time", v \div 7, v % 7, e)
    BY <1>3 DEF AutomaticMenu
  <2>2. /\ GoodStep(FromRam("Automatic_Week", v \div 7))
        /\ GoodStep(FromRam("Automatic_Day", v % 7))
    BY <1>1, StepKinds
  <2>3. /\ GoodStep(RamOnly("RTC_Automatic_Time", 0))
        /\ GoodStep(IfNew("Automatic_Enable", e))
    BY <1>0, StepKinds
  <2> QED
    BY <2>1, <2>2, <2>3, Tuples DEF MenuPeriod
<1>4. CASE s \in CounterMenu
  <2>1. PICK n \in Loaded \ {TimeName} : s = <<FromArg(n, 0)>>
    BY <1>4 DEF CounterMenu
  <2> QED
    BY <2>1, StepKinds, Tuples
<1>5. CASE s \in DeltapressMenu
  <2>1. PICK v \in {0, 1} : s = <<FromArg("Deltapress_Enable", v)>>
    BY <1>5 DEF DeltapressMenu
  <2> QED
    BY <2>1, StepKinds, Tuples
<1>6. CASE s = ManualBackwash
  <2>1. /\ GoodStep(Count("Counter_Manual"))
        /\ GoodStep(RamOnly("RTC_Reminder_Time", 0))
        /\ GoodStep(RamOnly("RTC_Automatic_Time", 0))
        /\ GoodStep(Step("RTC_Reminder_Time", WriteKey["RTC_Reminder_Time"], 0, "store"))
        /\ GoodStep(Step("RTC_Automatic_Time", WriteKey["RTC_Automatic_Time"], 0, "store"))
    BY <1>0, StepKinds
  <2> QED
    BY <1>6, <2>1, Tuples DEF ManualBackwash
<1>7. CASE s = <<Count("Counter_Error")>>
  BY <1>7, StepKinds, Tuples
<1> QED
  BY <1>2, <1>3, <1>4, <1>5, <1>6, <1>7 DEF MenuScripts

\* Every operation of every thread.
LEMMA ScriptsGood == ASSUME NEW t, NEW s \in Scripts(t) PROVE GoodScript(s)
<1> USE LoadedNames DEF Names, TimeName
<1>1. \A n \in Loaded : n # TimeName => GoodScript(<<Count(n)>>)
  BY StepKinds, Tuples
<1>2. CASE s \in SyrScripts \/ s \in MenuScripts
  BY <1>2, SyrGood, MenuGood
<1>3. CASE s \in TimerScripts
  <2>1. CASE s \in {<<FromRam("BAT_State", v)>> : v \in {0, 1} \ {mem["BAT_State"]}}
    <3>1. PICK v \in {0, 1} : s = <<FromRam("BAT_State", v)>>
      BY <2>1
    <3> QED
      BY <3>1, StepKinds, Tuples
  <2>2. CASE s = <<Count("Counter_Error")>>
    BY <1>1, <2>2
  <2> QED
    BY <1>3, <2>1, <2>2 DEF TimerScripts
<1>4. CASE s = <<Count("Counter_Automatic")>> \/ s = <<Count("Counter_Deltapress")>>
  BY <1>1, <1>4
<1> QED
  BY <1>2, <1>3, <1>4 DEF Scripts

-----------------------------------------------------------------------------
(* Facts the steps rest on.                                                 *)

\* The serial link's own names are loaded and saved, and none is a name.
LEMMA OwnFacts ==
  /\ "none" \notin Loaded /\ "none" \notin Saved
  /\ \A n \in Own : /\ n \in Loaded /\ n \in Saved /\ n # "none"
                    /\ WriteKey[n] = ReadKey[n] /\ ReadKey[n] \in Keys
                    /\ \A m \in Loaded \ {n} : WriteKey[m] # ReadKey[n]
<1>1. "none" \notin Names
  BY DEF Names
<1> QED
  BY <1>1, LoadedNames, KeyTypes DEF Own, Saved

\* What is left of a script when its first step is done.
LEMMA HeadTail ==
  ASSUME NEW s \in Seq(Steps), s # <<>>
  PROVE  /\ Len(s) \in Nat /\ 1 \in 1..Len(s) /\ Head(s) = s[1] /\ Head(s) \in Steps
         /\ Tail(s) \in Seq(Steps) /\ Len(Tail(s)) = Len(s) - 1
         /\ \A i \in 1..Len(Tail(s)) : i + 1 \in 1..Len(s) /\ Tail(s)[i] = s[i + 1]
         /\ Tail(s) # <<>> => 2 \in 1..Len(s) /\ Head(Tail(s)) = s[2]
  OBVIOUS

\* The defaults are written by steps that name no setting.
LEMMA DefaultSteps ==
  /\ Set_Default \in Seq(Steps)
  /\ <<Step("none", 0, 1, "store")>> \o Set_Default \in Seq(Steps)
  /\ \A i \in 1..Len(Set_Default) : /\ Set_Default[i].name = "none"
                                    /\ Set_Default[i].how = "store"
<1>1. \A i \in 1..13 : DefaultKeys[i] \in Nat /\ DefaultValues[i] \in Nat
  BY DEF DefaultKeys, DefaultValues
<1>2. \A i \in 1..13 : Store_Default(i) \in Steps
  BY <1>1 DEF Store_Default, Step, Steps
<1>3. [i \in 1..13 |-> Store_Default(i)] \in Seq(Steps)
  BY <1>2
<1>4. Set_Default \in Seq(Steps) /\ Len(Set_Default) = 13
  BY <1>3 DEF Set_Default
<1>5. Step("none", 0, 1, "store") \in Steps
  BY DEF Step, Steps
<1>6. <<Step("none", 0, 1, "store")>> \o Set_Default \in Seq(Steps)
  BY <1>4, <1>5
<1> QED
  BY <1>4, <1>6 DEF Set_Default, Store_Default, Step

-----------------------------------------------------------------------------
(* The steps.                                                               *)

\* The invariant holds at power-on.
LEMMA SettingsInit == Init => SettingsInv
<1> SUFFICES ASSUME Init PROVE SettingsInv
  OBVIOUS
<1>0. Switches
  BY Zenon DEF Init, Switches
<1>1. Ranges
  BY DEF Init, Ranges, NoArg
<1>2. ScriptsOK /\ CallsOK /\ Quiet
  BY DEF Init, ScriptsOK, CallsOK, Quiet, Idle, NoArg
<1> QED
  BY <1>0, <1>1, <1>2 DEF Init, SettingsInv, TypeOK

\* A thread begins a call.
LEMMA StepBegin ==
  ASSUME SettingsInv, NEW t \in Threads, Begin(t) PROVE SettingsInv'
<1> USE DEF SettingsInv
<1>1. PICK s \in Scripts(t) : todo' = [todo EXCEPT ![t] = s]
  BY DEF Begin
<1>2. GoodScript(s)
  BY ScriptsGood
<1>3. UNCHANGED <<phase, flash, mem, bootTodo, arg, clearing, pmStorage, raced, cut, disturbed>>
  BY DEF Begin, hist
<1>4. todo[t] = <<>> /\ arg[t] = NoArg /\ phase = "run"
  BY DEF Begin, Idle
<1>5. TypeOK'
  <2>1. Switches'
    BY <1>3 DEF TypeOK, Switches
  <2>2. Ranges'
    BY <1>1, <1>2, <1>3 DEF TypeOK, Ranges, GoodScript
  <2> QED
    BY <2>1, <2>2 DEF TypeOK
<1>6. ScriptsOK'
  <2>1. \A i \in 1..Len(s) : /\ s[i].name \in Loaded /\ s[i].key = WriteKey[s[i].name]
                             /\ s[i].how \in {"only", "load", "store"} => s[i].name \notin Saved
                             /\ s[i].name = "Setting_Backwashtime" => s[i].how = "ram"
    BY <1>2 DEF GoodScript, GoodStep, TimeName
  <2>2. todo'[t] = s /\ \A u \in Threads \ {t} : todo'[u] = todo[u]
    BY <1>1 DEF TypeOK, Ranges
  <2> QED
    BY <1>3, <2>1, <2>2, OwnFacts DEF ScriptsOK, StepOK
<1>7. CallsOK' /\ Quiet'
  BY <1>3, <1>4 DEF CallsOK, Quiet
<1>8. ASSUME NEW n \in Own \ raced, clearing = {} PROVE Latest(n)'
  <2>1. Latest(n)
    BY <1>4, <1>8
  <2>2. s # <<>> /\ Head(s).how \in {"load", "store"} => Head(s).name # n
    <3>1. s # <<>> => GoodStep(s[1]) /\ Head(s) = s[1]
      BY <1>2 DEF GoodScript
    <3> QED
      BY <3>1, OwnFacts DEF GoodStep
  <2>3. todo'[t] = s /\ \A u \in Threads \ {t} : todo'[u] = todo[u]
    BY <1>1 DEF TypeOK, Ranges
  <2>4. ~Unsaved(t, n)
    BY <1>4, OwnFacts DEF Unsaved, NoArg
  <2>5. \A u \in Threads : Unsaved(u, n) => Unsaved(u, n)'
    BY <1>3, <2>3, <2>4 DEF Unsaved
  <2> QED
    BY <1>3, <2>1, <2>2, <2>3, <2>5 DEF Latest
<1> QED
  BY <1>3, <1>5, <1>6, <1>7, <1>8

\* A step of t that takes the first step off its script, or puts a few steps
\* that hold no value in its place, disturbs no setting with a key of its own.
LEMMA StepDrop ==
  ASSUME TypeOK, ScriptsOK, NEW t \in Threads, todo[t] # <<>>,
         NEW p \in Seq(Steps),
         \A i \in 1..Len(p) : GoodStep(p[i]),
         todo' = [todo EXCEPT ![t] = p \o Tail(@)],
         clearing' = clearing
  PROVE  /\ todo' \in [Threads -> Seq(Steps)]
         /\ ScriptsOK'
         /\ \A n \in Saved :
              todo'[t] # <<>> /\ Head(todo'[t]).how \in {"load", "store"}
                => Head(todo'[t]).name # n
<1> DEFINE old == todo[t]
           new == p \o Tail(old)
<1>1. old \in Seq(Steps) /\ old # <<>>
  BY DEF TypeOK, Ranges
<1>2. /\ new \in Seq(Steps)
      /\ \A i \in 1..Len(new) :
           \/ i \in 1..Len(p) /\ new[i] = p[i]
           \/ \E j \in 1..Len(old) : j > 1 /\ new[i] = old[j]
  <2>1. Tail(old) \in Seq(Steps) /\ \A i \in 1..Len(Tail(old)) :
          i + 1 \in 1..Len(old) /\ Tail(old)[i] = old[i + 1] /\ i + 1 > 1
    BY <1>1, HeadTail
  <2>2. ASSUME NEW q \in Seq(Steps)
        PROVE  /\ p \o q \in Seq(Steps)
               /\ \A i \in 1..Len(p \o q) :
                    \/ i \in 1..Len(p) /\ (p \o q)[i] = p[i]
                    \/ i - Len(p) \in 1..Len(q) /\ (p \o q)[i] = q[i - Len(p)]
    OBVIOUS
  <2>3. ASSUME NEW i \in 1..Len(new)
        PROVE  \/ i \in 1..Len(p) /\ new[i] = p[i]
               \/ i - Len(p) \in 1..Len(Tail(old)) /\ new[i] = Tail(old)[i - Len(p)]
    BY <2>1, <2>2
  <2> QED
    BY <2>1, <2>2, <2>3
<1>3. todo'[t] = new /\ \A u \in Threads \ {t} : todo'[u] = todo[u]
  BY DEF TypeOK, Ranges
<1>4. todo' \in [Threads -> Seq(Steps)]
  BY <1>2 DEF TypeOK, Ranges
<1>5. ASSUME NEW i \in 1..Len(new)
      PROVE  /\ new[i].name = "none" => t \in clearing /\ new[i].how = "store"
             /\ new[i].name # "none" => new[i].key = WriteKey[new[i].name]
             /\ new[i].how = "only" => new[i].name \notin Saved
             /\ new[i].how \in {"load", "store"} => new[i].name \notin Saved
             /\ new[i].name = "Setting_Backwashtime" => new[i].how \in {"ram", "load"}
  <2>1. CASE i \in 1..Len(p) /\ new[i] = p[i]
    BY <2>1, OwnFacts DEF GoodStep, TimeName
  <2>2. ASSUME NEW j \in 1..Len(old), j > 1, new[i] = old[j]
        PROVE  /\ new[i].name = "none" => t \in clearing /\ new[i].how = "store"
               /\ new[i].name # "none" => new[i].key = WriteKey[new[i].name]
               /\ new[i].how = "only" => new[i].name \notin Saved
               /\ new[i].how \in {"load", "store"} => new[i].name \notin Saved
               /\ new[i].name = "Setting_Backwashtime" => new[i].how \in {"ram", "load"}
    <3>1. StepOK(t, j)
      BY DEF ScriptsOK
    <3> QED
      BY <2>2, <3>1 DEF StepOK
  <2> QED
    BY <1>2, <2>1, <2>2
<1> HIDE DEF new, old
<1>6. ScriptsOK'
  <2>1. ASSUME NEW u \in Threads \ {t}, NEW i \in 1..Len(todo'[u]) PROVE StepOK(u, i)'
    BY <1>3, <2>1 DEF ScriptsOK, StepOK
  <2>2. ASSUME NEW i \in 1..Len(todo'[t]) PROVE StepOK(t, i)'
    BY <1>3, <1>5 DEF StepOK
  <2> QED
    BY <2>1, <2>2 DEF ScriptsOK
<1>7. new # <<>> => Head(new) = new[1] /\ 1 \in 1..Len(new)
  BY <1>2
<1>8. ASSUME NEW n \in Saved, new # <<>>, Head(new).how \in {"load", "store"}
      PROVE  Head(new).name # n
  BY <1>5, <1>7, <1>8
<1> QED
  BY <1>3, <1>4, <1>6, <1>8

\* A variable is assigned.
LEMMA StepAssign ==
  ASSUME SettingsInv, NEW t \in Threads, Assign(t) PROVE SettingsInv'
<1> USE DEF SettingsInv
<1> DEFINE s == Head(todo[t])
<1>1. /\ phase = "run" /\ arg[t] = NoArg /\ todo[t] # <<>> /\ todo[t] \in Seq(Steps)
      /\ UNCHANGED <<phase, flash, bootTodo, arg, clearing, pmStorage, cut, disturbed>>
  BY DEF Assign, TypeOK, Ranges
<1>2. s = todo[t][1] /\ s \in Steps /\ 1 \in 1..Len(todo[t])
  BY <1>1, HeadTail
<1>3. PICK v, how : /\ Put(t, v, how) /\ s.how \notin {"load", "store"}
                    /\ \/ v = s.val
                       \/ v = mem[s.name] + 1
                    /\ \/ how = "load" \/ how = "store"
                       \/ how = "done" /\ s.how = "only"
                    /\ how = "store" => s.how = "arg"
  BY DEF Assign
<1>4. StepOK(t, 1)
  BY <1>2 DEF ScriptsOK
<1>5. /\ s.name \in Loaded /\ s.key = WriteKey[s.name] /\ s.val \in Nat
      /\ s.name = "Setting_Backwashtime" => how # "store"
  BY <1>2, <1>3, <1>4 DEF StepOK, Steps
<1>6. v \in Nat
  BY <1>3, <1>5 DEF TypeOK, Ranges
<1>7. /\ mem' = [mem EXCEPT ![s.name] = v]
      /\ raced' = IF \E u \in Threads \ {t} : Holds(u, s.name)
                  THEN raced \cup {s.name} ELSE raced
      /\ todo' = [todo EXCEPT ![t] =
           IF how = "done" THEN Tail(@)
           ELSE [@ EXCEPT ![1] = [s EXCEPT !.val = v, !.how = how]]]
  BY <1>3 DEF Put
<1>8. /\ todo' \in [Threads -> Seq(Steps)] /\ ScriptsOK'
      /\ \A u \in Threads \ {t} : todo'[u] = todo[u]
      /\ \/ /\ how = "done" /\ s.name \notin Saved
            /\ \A n \in Saved :
                 todo'[t] # <<>> /\ Head(todo'[t]).how \in {"load", "store"}
                   => Head(todo'[t]).name # n
         \/ /\ todo'[t] # <<>> /\ Head(todo'[t]).name = s.name
            /\ Head(todo'[t]).how \in {"load", "store"} /\ Head(todo'[t]).val = v
  <2>1. CASE how = "done"
    <3>1. todo' = [todo EXCEPT ![t] = Tail(@)] /\ clearing' = clearing
      BY <1>1, <1>7, <2>1
    <3>2. Tail(todo[t]) = <<>> \o Tail(todo[t])
      BY <1>1, HeadTail, ConcatEmptySeq
    <3>3. todo' = [todo EXCEPT ![t] = <<>> \o Tail(@)]
      BY <3>1, <3>2
    <3>4. <<>> \in Seq(Steps) /\ \A i \in 1..Len(<<>>) : GoodStep(<<>>[i])
      OBVIOUS
    <3>5. /\ todo' \in [Threads -> Seq(Steps)] /\ ScriptsOK'
          /\ \A n \in Saved :
               todo'[t] # <<>> /\ Head(todo'[t]).how \in {"load", "store"}
                 => Head(todo'[t]).name # n
      BY <1>1, <3>1, <3>3, <3>4, StepDrop
    <3>6. s.name \notin Saved
      BY <1>2, <1>3, <1>4, <2>1 DEF StepOK
    <3>7. \A u \in Threads \ {t} : todo'[u] = todo[u]
      BY <3>1 DEF TypeOK, Ranges
    <3> QED
      BY <2>1, <3>5, <3>6, <3>7
  <2>2. CASE how \in {"load", "store"}
    <3> DEFINE e == [s EXCEPT !.val = v, !.how = how]
               new == [todo[t] EXCEPT ![1] = e]
    <3>1. /\ e \in Steps /\ e.name = s.name /\ e.key = s.key /\ e.val = v
          /\ e.how = how
      BY <1>2, <1>6, <2>2 DEF Steps
    <3> HIDE DEF e, s
    <3>2. /\ new \in Seq(Steps) /\ Len(new) = Len(todo[t])
          /\ \A j \in 1..Len(todo[t]) : new[j] = IF j = 1 THEN e ELSE todo[t][j]
      BY <1>1, <1>2, <3>1, ExceptSeq
    <3>3. todo' = [todo EXCEPT ![t] = new]
      BY <1>7, <2>2 DEF e
    <3> HIDE DEF new
    <3>4. todo'[t] = new /\ \A u \in Threads \ {t} : todo'[u] = todo[u]
      BY <3>3 DEF TypeOK, Ranges
    <3>5. todo' \in [Threads -> Seq(Steps)]
      BY <3>2, <3>3 DEF TypeOK, Ranges
    <3>6. new # <<>> /\ Head(new) = e
      BY <1>2, <3>2
    <3>7. ScriptsOK'
      <4>1. ASSUME NEW u \in Threads \ {t}, NEW i \in 1..Len(todo'[u])
            PROVE  StepOK(u, i)'
        BY <1>1, <3>4, <4>1 DEF ScriptsOK, StepOK
      <4>2. ASSUME NEW i \in 1..Len(todo'[t]) PROVE StepOK(t, i)'
        <5>1. CASE i = 1
          BY <1>1, <1>5, <2>2, <3>1, <3>2, <3>4, <5>1, <1>2, OwnFacts DEF StepOK
        <5>2. CASE i # 1
          <6>1. i \in 1..Len(todo[t]) /\ todo'[t][i] = todo[t][i]
            BY <3>2, <3>4, <5>2
          <6>2. StepOK(t, i)
            BY <6>1 DEF ScriptsOK
          <6> QED
            BY <1>1, <6>1, <6>2 DEF StepOK
        <5> QED
          BY <5>1, <5>2
      <4> QED
        BY <4>1, <4>2 DEF ScriptsOK
    <3> QED
      BY <2>2, <3>1, <3>4, <3>5, <3>6, <3>7
  <2> QED
    BY <1>3, <2>1, <2>2
<1> HIDE DEF s
<1>9. TypeOK'
  <2>1. Switches'
    BY <1>1 DEF TypeOK, Switches
  <2>2. Ranges'
    BY <1>1, <1>5, <1>6, <1>7, <1>8 DEF TypeOK, Ranges
  <2> QED
    BY <2>1, <2>2 DEF TypeOK
<1>10. CallsOK' /\ Quiet'
  BY <1>1 DEF CallsOK, Quiet
<1>11. ASSUME NEW n \in Own \ raced', clearing = {} PROVE Latest(n)'
  <2>1. n \in Own \ raced /\ n \in Saved /\ n \in Loaded /\ n # "none"
    BY <1>7, OwnFacts
  <2>2. Latest(n)
    BY <1>1, <1>11, <2>1
  <2>3. CASE n = s.name
    <3>1. \A u \in Threads \ {t} : ~Holds(u, n)
      BY <1>7, <1>11, <2>3
    <3>2. todo'[t] # <<>> /\ Head(todo'[t]).name = n
          /\ Head(todo'[t]).how \in {"load", "store"} /\ Head(todo'[t]).val = v
      BY <1>8, <2>1, <2>3
    <3>3. mem'[n] = v
      BY <1>5, <1>7, <2>3 DEF TypeOK, Ranges
    <3>4. \A u \in Threads : arg'[u].name # n
      BY <1>1, <2>1, <3>1 DEF Holds, NoArg
    <3>5. \A u \in Threads \ {t} :
            ~(todo'[u] # <<>> /\ Head(todo'[u]).name = n /\ Head(todo'[u]).how = "store")
      BY <1>8, <3>1 DEF Holds
    <3>6. Unsaved(t, n)'
      BY <3>2 DEF Unsaved
    <3> QED
      BY <3>2, <3>3, <3>4, <3>5, <3>6 DEF Latest
  <2>4. CASE n # s.name
    <3>1. mem'[n] = mem[n]
      BY <1>5, <1>7, <2>1, <2>4 DEF TypeOK, Ranges
    <3>2. todo'[t] # <<>> /\ Head(todo'[t]).how \in {"load", "store"}
            => Head(todo'[t]).name # n
      BY <1>8, <2>1, <2>4
    <3>3. ~Unsaved(t, n)
      BY <1>1, <2>1, <2>4 DEF Unsaved, NoArg, s
    <3>4. \A u \in Threads : Unsaved(u, n) => Unsaved(u, n)'
      BY <1>1, <1>8, <3>3 DEF Unsaved
    <3> QED
      BY <1>1, <1>8, <2>2, <3>1, <3>2, <3>4 DEF Latest
  <2> QED
    BY <2>3, <2>4
<1> QED
  BY <1>1, <1>8, <1>9, <1>10, <1>11

\* A condition of a script is evaluated.
LEMMA StepCheck ==
  ASSUME SettingsInv, NEW t \in Threads, Check(t) PROVE SettingsInv'
<1> USE DEF SettingsInv
<1> DEFINE s == Head(todo[t])
<1>1. /\ phase = "run" /\ arg[t] = NoArg /\ todo[t] # <<>> /\ todo[t] \in Seq(Steps)
      /\ UNCHANGED <<phase, flash, mem, bootTodo, arg, clearing, pmStorage, raced, cut, disturbed>>
  BY DEF Check, TypeOK, Ranges, hist
<1>2. ASSUME NEW n \in Loaded, n # TimeName
                            PROVE  /\ Shorten(n) \in Seq(Steps)
                                   /\ \A i \in 1..Len(Shorten(n)) : GoodStep(Shorten(n)[i])
  <2> USE LoadedNames DEF Names, TimeName
  <2>1. "RTC_Reminder_Time" \notin Saved /\ "RTC_Automatic_Time" \notin Saved
    BY DEF Saved
  <2>2. /\ GoodStep(FromRam(n, 8)) /\ GoodStep(FromRam("Automatic_Day", 5))
        /\ GoodStep(FromRam("Reminder_Day", 5))
        /\ GoodStep(RamOnly("RTC_Automatic_Time", 0))
        /\ GoodStep(RamOnly("RTC_Reminder_Time", 0))
    BY <1>2, <2>1, StepKinds
  <2>3. GoodScript(Shorten(n))
    BY <2>2, Tuples DEF Shorten
  <2> QED
    BY <2>3 DEF GoodScript
<1>3. PICK p \in Seq(Steps) : /\ \A i \in 1..Len(p) : GoodStep(p[i])
                              /\ todo' = [todo EXCEPT ![t] = p \o Tail(@)]
                              /\ s.how \notin {"load", "store"}
  <2>0. /\ Tail(todo[t]) = <<>> \o Tail(todo[t])
        /\ <<>> \in Seq(Steps) /\ \A i \in 1..Len(<<>>) : GoodStep(<<>>[i])
    BY <1>1, HeadTail, ConcatEmptySeq
  <2>1. CASE s.how = "new" /\ todo' = [todo EXCEPT ![t] = Tail(@)]
    BY <2>0, <2>1
  <2>2. CASE /\ s.how = "range"
             /\ \/ todo' = [todo EXCEPT ![t] = Shorten(s.name) \o Tail(@)]
                \/ todo' = [todo EXCEPT ![t] = <<>> \o Tail(@)]
    <3>1. s.name \in Loaded /\ s.name # TimeName
      <4>1. s = todo[t][1] /\ s \in Steps /\ StepOK(t, 1)
        BY <1>1, HeadTail DEF ScriptsOK
      <4> QED
        BY <2>2, <4>1 DEF StepOK, Steps, TimeName
    <3> QED
      BY <1>2, <2>0, <2>2, <3>1
  <2> QED
    BY <2>1, <2>2 DEF Check
<1>4. /\ todo' \in [Threads -> Seq(Steps)] /\ ScriptsOK'
      /\ \A n \in Saved :
           todo'[t] # <<>> /\ Head(todo'[t]).how \in {"load", "store"}
             => Head(todo'[t]).name # n
  BY <1>1, <1>3, StepDrop
<1>5. \A u \in Threads \ {t} : todo'[u] = todo[u]
  BY <1>3 DEF TypeOK, Ranges
<1>6. TypeOK'
  <2>1. Switches'
    BY <1>1 DEF TypeOK, Switches
  <2>2. Ranges'
    BY <1>1, <1>4 DEF TypeOK, Ranges
  <2> QED
    BY <2>1, <2>2 DEF TypeOK
<1>7. CallsOK' /\ Quiet'
  BY <1>1 DEF CallsOK, Quiet
<1>8. ASSUME NEW n \in Own \ raced, clearing = {} PROVE Latest(n)'
  <2>1. n \in Saved /\ n # "none" /\ Latest(n)
    BY <1>1, <1>8, OwnFacts
  <2>2. ~Unsaved(t, n)
    BY <1>1, <1>3, <2>1 DEF Unsaved, NoArg
  <2>3. \A u \in Threads : Unsaved(u, n) => Unsaved(u, n)'
    BY <1>1, <1>5, <2>2 DEF Unsaved
  <2> QED
    BY <1>1, <1>4, <1>5, <2>1, <2>3 DEF Latest
<1> QED
  BY <1>1, <1>4, <1>6, <1>7, <1>8

\* Flash_Set is entered: the value passes from the script to the call.
LEMMA StepFlash_Set ==
  ASSUME SettingsInv, NEW t \in Threads, Flash_Set(t) PROVE SettingsInv'
<1> USE DEF SettingsInv
<1> DEFINE s == Head(todo[t])
           v == IF s.how = "load" THEN mem[s.name] ELSE s.val
<1>1. /\ phase = "run" /\ arg[t] = NoArg /\ todo[t] # <<>> /\ todo[t] \in Seq(Steps)
      /\ s.how \in {"load", "store"}
      /\ arg' = [arg EXCEPT ![t] = [name |-> s.name, key |-> s.key, val |-> v]]
      /\ todo' = [todo EXCEPT ![t] = Tail(@)]
      /\ UNCHANGED <<phase, flash, mem, bootTodo, clearing, raced, cut, disturbed>>
  BY DEF Flash_Set, TypeOK, Ranges, hist
<1>2. s = todo[t][1] /\ s \in Steps /\ StepOK(t, 1)
  BY <1>1, HeadTail DEF ScriptsOK
<1>3. /\ s.name \in Loaded \cup {"none"} /\ s.key \in Nat /\ v \in Nat
      /\ s.name = "none" => t \in clearing
      /\ s.name # "none" => s.key = WriteKey[s.name]
  BY <1>1, <1>2 DEF StepOK, Steps, TypeOK, Ranges
<1> HIDE DEF v
<1>4. /\ todo' \in [Threads -> Seq(Steps)] /\ ScriptsOK'
      /\ \A n \in Saved :
           todo'[t] # <<>> /\ Head(todo'[t]).how \in {"load", "store"}
             => Head(todo'[t]).name # n
  <2>1. /\ Tail(todo[t]) = <<>> \o Tail(todo[t])
        /\ <<>> \in Seq(Steps) /\ \A i \in 1..Len(<<>>) : GoodStep(<<>>[i])
    BY <1>1, HeadTail, ConcatEmptySeq
  <2>2. todo' = [todo EXCEPT ![t] = <<>> \o Tail(@)]
    BY <1>1, <2>1
  <2> QED
    BY <1>1, <2>1, <2>2, StepDrop
<1>5. /\ arg'[t] = [name |-> s.name, key |-> s.key, val |-> v]
      /\ \A u \in Threads \ {t} : todo'[u] = todo[u] /\ arg'[u] = arg[u]
  BY <1>1 DEF TypeOK, Ranges
<1>6. TypeOK'
  <2>1. Switches'
    BY <1>1, Zenon DEF TypeOK, Switches, Flash_Set
  <2>2. Ranges'
    BY <1>1, <1>3, <1>4 DEF TypeOK, Ranges
  <2> QED
    BY <2>1, <2>2 DEF TypeOK
<1>7. CallsOK' /\ Quiet'
  BY <1>1, <1>3, <1>5 DEF CallsOK, Quiet
<1>8. ASSUME NEW n \in Own \ raced, clearing = {} PROVE Latest(n)'
  <2>1. n \in Saved /\ n # "none" /\ Latest(n)
    BY <1>1, <1>8, OwnFacts
  <2>2. arg'[t].name = n => arg'[t].val = mem[n]
    BY <1>1, <1>5, <2>1 DEF Latest, v
  <2>3. Unsaved(t, n) => Unsaved(t, n)'
    BY <1>1, <1>5, <2>1 DEF Unsaved, NoArg
  <2>4. \A u \in Threads : Unsaved(u, n) => Unsaved(u, n)'
    BY <1>5, <2>3 DEF Unsaved
  <2> QED
    BY <1>1, <1>4, <1>5, <2>1, <2>2, <2>4 DEF Latest
<1> QED
  BY <1>1, <1>4, <1>6, <1>7, <1>8

\* The key is written.
LEMMA StepFlash_Set_Return ==
  ASSUME SettingsInv, NEW t \in Threads, Flash_Set_Return(t) PROVE SettingsInv'
<1> USE DEF SettingsInv
<1>1. /\ phase = "run" /\ arg[t] # NoArg
      /\ flash' = Stored(arg[t].key, arg[t].val)
      /\ arg' = [arg EXCEPT ![t] = NoArg]
      /\ UNCHANGED <<phase, mem, bootTodo, todo, clearing, raced, cut>>
  BY DEF Flash_Set_Return
<1>2. /\ arg[t].name \in Loaded \cup {"none"} /\ arg[t].key \in Nat /\ arg[t].val \in Nat
      /\ arg'[t] = NoArg
      /\ \A u \in Threads \ {t} : arg'[u] = arg[u]
  BY <1>1 DEF TypeOK, Ranges
<1>3. TypeOK'
  <2>1. Switches'
    BY <1>1, Zenon DEF TypeOK, Switches, Flash_Set_Return
  <2>2. Ranges'
    BY <1>1, <1>2 DEF TypeOK, Ranges, Stored, NoArg
  <2> QED
    BY <2>1, <2>2 DEF TypeOK
<1>4. ScriptsOK' /\ CallsOK' /\ Quiet'
  BY <1>1, <1>2 DEF ScriptsOK, StepOK, CallsOK, Quiet, NoArg
<1>5. ASSUME NEW n \in Own \ raced, clearing = {} PROVE Latest(n)'
  <2>1. /\ n \in Loaded /\ n # "none" /\ Latest(n)
        /\ WriteKey[n] = ReadKey[n] /\ ReadKey[n] \in Keys
        /\ \A m \in Loaded \ {n} : WriteKey[m] # ReadKey[n]
    BY <1>1, <1>5, OwnFacts
  <2>2. arg[t].name \in Loaded /\ arg[t].key = WriteKey[arg[t].name]
    BY <1>1, <1>2, <1>5 DEF CallsOK
  <2>3. CASE arg[t].name = n
    <3>1. flash'[ReadKey[n]] = arg[t].val /\ arg[t].val = mem[n]
      BY <1>1, <2>1, <2>2, <2>3 DEF Stored, Latest
    <3> QED
      BY <1>1, <1>2, <2>1, <3>1 DEF Latest, NoArg
  <2>4. CASE arg[t].name # n
    <3>1. flash'[ReadKey[n]] = flash[ReadKey[n]]
      BY <1>1, <2>1, <2>2, <2>4 DEF Stored
    <3>2. \A u \in Threads : Unsaved(u, n) => Unsaved(u, n)'
      BY <1>1, <1>2, <2>4 DEF Unsaved
    <3> QED
      BY <1>1, <1>2, <2>1, <3>1, <3>2 DEF Latest, NoArg
  <2> QED
    BY <2>3, <2>4
<1> QED
  BY <1>1, <1>3, <1>4, <1>5

\* Factory reset begins.
LEMMA StepFlash_Clear ==
  ASSUME SettingsInv, NEW t \in Threads, Flash_Clear(t) PROVE SettingsInv'
<1> USE DEF SettingsInv
<1>1. /\ phase = "run" /\ clearing' = clearing \cup {t}
      /\ todo' = [todo EXCEPT ![t] = Set_Default]
      /\ UNCHANGED <<phase, flash, mem, bootTodo, arg, raced, cut, disturbed>>
  BY DEF Flash_Clear, hist
<1>2. todo'[t] = Set_Default /\ \A u \in Threads \ {t} : todo'[u] = todo[u]
  BY <1>1 DEF TypeOK, Ranges
<1>3. TypeOK'
  <2>1. Switches'
    BY <1>1, Zenon DEF TypeOK, Switches, Flash_Clear
  <2>2. Ranges'
    BY <1>1, DefaultSteps DEF TypeOK, Ranges
  <2> QED
    BY <2>1, <2>2 DEF TypeOK
<1>4. ScriptsOK'
  BY <1>1, <1>2, DefaultSteps, OwnFacts DEF ScriptsOK, StepOK
<1>5. CallsOK' /\ Quiet'
  BY <1>1 DEF CallsOK, Quiet
<1> QED
  BY <1>1, <1>3, <1>4, <1>5

\* The device goes down: every thread is gone.
LEMMA StepHalt ==
  ASSUME SettingsInv, Halt, cut' \in BOOLEAN PROVE SettingsInv'
<1> USE DEF SettingsInv
<1>1. Switches'
  BY Zenon DEF Halt, Switches
<1>2. Ranges'
  BY DEF Halt, TypeOK, Ranges, NoArg
<1>3. ScriptsOK' /\ CallsOK' /\ Quiet'
  BY DEF Halt, ScriptsOK, CallsOK, Quiet, Idle, NoArg
<1>4. phase' # "run"
  BY DEF Halt
<1> QED
  BY <1>1, <1>2, <1>3, <1>4 DEF TypeOK

\* The boot stores the defaults and loads the settings.
LEMMA StepBoot ==
  ASSUME SettingsInv, Boot \/ BootStore \/ Flash2Mem PROVE SettingsInv'
<1> USE DEF SettingsInv
<1>1. /\ phase # "run" /\ clearing = {} /\ \A t \in Threads : Idle(t)
      /\ UNCHANGED <<todo, arg, clearing, pmStorage, raced, cut, disturbed>>
  BY DEF Boot, BootStore, Flash2Mem, Quiet, hist
<1>2. Switches'
  BY <1>1 DEF TypeOK, Switches
<1>3. Ranges'
  <2>1. CASE Boot
    BY <1>1, <2>1, DefaultSteps DEF Boot, TypeOK, Ranges
  <2>2. CASE BootStore
    <3>1. Head(bootTodo) \in Steps /\ Tail(bootTodo) \in Seq(Steps)
      BY <2>2, HeadTail DEF BootStore, TypeOK, Ranges
    <3>2. flash' \in [Keys -> Nat]
      BY <2>2, <3>1 DEF BootStore, Stored, Steps, TypeOK, Ranges
    <3> QED
      BY <1>1, <2>2, <3>1, <3>2 DEF BootStore, TypeOK, Ranges
  <2>3. CASE Flash2Mem
    BY <1>1, <2>3, KeyTypes DEF Flash2Mem, TypeOK, Ranges
  <2> QED
    BY <2>1, <2>2, <2>3
<1>4. ScriptsOK' /\ CallsOK' /\ Quiet'
  BY <1>1 DEF ScriptsOK, StepOK, CallsOK, Quiet, Idle
<1>5. ASSUME NEW n \in Own \ raced', phase' = "run" PROVE Latest(n)'
  <2>1. mem' = [m \in Loaded |-> flash[ReadKey[m]]] /\ flash' = flash
    BY <1>1, <1>5 DEF Boot, BootStore, Flash2Mem
  <2>2. mem'[n] = flash'[ReadKey[n]] /\ n # "none"
    BY <2>1, OwnFacts
  <2> QED
    BY <1>1, <2>2 DEF Latest, Idle, NoArg
<1> QED
  BY <1>2, <1>3, <1>4, <1>5 DEF TypeOK

\* Every step keeps the invariant.
LEMMA SettingsStep == SettingsInv /\ [Next]_vars => SettingsInv'
<1> SUFFICES ASSUME SettingsInv, [Next]_vars PROVE SettingsInv'
  OBVIOUS
<1>1. CASE UNCHANGED vars
  <2>1. Switches' /\ Ranges'
    BY <1>1 DEF vars, SettingsInv, TypeOK, Switches, Ranges
  <2>2. ScriptsOK' /\ CallsOK' /\ Quiet'
    BY <1>1 DEF vars, SettingsInv, ScriptsOK, StepOK, CallsOK, Quiet, Idle
  <2>3. ASSUME NEW n \in Own, Latest(n) PROVE Latest(n)'
    BY <1>1, <2>3 DEF vars, Latest, Unsaved
  <2> QED
    BY <1>1, <2>1, <2>2, <2>3 DEF vars, SettingsInv, TypeOK
<1>2. ASSUME NEW t \in Threads,
             \/ Begin(t) \/ Assign(t) \/ Check(t) \/ Flash_Set(t)
             \/ Flash_Set_Return(t) \/ Flash_Clear(t)
      PROVE  SettingsInv'
  BY <1>2, StepBegin, StepAssign, StepCheck, StepFlash_Set, StepFlash_Set_Return,
     StepFlash_Clear
<1>3. ASSUME NEW t \in Threads, Reset(t) PROVE SettingsInv'
  <2>1. Halt /\ cut' \in BOOLEAN
    BY <1>3, Zenon DEF Reset
  <2> QED
    BY <2>1, StepHalt
<1>4. CASE PowerLoss
  <2>1. Halt /\ cut' \in BOOLEAN
    BY <1>4, Zenon DEF PowerLoss, SettingsInv, TypeOK, Switches
  <2> QED
    BY <2>1, StepHalt
<1>5. CASE Boot \/ BootStore \/ Flash2Mem
  BY <1>5, StepBoot
<1> QED
  BY <1>1, <1>2, <1>3, <1>4, <1>5 DEF Next

-----------------------------------------------------------------------------
\* The inductive invariant holds for any threads, any settings under change and
\* any values, with power failing anywhere in Flash_Set, Flash_Clear and boot.
THEOREM SettingsInvariant == Spec => []SettingsInv
  BY SettingsInit, SettingsStep, PTL DEF Spec

\* Flash keeps up with RAM: when no thread is between the assignment of a setting
\* and the end of its Flash_Set, a restart reads the value back, for every
\* setting with a key of its own and no two threads racing for it.
THEOREM FlashKeepsUp == Spec => []SavedUnlessRaced
<1>1. SettingsInv => SavedUnlessRaced
  BY DEF SettingsInv, SavedUnlessRaced, Latest
<1> QED
  BY <1>1, SettingsInvariant, PTL

-----------------------------------------------------------------------------
(* The backwash time.                                                       *)

\* Key 14 is the backwash time's and no other setting's; key 0 is no setting's.
LEMMA TimeKey ==
  /\ TimeName \in Loaded /\ ReadKey[TimeName] = 14 /\ WriteKey[TimeName] = 14 /\ 14 \in Keys /\ 0 \in Keys
  /\ \A n \in Loaded : WriteKey[n] # 0 /\ (WriteKey[n] = 14 => n = TimeName)
<1> USE LoadedNames DEF Names, TimeName
<1>1. Key_list[14] = TimeName
  BY DEF Key_list
<1>2. \A k \in 1..24 : Key_list[k] = TimeName => k = 14
  BY SMTT(60) DEF Key_list
<1>3. ASSUME NEW n \in Loaded
      PROVE  ReadKey[n] \in 1..24 /\ Key_list[ReadKey[n]] = n
  <2>1. \E k \in 1..24 : Key_list[k] = n
    BY DEF Loaded
  <2> QED
    BY <2>1 DEF ReadKey
<1>4. ReadKey[TimeName] = 14
  BY <1>1, <1>2, <1>3
<1>5. ASSUME NEW n \in Loaded, ReadKey[n] = 14 PROVE n = TimeName
  BY <1>1, <1>3, <1>5
<1>6. ASSUME NEW n \in Loaded
      PROVE  WriteKey[n] = ReadKey[n] \/ WriteKey[n] \in 19..26
  BY DEF WriteKey
<1>7. ASSUME NEW n \in Loaded
      PROVE  WriteKey[n] # 0 /\ (WriteKey[n] = 14 => n = TimeName)
  BY <1>3, <1>5, <1>6
<1>8. WriteKey[TimeName] = ReadKey[TimeName]
  BY DEF WriteKey
<1> QED
  BY <1>4, <1>7, <1>8 DEF Keys

\* No step writes the mark of the first boot, none writes a backwash time of 0, and
\* a setter that is about to pass the variable has assigned it.
TimeStep(s, ram) ==
  /\ s.key # 0
  /\ s.key = 14 => s.val # 0
  /\ s.name = TimeName /\ s.how = "load" => ram # 0

TimeSteps ==
  \A t \in Threads : \A i \in 1..Len(todo[t]) : TimeStep(todo[t][i], mem[TimeName])

TimeCalls ==
  \A t \in Threads : arg[t] # NoArg =>
    arg[t].key # 0 /\ (arg[t].key = 14 => arg[t].val # 0)

HasTime(q) == \E i \in 1..Len(q) : q[i].key = 14

\* A factory reset that is over has stored the default of the backwash time.
TimeClears ==
  \A t \in clearing : flash[14] # 0 \/ HasTime(todo[t]) \/ arg[t].key = 14

Mark == Step("none", 0, 1, "store")

\* What Flash_Init still has to store once it has marked the boot.
Rest(q) == \A i \in 1..Len(q) : q[i].key # 0 /\ (q[i].key = 14 => q[i].val # 0)

\* The mark says that the backwash time was stored, unless power failed in between.
Marked ==
  /\ flash[0] \in {0, 1}
  /\ phase = "run" => flash[0] = 1
  /\ phase = "boot" =>
       \/ bootTodo = <<Mark>> \o Set_Default
       \/ flash[0] = 1 /\ Rest(bootTodo) /\ (flash[14] # 0 \/ cut \/ HasTime(bootTodo))
  /\ phase # "boot" /\ flash[0] = 1 => cut \/ flash[14] # 0

TimeInv == TimeSteps /\ TimeCalls /\ TimeClears /\ Marked /\ Configured

\* The cloud is not asked to set the backwash time to 0.
TimeNotZero == TimeName \in Tested => 0 \notin Values

\* The steps that operations begin with.
LEMMA GoodTimeStep ==
  ASSUME NEW s, GoodStep(s), s.name # TimeName \/ 0 \notin Values PROVE TimeStep(s, mem[TimeName])
  BY TimeKey DEF GoodStep, TimeStep

\* The defaults: the backwash time is one of them and it is not 0.
LEMMA DefaultTime ==
  /\ Set_Default \in Seq(Steps) /\ Len(Set_Default) = 13
  /\ HasTime(Set_Default) /\ Rest(Set_Default)
  /\ \A i \in 1..13 : Set_Default[i] = Store_Default(i) /\ TimeStep(Set_Default[i], mem[TimeName])
<1>1. Set_Default \in Seq(Steps)
  BY DefaultSteps
<1>2. Len(Set_Default) = 13 /\ \A i \in 1..13 : Set_Default[i] = Store_Default(i)
  BY DEF Set_Default
<1>3. \A i \in 1..13 : /\ DefaultKeys[i] # 0
                       /\ DefaultKeys[i] = 14 => DefaultValues[i] # 0
  BY DEF DefaultKeys, DefaultValues
<1>4. DefaultKeys[6] = 14
  BY DEF DefaultKeys
<1>5. \A i \in 1..13 : /\ Store_Default(i).key = DefaultKeys[i]
                       /\ Store_Default(i).val = DefaultValues[i]
                       /\ Store_Default(i).name = "none"
  BY DEF Store_Default, Step
<1>6. HasTime(Set_Default)
  BY <1>2, <1>4, <1>5 DEF HasTime
<1>7. "none" # TimeName
  BY DEF TimeName
<1> QED
  BY <1>1, <1>2, <1>3, <1>5, <1>6, <1>7 DEF Rest, TimeStep

\* A step put before a script is its head, and the script its tail.
LEMMA PutBefore ==
  ASSUME NEW m \in Steps, NEW d \in Seq(Steps)
  PROVE  <<m>> \o d # <<>> /\ Head(<<m>> \o d) = m /\ Tail(<<m>> \o d) = d
<1> DEFINE q == <<m>> \o d
<1>1. /\ q \in Seq(Steps) /\ Len(q) = Len(d) + 1 /\ Len(d) \in Nat /\ q[1] = m
      /\ \A i \in 1..Len(d) : q[i + 1] = d[i]
  OBVIOUS
<1> HIDE DEF q
<1>2. q # <<>> /\ Head(q) = m
  BY <1>1
<1>3. /\ Tail(q) \in Seq(Steps) /\ Len(Tail(q)) = Len(d)
      /\ \A i \in 1..Len(d) : Tail(q)[i] = d[i]
  BY <1>1, <1>2, HeadTail
<1>4. Tail(q) = d
  BY <1>3, SeqEqual
<1> QED
  BY <1>2, <1>4 DEF q

\* The first boot marks itself and stores the defaults.
LEMMA FirstBoot ==
  /\ <<Mark>> \o Set_Default # <<>>
  /\ Head(<<Mark>> \o Set_Default) = Mark /\ Tail(<<Mark>> \o Set_Default) = Set_Default
<1>1. Mark \in Steps
  BY DEF Mark, Step, Steps
<1> QED
  BY <1>1, DefaultTime, PutBefore

\* What is left of a script is of its steps and of those put before.
LEMMA DropParts ==
  ASSUME NEW old \in Seq(Steps), old # <<>>, NEW p \in Seq(Steps),
         NEW i \in 1..Len(p \o Tail(old))
  PROVE  \/ i \in 1..Len(p) /\ (p \o Tail(old))[i] = p[i]
         \/ \E j \in 1..Len(old) : (p \o Tail(old))[i] = old[j]
<1> DEFINE q == Tail(old)
<1>1. q \in Seq(Steps) /\ \A j \in 1..Len(q) : j + 1 \in 1..Len(old) /\ q[j] = old[j + 1]
  BY HeadTail
<1> HIDE DEF q
<1>2. /\ Len(p \o q) = Len(p) + Len(q) /\ Len(p) \in Nat /\ Len(q) \in Nat
      /\ \A j \in 1..(Len(p) + Len(q)) :
           (p \o q)[j] = IF j <= Len(p) THEN p[j] ELSE q[j - Len(p)]
  BY <1>1
<1>3. i \in 1..(Len(p) + Len(q))
  BY <1>2 DEF q
<1>4. CASE i <= Len(p)
  BY <1>2, <1>3, <1>4 DEF q
<1>5. CASE i > Len(p)
  <2>1. i - Len(p) \in 1..Len(q) /\ (p \o q)[i] = q[i - Len(p)]
    BY <1>2, <1>3, <1>5
  <2> QED
    BY <1>1, <2>1 DEF q
<1> QED
  BY <1>2, <1>3, <1>4, <1>5

-----------------------------------------------------------------------------
(* What a step of a script does to the scripts.                             *)

\* An assignment changes one setting and keeps the steps, but for the first.
LEMMA AssignParts ==
  ASSUME SettingsInv, NEW t \in Threads, Assign(t)
  PROVE  LET s == Head(todo[t])
         IN  /\ s = todo[t][1] /\ 1 \in 1..Len(todo[t]) /\ s \in Steps /\ s.how # "store"
             /\ \E v, how :
                  /\ mem' = [mem EXCEPT ![s.name] = v]
                  /\ s.name \in Loaded /\ s.key = WriteKey[s.name]
                  /\ s.name = TimeName => v = s.val
                  /\ \A u \in Threads \ {t} : todo'[u] = todo[u]
                  /\ \A i \in 1..Len(todo'[t]) :
                       \/ \E j \in 1..Len(todo[t]) : todo'[t][i] = todo[t][j]
                       \/ todo'[t][i] = [s EXCEPT !.val = v, !.how = how]
<1> USE DEF SettingsInv
<1> DEFINE s == Head(todo[t])
<1>1. todo[t] # <<>> /\ todo[t] \in Seq(Steps)
  BY DEF Assign, TypeOK, Ranges
<1>2. /\ s = todo[t][1] /\ s \in Steps /\ 1 \in 1..Len(todo[t])
      /\ Tail(todo[t]) \in Seq(Steps)
      /\ \A i \in 1..Len(Tail(todo[t])) :
           i + 1 \in 1..Len(todo[t]) /\ Tail(todo[t])[i] = todo[t][i + 1]
  BY <1>1, HeadTail
<1>3. PICK v, how : /\ Put(t, v, how) /\ s.how \notin {"load", "store"}
                    /\ v = s.val \/ s.how = "inc"
  BY DEF Assign
<1>4. StepOK(t, 1)
  BY <1>2 DEF ScriptsOK
<1>5. /\ s.name \in Loaded /\ s.key = WriteKey[s.name]
      /\ s.name = TimeName => v = s.val
  BY <1>2, <1>3, <1>4 DEF StepOK, Steps, TimeName
<1>6. mem' = [mem EXCEPT ![s.name] = v]
  BY <1>3 DEF Put
<1> DEFINE e == [s EXCEPT !.val = v, !.how = how]
<1>7. \/ todo' = [todo EXCEPT ![t] = Tail(@)]
      \/ todo' = [todo EXCEPT ![t] = [@ EXCEPT ![1] = e]]
  BY <1>3 DEF Put
<1> HIDE DEF s, e
<1>8. \A u \in Threads \ {t} : todo'[u] = todo[u]
  BY <1>7 DEF TypeOK, Ranges
<1>9. ASSUME NEW i \in 1..Len(todo'[t])
      PROVE  \/ \E j \in 1..Len(todo[t]) : todo'[t][i] = todo[t][j]
             \/ todo'[t][i] = e
  <2>1. CASE todo' = [todo EXCEPT ![t] = Tail(@)]
    <3>1. todo'[t] = Tail(todo[t])
      BY <2>1 DEF TypeOK, Ranges
    <3> QED
      BY <1>2, <3>1
  <2>2. CASE todo' = [todo EXCEPT ![t] = [@ EXCEPT ![1] = e]]
    <3>1. todo'[t] = [todo[t] EXCEPT ![1] = e]
      BY <2>2 DEF TypeOK, Ranges
    <3>2. Len(todo'[t]) = Len(todo[t])
          /\ \A j \in 1..Len(todo[t]) : todo'[t][j] = IF j = 1 THEN e ELSE todo[t][j]
      <4>1. DOMAIN todo[t] = 1..Len(todo[t]) /\ Len(todo[t]) \in Nat
        BY <1>1
      <4>2. DOMAIN todo'[t] = 1..Len(todo[t])
        BY <3>1, <4>1
      <4> QED
        BY <3>1, <4>1, <4>2
    <3> QED
      BY <3>2
  <2> QED
    BY <1>7, <2>1, <2>2
<1> QED
  <2>1. s = todo[t][1] /\ 1 \in 1..Len(todo[t]) /\ s \in Steps /\ s.how # "store"
    BY <1>2, <1>3
  <2>2. \E w, h :
          /\ mem' = [mem EXCEPT ![s.name] = w]
          /\ s.name \in Loaded /\ s.key = WriteKey[s.name]
          /\ s.name = TimeName => w = s.val
          /\ \A u \in Threads \ {t} : todo'[u] = todo[u]
          /\ \A i \in 1..Len(todo'[t]) :
               \/ \E j \in 1..Len(todo[t]) : todo'[t][i] = todo[t][j]
               \/ todo'[t][i] = [s EXCEPT !.val = w, !.how = h]
    <3> WITNESS v, how
    <3> QED
      BY <1>5, <1>6, <1>8, <1>9, Zenon DEF e
  <2> QED
    BY <2>1, <2>2, Zenon DEF s

\* A condition leaves good steps and steps that were there, and the backwash time
\* is none of the good ones.
LEMMA CheckParts ==
  ASSUME SettingsInv, NEW t \in Threads, Check(t)
  PROVE  /\ Head(todo[t]) = todo[t][1] /\ 1 \in 1..Len(todo[t])
         /\ Head(todo[t]).how # "store"
         /\ \A u \in Threads \ {t} : todo'[u] = todo[u]
         /\ \A i \in 1..Len(todo'[t]) :
              \/ \E j \in 1..Len(todo[t]) : todo'[t][i] = todo[t][j]
              \/ GoodStep(todo'[t][i]) /\ todo'[t][i].name # TimeName
<1> USE DEF SettingsInv
<1> DEFINE s == Head(todo[t])
<1>1. todo[t] # <<>> /\ todo[t] \in Seq(Steps)
  BY DEF Check, TypeOK, Ranges
<1>2. s = todo[t][1] /\ s \in Steps /\ 1 \in 1..Len(todo[t]) /\ StepOK(t, 1)
  BY <1>1, HeadTail DEF ScriptsOK
<1>3. /\ s.how \in {"new", "range"}
      /\ \/ todo' = [todo EXCEPT ![t] = Tail(@)]
         \/ s.how = "range" /\ todo' = [todo EXCEPT ![t] = Shorten(s.name) \o Tail(@)]
         \/ todo' = [todo EXCEPT ![t] = <<>> \o Tail(@)]
  BY DEF Check
<1>4. s.how = "range" => s.name \in Loaded /\ s.name # TimeName
  BY <1>2 DEF StepOK, Steps, TimeName
<1>5. ASSUME NEW n \in Loaded, n # TimeName
      PROVE  /\ Shorten(n) \in Seq(Steps)
             /\ \A i \in 1..Len(Shorten(n)) :
                  GoodStep(Shorten(n)[i]) /\ Shorten(n)[i].name # TimeName
  <2> USE LoadedNames DEF Names, TimeName
  <2>1. "RTC_Reminder_Time" \notin Saved /\ "RTC_Automatic_Time" \notin Saved
    BY DEF Saved
  <2>2. /\ GoodStep(FromRam(n, 8)) /\ GoodStep(FromRam("Automatic_Day", 5))
        /\ GoodStep(FromRam("Reminder_Day", 5))
        /\ GoodStep(RamOnly("RTC_Automatic_Time", 0))
        /\ GoodStep(RamOnly("RTC_Reminder_Time", 0))
    BY <1>5, <2>1, StepKinds
  <2>3. GoodScript(Shorten(n))
    BY <2>2, Tuples DEF Shorten
  <2>4. /\ FromRam(n, 8).name # TimeName /\ FromRam("Automatic_Day", 5).name # TimeName
        /\ FromRam("Reminder_Day", 5).name # TimeName
        /\ RamOnly("RTC_Automatic_Time", 0).name # TimeName
        /\ RamOnly("RTC_Reminder_Time", 0).name # TimeName
    BY <1>5 DEF FromRam, RamOnly, Step
  <2>5. \A i \in 1..Len(Shorten(n)) : Shorten(n)[i].name # TimeName
    BY <2>4 DEF Shorten
  <2> QED
    BY <2>3, <2>5 DEF GoodScript
<1>6. PICK p \in Seq(Steps) :
        /\ todo' = [todo EXCEPT ![t] = p \o Tail(@)]
        /\ \A i \in 1..Len(p) : GoodStep(p[i]) /\ p[i].name # TimeName
  <2>1. /\ Tail(todo[t]) = <<>> \o Tail(todo[t])
        /\ <<>> \in Seq(Steps) /\ \A i \in 1..Len(<<>>) : FALSE
    BY <1>1, HeadTail, ConcatEmptySeq
  <2>2. CASE \/ todo' = [todo EXCEPT ![t] = Tail(@)]
             \/ todo' = [todo EXCEPT ![t] = <<>> \o Tail(@)]
    BY <2>1, <2>2
  <2>3. CASE s.how = "range" /\ todo' = [todo EXCEPT ![t] = Shorten(s.name) \o Tail(@)]
    BY <1>4, <1>5, <2>3
  <2> QED
    BY <1>3, <2>2, <2>3
<1> HIDE DEF s
<1>7. todo'[t] = p \o Tail(todo[t]) /\ \A u \in Threads \ {t} : todo'[u] = todo[u]
  BY <1>6 DEF TypeOK, Ranges
<1>8. ASSUME NEW i \in 1..Len(todo'[t])
      PROVE  \/ \E j \in 1..Len(todo[t]) : todo'[t][i] = todo[t][j]
             \/ GoodStep(todo'[t][i]) /\ todo'[t][i].name # TimeName
  BY <1>1, <1>6, <1>7, DropParts
<1> QED
  BY <1>2, <1>3, <1>7, <1>8 DEF s

\* The operations begin with good steps, of settings under change.
LEMMA BeginParts ==
  ASSUME SettingsInv, NEW t \in Threads, Begin(t)
  PROVE  /\ t \notin clearing
         /\ \A u \in Threads \ {t} : todo'[u] = todo[u]
         /\ \A i \in 1..Len(todo'[t]) : GoodStep(todo'[t][i]) /\ todo'[t][i].name \in Tested
<1>1. PICK s \in Scripts(t) : /\ todo' = [todo EXCEPT ![t] = s]
                              /\ \A i \in 1..Len(s) : s[i].name \in Tested
  BY DEF Begin
<1>2. GoodScript(s)
  BY ScriptsGood
<1>3. todo'[t] = s /\ \A u \in Threads \ {t} : todo'[u] = todo[u]
  BY <1>1 DEF SettingsInv, TypeOK, Ranges
<1> QED
  BY <1>1, <1>2, <1>3 DEF Begin, GoodScript

\* Flash_Set takes the first step of the script.
LEMMA SetParts ==
  ASSUME SettingsInv, NEW t \in Threads, Flash_Set(t)
  PROVE  LET s == Head(todo[t])
         IN  /\ s = todo[t][1] /\ 1 \in 1..Len(todo[t]) /\ s \in Steps
             /\ s.how \in {"load", "store"} /\ arg[t] = NoArg
             /\ arg'[t] = [name |-> s.name, key |-> s.key,
                           val |-> IF s.how = "load" THEN mem[s.name] ELSE s.val]
             /\ \A u \in Threads \ {t} : todo'[u] = todo[u] /\ arg'[u] = arg[u]
             /\ Len(todo'[t]) = Len(todo[t]) - 1 /\ Len(todo[t]) \in Nat
             /\ \A i \in 1..Len(todo'[t]) :
                  i + 1 \in 1..Len(todo[t]) /\ todo'[t][i] = todo[t][i + 1]
<1> USE DEF SettingsInv
<1>1. todo[t] # <<>> /\ todo[t] \in Seq(Steps)
  BY DEF Flash_Set, TypeOK, Ranges
<1>2. todo'[t] = Tail(todo[t]) /\ \A u \in Threads \ {t} : todo'[u] = todo[u] /\ arg'[u] = arg[u]
  BY DEF Flash_Set, TypeOK, Ranges
<1>3. LET s == Head(todo[t])
      IN  /\ s.how \in {"load", "store"} /\ arg[t] = NoArg
          /\ arg'[t] = [name |-> s.name, key |-> s.key,
                        val |-> IF s.how = "load" THEN mem[s.name] ELSE s.val]
  BY DEF Flash_Set, TypeOK, Ranges
<1> QED
  BY <1>1, <1>2, <1>3, HeadTail

-----------------------------------------------------------------------------
(* Factory reset.                                                           *)

DefaultCall(i) == [name |-> "none", key |-> DefaultKeys[i], val |-> DefaultValues[i]]

\* A thread inside Flash_Clear only writes defaults.
ClearsDefaults ==
  \A t \in clearing :
    /\ \A j \in 1..Len(todo[t]) : \E i \in 1..13 : todo[t][j] = Store_Default(i)
    /\ arg[t] = NoArg \/ \E i \in 1..13 : arg[t] = DefaultCall(i)

\* The thread has still to write the i-th default.
Pending(t, i) ==
  \/ \E j \in 1..Len(todo[t]) : todo[t][j] = Store_Default(i)
  \/ arg[t] = DefaultCall(i)

\* A default is in flash or about to be written.
DefaultsComing ==
  ~disturbed => \A t \in clearing, i \in 1..13 :
                  flash[DefaultKeys[i]] = DefaultValues[i] \/ Pending(t, i)

ClearInv == ClearsDefaults /\ DefaultsComing

\* The defaults have different keys, and each step of Set_Default writes one.
LEMMA DefaultFacts ==
  /\ \A i \in 1..13 : DefaultKeys[i] \in Keys /\ DefaultValues[i] \in Nat
  /\ \A i, j \in 1..13 : DefaultKeys[i] = DefaultKeys[j] => i = j
  /\ \A i \in 1..13 : /\ Store_Default(i).name = "none" /\ Store_Default(i).how = "store"
                      /\ Store_Default(i).key = DefaultKeys[i]
                      /\ Store_Default(i).val = DefaultValues[i]
                      /\ DefaultCall(i) # NoArg
<1>1. \A i \in 1..13 : DefaultKeys[i] \in Keys /\ DefaultValues[i] \in Nat /\ DefaultKeys[i] # 0
  BY DEF DefaultKeys, DefaultValues, Keys
<1>2. \A i, j \in 1..13 : DefaultKeys[i] = DefaultKeys[j] => i = j
  BY SMTT(60) DEF DefaultKeys
<1> QED
  BY <1>1, <1>2 DEF Store_Default, Step, DefaultCall, NoArg

\* A step of a thread outside of Flash_Clear that writes nothing.
LEMMA ClearOutside ==
  ASSUME ClearInv, NEW t \in Threads \ clearing, clearing \subseteq Threads,
         \A u \in Threads \ {t} : todo'[u] = todo[u] /\ arg'[u] = arg[u],
         UNCHANGED <<flash, clearing, disturbed>>
  PROVE  ClearInv'
<1>1. \A u \in clearing : todo'[u] = todo[u] /\ arg'[u] = arg[u]
  OBVIOUS
<1>2. ClearsDefaults'
  BY <1>1 DEF ClearInv, ClearsDefaults
<1>3. DefaultsComing'
  <2>1. \A u \in clearing, i \in 1..13 : Pending(u, i) => Pending(u, i)'
    BY <1>1 DEF Pending
  <2> QED
    BY <2>1 DEF ClearInv, DefaultsComing
<1> QED
  BY <1>2, <1>3 DEF ClearInv

\* An operation begins, assigns or looks at a setting: no thread in Flash_Clear does.
LEMMA ClearScripts ==
  ASSUME SettingsInv, ClearInv, NEW t \in Threads, Begin(t) \/ Assign(t) \/ Check(t)
  PROVE  ClearInv'
<1>1. clearing \subseteq Threads
  BY DEF SettingsInv, TypeOK, Ranges
<1>2. UNCHANGED <<flash, arg, clearing, disturbed>>
  BY DEF Begin, Assign, Check, hist
<1>3. t \notin clearing /\ \A u \in Threads \ {t} : todo'[u] = todo[u]
  <2>1. CASE Begin(t)
    BY <2>1, BeginParts
  <2>2. CASE Assign(t) \/ Check(t)
    <3>1. /\ todo[t][1].how # "store" /\ 1 \in 1..Len(todo[t])
          /\ \A u \in Threads \ {t} : todo'[u] = todo[u]
      BY <2>2, AssignParts, CheckParts
    <3>2. t \in clearing => \E i \in 1..13 : todo[t][1] = Store_Default(i)
      BY <3>1 DEF ClearInv, ClearsDefaults
    <3> QED
      BY <3>1, <3>2, DefaultFacts
  <2> QED
    BY <2>1, <2>2
<1> QED
  BY <1>1, <1>2, <1>3, ClearOutside

\* A default passes from the script to the call.
LEMMA ClearSet ==
  ASSUME SettingsInv, ClearInv, NEW t \in Threads, Flash_Set(t)
  PROVE  ClearInv'
<1>1. clearing \subseteq Threads /\ UNCHANGED <<flash, clearing, disturbed>>
  BY DEF SettingsInv, TypeOK, Ranges, Flash_Set, hist
<1>2. \A u \in Threads \ {t} : todo'[u] = todo[u] /\ arg'[u] = arg[u]
  BY SetParts
<1>3. CASE t \notin clearing
  BY <1>1, <1>2, <1>3, ClearOutside
<1>4. CASE t \in clearing
  <2>1. PICK k \in 1..13 : Head(todo[t]) = Store_Default(k) /\ todo[t][1] = Head(todo[t])
    BY <1>4, SetParts DEF ClearInv, ClearsDefaults
  <2>2. Store_Default(k).how = "store" /\ Store_Default(k).name = "none"
        /\ Store_Default(k).key = DefaultKeys[k] /\ Store_Default(k).val = DefaultValues[k]
    BY DefaultFacts
  <2>3. arg'[t] = DefaultCall(k)
    <3>1. arg'[t] = [name |-> Store_Default(k).name, key |-> Store_Default(k).key,
                     val |-> IF Store_Default(k).how = "load"
                             THEN mem[Store_Default(k).name] ELSE Store_Default(k).val]
      BY <2>1, SetParts
    <3>2. \* the value is the default's
          arg'[t] = [name |-> "none", key |-> DefaultKeys[k], val |-> DefaultValues[k]]
      BY <2>2, <3>1
    <3> QED
      BY <3>2 DEF DefaultCall
  <2>4. /\ arg[t] = NoArg /\ Len(todo[t]) \in Nat /\ Len(todo'[t]) = Len(todo[t]) - 1
        /\ \A j \in 1..Len(todo'[t]) : j + 1 \in 1..Len(todo[t]) /\ todo'[t][j] = todo[t][j + 1]
    BY SetParts
  <2>5. ClearsDefaults'
    <3>1. \A j \in 1..Len(todo'[t]) : \E i \in 1..13 : todo'[t][j] = Store_Default(i)
      BY <1>4, <2>4 DEF ClearInv, ClearsDefaults
    <3>2. ASSUME NEW u \in clearing, u # t
          PROVE  /\ \A j \in 1..Len(todo'[u]) : \E i \in 1..13 : todo'[u][j] = Store_Default(i)
                 /\ arg'[u] = NoArg \/ \E i \in 1..13 : arg'[u] = DefaultCall(i)
      <4>1. todo'[u] = todo[u] /\ arg'[u] = arg[u]
        BY <1>1, <1>2, <3>2
      <4> QED
        BY <4>1 DEF ClearInv, ClearsDefaults
    <3> QED
      BY <1>1, <2>3, <3>1, <3>2 DEF ClearsDefaults
  <2>6. ASSUME NEW i \in 1..13, Pending(t, i) PROVE Pending(t, i)'
    <3>1. PICK j \in 1..Len(todo[t]) : todo[t][j] = Store_Default(i)
      BY <2>4, <2>6, DefaultFacts DEF Pending
    <3>2. CASE j = 1
      <4>1. DefaultKeys[i] = DefaultKeys[k]
        BY <2>1, <2>2, <3>1, <3>2, DefaultFacts
      <4>2. i = k
        BY <4>1, DefaultFacts
      <4> QED
        BY <2>3, <4>2 DEF Pending
    <3>3. CASE j # 1
      <4>1. j - 1 \in 1..Len(todo'[t]) /\ todo'[t][j - 1] = Store_Default(i)
        <5>1. j - 1 \in 1..Len(todo'[t]) /\ j - 1 + 1 = j
          BY <2>4, <3>3
        <5> QED
          BY <2>4, <3>1, <5>1
      <4> QED
        BY <4>1 DEF Pending
    <3> QED
      BY <3>2, <3>3
  <2>7. DefaultsComing'
    <3>1. \A u \in clearing, i \in 1..13 : Pending(u, i) => Pending(u, i)'
      BY <1>1, <1>2, <2>6 DEF Pending
    <3> QED
      BY <1>1, <3>1 DEF ClearInv, DefaultsComing
  <2> QED
    BY <2>5, <2>7 DEF ClearInv
<1> QED
  BY <1>3, <1>4

\* A default is written, or another thread disturbs the reset.
LEMMA ClearReturn ==
  ASSUME SettingsInv, ClearInv, NEW t \in Threads, Flash_Set_Return(t)
  PROVE  ClearInv'
<1>1. /\ clearing \subseteq Threads /\ UNCHANGED <<todo, clearing>>
      /\ flash' = Stored(arg[t].key, arg[t].val) /\ arg[t] # NoArg
      /\ arg'[t] = NoArg /\ \A u \in Threads \ {t} : arg'[u] = arg[u]
      /\ flash \in [Keys -> Nat]
  BY DEF SettingsInv, TypeOK, Ranges, Flash_Set_Return
<1>2. ~disturbed' => ~disturbed /\ (clearing = {} \/ t \in clearing)
  BY DEF Flash_Set_Return, SettingsInv, TypeOK, Switches
<1>3. ClearsDefaults'
  BY <1>1 DEF ClearInv, ClearsDefaults
<1>4. ASSUME ~disturbed', NEW u \in clearing, NEW i \in 1..13
      PROVE  flash'[DefaultKeys[i]] = DefaultValues[i] \/ Pending(u, i)'
  <2>1. t \in clearing /\ ~disturbed
    BY <1>2, <1>4
  <2>2. PICK k \in 1..13 : arg[t] = DefaultCall(k)
    BY <1>1, <2>1 DEF ClearInv, ClearsDefaults
  <2>3. flash' = [j \in Keys |-> IF j = DefaultKeys[k] THEN DefaultValues[k] ELSE flash[j]]
    BY <1>1, <2>2 DEF Stored, DefaultCall
  <2>4. flash[DefaultKeys[i]] = DefaultValues[i] => flash'[DefaultKeys[i]] = DefaultValues[i]
    BY <2>3, DefaultFacts
  <2>5. CASE i = k
    BY <2>3, <2>5, DefaultFacts
  <2>6. CASE i # k
    <3>1. DefaultCall(i) # DefaultCall(k)
      BY <2>6, DefaultFacts DEF DefaultCall
    <3>2. Pending(u, i) => Pending(u, i)'
      <4>1. CASE u = t
        BY <1>1, <2>2, <3>1, <4>1 DEF Pending
      <4>2. CASE u # t
        BY <1>1, <4>2 DEF Pending
      <4> QED
        BY <4>1, <4>2
    <3> QED
      BY <2>1, <2>4, <3>2 DEF ClearInv, DefaultsComing
  <2> QED
    BY <2>5, <2>6
<1>5. DefaultsComing'
  BY <1>1, <1>4 DEF DefaultsComing
<1> QED
  BY <1>3, <1>5 DEF ClearInv

\* The reset begins with every default to write.
LEMMA ClearBegins ==
  ASSUME SettingsInv, ClearInv, NEW t \in Threads, Flash_Clear(t)
  PROVE  ClearInv'
<1>1. /\ clearing \subseteq Threads /\ clearing' = clearing \cup {t} /\ t \notin clearing
      /\ UNCHANGED <<flash, arg, disturbed>> /\ arg[t] = NoArg
      /\ todo'[t] = Set_Default /\ \A u \in Threads \ {t} : todo'[u] = todo[u]
  BY DEF SettingsInv, TypeOK, Ranges, Flash_Clear, Idle, hist
<1>2. Len(Set_Default) = 13 /\ \A i \in 1..13 : Set_Default[i] = Store_Default(i)
  BY DEF Set_Default
<1>3. ClearsDefaults'
  BY <1>1, <1>2 DEF ClearInv, ClearsDefaults
<1>4. \A i \in 1..13 : Pending(t, i)'
  BY <1>1, <1>2 DEF Pending
<1>5. \A u \in clearing, i \in 1..13 : Pending(u, i) => Pending(u, i)'
  BY <1>1 DEF Pending
<1>6. DefaultsComing'
  BY <1>1, <1>4, <1>5 DEF ClearInv, DefaultsComing
<1> QED
  BY <1>3, <1>6 DEF ClearInv

\* Every step keeps the defaults in flash or on their way.
LEMMA ClearStep ==
  ASSUME SettingsInv, ClearInv, [Next]_vars PROVE ClearInv'
<1>1. ASSUME NEW t \in Threads,
             \/ Begin(t) \/ Assign(t) \/ Check(t) \/ Flash_Set(t)
             \/ Flash_Set_Return(t) \/ Flash_Clear(t)
      PROVE  ClearInv'
  BY <1>1, ClearScripts, ClearSet, ClearReturn, ClearBegins
<1>2. CASE clearing' = {}
  BY <1>2 DEF ClearInv, ClearsDefaults, DefaultsComing
<1>3. ASSUME NEW t \in Threads, Reset(t) PROVE clearing' = {}
  BY <1>3 DEF Reset, Halt
<1>4. CASE PowerLoss \/ Boot \/ BootStore \/ Flash2Mem
  <2>1. clearing' = {}
    BY <1>4 DEF PowerLoss, Halt, Boot, BootStore, Flash2Mem, SettingsInv, Quiet
  <2> QED
    BY <1>2, <2>1
<1>5. CASE UNCHANGED vars
  BY <1>5 DEF vars, ClearInv, ClearsDefaults, DefaultsComing, Pending
<1> QED
  BY <1>1, <1>2, <1>3, <1>4, <1>5 DEF Next

\* When Flash_Clear is about to reset the device, flash holds every default, whatever
\* was there before and however many threads reset, unless a thread that does not
\* reset wrote meanwhile.
THEOREM ClearRestoresDefaults == Spec => []ClearRestores
<1>1. Init => ClearInv
  BY DEF Init, ClearInv, ClearsDefaults, DefaultsComing
<1>2. SettingsInv /\ ClearInv /\ [Next]_vars => ClearInv'
  BY ClearStep
<1>3. ClearInv => ClearRestores
  <2> SUFFICES ASSUME ClearInv, NEW t \in clearing, Idle(t), ~disturbed, NEW i \in 1..13
               PROVE  flash[DefaultKeys[i]] = DefaultValues[i]
    BY DEF ClearRestores
  <2>1. ~Pending(t, i)
    <3>1. Len(todo[t]) = 0 /\ arg[t] = NoArg
      BY DEF Idle
    <3>2. DefaultCall(i) # NoArg
      BY DefaultFacts
    <3> QED
      BY <3>1, <3>2 DEF Pending
  <2> QED
    BY <2>1 DEF ClearInv, DefaultsComing
<1> QED
  BY <1>1, <1>2, <1>3, SettingsInvariant, PTL DEF Spec

-----------------------------------------------------------------------------
(* The steps keep a backwash time.                                          *)

\* Steps of a thread outside of Flash_Clear that change its script only.
LEMMA TimeOutside ==
  ASSUME SettingsInv, TimeInv, NEW t \in Threads \ clearing,
         \A u \in Threads \ {t} : todo'[u] = todo[u],
         \A i \in 1..Len(todo'[t]) : TimeStep(todo'[t][i], mem'[TimeName]),
         mem'[TimeName] = mem[TimeName] \/ mem'[TimeName] # 0,
         UNCHANGED <<phase, flash, bootTodo, arg, clearing, cut>>
  PROVE  TimeInv'
<1> USE DEF TimeInv
<1>1. TimeSteps'
  <2> SUFFICES ASSUME NEW u \in Threads, NEW i \in 1..Len(todo'[u])
               PROVE  TimeStep(todo'[u][i], mem'[TimeName])
    BY DEF TimeSteps
  <2>1. CASE u = t
    BY <2>1
  <2>2. CASE u # t
    <3>1. todo'[u] = todo[u] /\ TimeStep(todo[u][i], mem[TimeName])
      BY <2>2 DEF TimeSteps
    <3> QED
      BY <3>1 DEF TimeStep
  <2> QED
    BY <2>1, <2>2
<1>2. TimeCalls' /\ Marked'
  BY DEF TimeCalls, Marked
<1>3. TimeClears'
  <2>1. \A u \in clearing : todo'[u] = todo[u]
    BY DEF SettingsInv, TypeOK, Ranges
  <2> QED
    BY <2>1 DEF TimeClears
<1>4. Configured'
  BY DEF Configured, TimeName
<1> QED
  BY <1>1, <1>2, <1>3, <1>4

\* An operation begins, assigns or looks at a setting.
LEMMA TimeScripts ==
  ASSUME TimeNotZero, SettingsInv, ClearInv, TimeInv, NEW t \in Threads,
         Begin(t) \/ Assign(t) \/ Check(t)
  PROVE  TimeInv'
<1>1. CASE Begin(t)
  <2>1. /\ t \notin clearing /\ \A u \in Threads \ {t} : todo'[u] = todo[u]
        /\ UNCHANGED <<phase, flash, mem, bootTodo, arg, clearing, cut>>
    BY <1>1, BeginParts DEF Begin, hist
  <2>2. ASSUME NEW i \in 1..Len(todo'[t]) PROVE TimeStep(todo'[t][i], mem'[TimeName])
    <3>1. GoodStep(todo'[t][i]) /\ todo'[t][i].name \in Tested
      BY <1>1, BeginParts
    <3>2. TimeStep(todo'[t][i], mem[TimeName])
      BY <3>1, GoodTimeStep DEF TimeNotZero
    <3> QED
      BY <2>1, <3>2 DEF TimeStep
  <2> QED
    BY <2>1, <2>2, TimeOutside
<1>2. CASE Check(t)
  <2>1. /\ \A u \in Threads \ {t} : todo'[u] = todo[u]
        /\ UNCHANGED <<phase, flash, mem, bootTodo, arg, clearing, cut>>
        /\ todo[t][1].how # "store" /\ 1 \in 1..Len(todo[t])
    BY <1>2, CheckParts DEF Check, hist
  <2>2. t \notin clearing
    <3>1. t \in clearing => \E i \in 1..13 : todo[t][1] = Store_Default(i)
      BY <2>1 DEF ClearInv, ClearsDefaults
    <3> QED
      BY <2>1, <3>1, DefaultFacts
  <2>3. ASSUME NEW i \in 1..Len(todo'[t]) PROVE TimeStep(todo'[t][i], mem'[TimeName])
    <3>1. \/ \E j \in 1..Len(todo[t]) : todo'[t][i] = todo[t][j]
          \/ GoodStep(todo'[t][i]) /\ todo'[t][i].name # TimeName
      BY <1>2, CheckParts
    <3>2. TimeStep(todo'[t][i], mem[TimeName])
      BY <3>1, GoodTimeStep DEF TimeInv, TimeSteps
    <3> QED
      BY <2>1, <3>2 DEF TimeStep
  <2> QED
    BY <2>1, <2>2, <2>3, TimeOutside
<1>3. CASE Assign(t)
  <2> DEFINE s == Head(todo[t])
  <2>1. /\ UNCHANGED <<phase, flash, bootTodo, arg, clearing, cut>>
        /\ s = todo[t][1] /\ s.how # "store" /\ 1 \in 1..Len(todo[t]) /\ s \in Steps
    BY <1>3, AssignParts DEF Assign
  <2>2. PICK v, how :
          /\ mem' = [mem EXCEPT ![s.name] = v]
          /\ s.name \in Loaded /\ s.key = WriteKey[s.name]
          /\ s.name = TimeName => v = s.val
          /\ \A u \in Threads \ {t} : todo'[u] = todo[u]
          /\ \A i \in 1..Len(todo'[t]) :
               \/ \E j \in 1..Len(todo[t]) : todo'[t][i] = todo[t][j]
               \/ todo'[t][i] = [s EXCEPT !.val = v, !.how = how]
    BY <1>3, AssignParts
  <2>3. t \notin clearing
    <3>1. t \in clearing => \E i \in 1..13 : todo[t][1] = Store_Default(i)
      BY <2>1 DEF ClearInv, ClearsDefaults
    <3>2. todo[t][1].how # "store"
      BY <2>1
    <3> HIDE DEF s
    <3> QED
      BY <3>1, <3>2, DefaultFacts
  <2>4. TimeStep(s, mem[TimeName])
    BY <2>1 DEF TimeInv, TimeSteps
  <2>5. s.name = TimeName => s.key = 14 /\ s.val # 0
    BY <2>2, <2>4, TimeKey DEF TimeStep
  <2>6. mem \in [Loaded -> Nat]
    BY DEF SettingsInv, TypeOK, Ranges
  <2> HIDE DEF s
  <2>7. /\ s.name = TimeName => mem'[TimeName] # 0
        /\ s.name # TimeName => mem'[TimeName] = mem[TimeName]
    BY <2>2, <2>5, <2>6, TimeKey
  <2>8. ASSUME NEW i \in 1..Len(todo'[t]) PROVE TimeStep(todo'[t][i], mem'[TimeName])
    <3>1. CASE \E j \in 1..Len(todo[t]) : todo'[t][i] = todo[t][j]
      <4>1. TimeStep(todo'[t][i], mem[TimeName])
        BY <3>1 DEF TimeInv, TimeSteps
      <4> QED
        BY <2>7, <4>1 DEF TimeStep
    <3>2. CASE todo'[t][i] = [s EXCEPT !.val = v, !.how = how]
      <4>1. /\ todo'[t][i].name = s.name /\ todo'[t][i].key = s.key
            /\ todo'[t][i].val = v
        BY <2>1, <3>2 DEF Steps
      <4>2. s.key = 14 => s.name = TimeName
        BY <2>2, TimeKey
      <4> QED
        BY <2>2, <2>4, <2>5, <2>7, <4>1, <4>2 DEF TimeStep
    <3> QED
      BY <2>2, <3>1, <3>2
  <2> QED
    BY <2>1, <2>2, <2>3, <2>7, <2>8, TimeOutside
<1> QED
  BY <1>1, <1>2, <1>3

\* Flash_Set is entered: the argument is a backwash time or another setting.
LEMMA TimeSet ==
  ASSUME SettingsInv, TimeInv, NEW t \in Threads, Flash_Set(t)
  PROVE  TimeInv'
<1> USE DEF TimeInv
<1> DEFINE s == Head(todo[t])
<1>1. UNCHANGED <<phase, flash, mem, bootTodo, clearing, cut>>
  BY DEF Flash_Set, hist
<1>2. /\ s = todo[t][1] /\ 1 \in 1..Len(todo[t]) /\ s \in Steps
      /\ s.how \in {"load", "store"} /\ arg[t] = NoArg
      /\ arg'[t] = [name |-> s.name, key |-> s.key,
                    val |-> IF s.how = "load" THEN mem[s.name] ELSE s.val]
      /\ \A u \in Threads \ {t} : todo'[u] = todo[u] /\ arg'[u] = arg[u]
      /\ Len(todo'[t]) = Len(todo[t]) - 1 /\ Len(todo[t]) \in Nat
      /\ \A i \in 1..Len(todo'[t]) : i + 1 \in 1..Len(todo[t]) /\ todo'[t][i] = todo[t][i + 1]
  BY SetParts
<1>3. TimeStep(s, mem[TimeName]) /\ StepOK(t, 1)
  BY <1>2 DEF TimeSteps, SettingsInv, ScriptsOK
<1>4. s.key = 14 /\ s.name # "none" => s.name = TimeName
  BY <1>2, <1>3, TimeKey DEF StepOK, Steps
<1>5. s.name = "none" => s.how = "store"
  BY <1>2, <1>3 DEF StepOK
<1> HIDE DEF s
<1>6. arg'[t].key = s.key /\ arg'[t].key # 0 /\ (arg'[t].key = 14 => arg'[t].val # 0)
  BY <1>2, <1>3, <1>4, <1>5 DEF TimeStep
<1>7. TimeSteps'
  <2> SUFFICES ASSUME NEW u \in Threads, NEW i \in 1..Len(todo'[u])
               PROVE  TimeStep(todo'[u][i], mem'[TimeName])
    BY DEF TimeSteps
  <2>1. \E j \in 1..Len(todo[u]) : todo'[u][i] = todo[u][j]
    BY <1>2
  <2>2. TimeStep(todo'[u][i], mem[TimeName])
    BY <2>1 DEF TimeSteps
  <2> QED
    BY <1>1, <2>2 DEF TimeStep
<1>8. TimeCalls'
  BY <1>2, <1>6 DEF TimeCalls
<1>9. TimeClears'
  <2> SUFFICES ASSUME NEW u \in clearing
               PROVE  flash[14] # 0 \/ HasTime(todo'[u]) \/ arg'[u].key = 14
    BY <1>1 DEF TimeClears
  <2>1. flash[14] # 0 \/ HasTime(todo[u]) \/ arg[u].key = 14
    BY DEF TimeClears
  <2>2. CASE u # t
    <3>1. todo'[u] = todo[u] /\ arg'[u] = arg[u]
      BY <1>2, <2>2 DEF SettingsInv, TypeOK, Ranges
    <3> QED
      BY <2>1, <3>1
  <2>3. CASE u = t /\ HasTime(todo[t])
    <3>1. PICK j \in 1..Len(todo[t]) : todo[t][j].key = 14
      BY <2>3 DEF HasTime
    <3>2. CASE j = 1
      BY <1>2, <1>6, <2>3, <3>1, <3>2
    <3>3. CASE j # 1
      <4>1. j - 1 \in 1..Len(todo'[t]) /\ j - 1 + 1 = j
        BY <1>2, <3>3
      <4>2. todo'[t][j - 1].key = 14
        BY <1>2, <3>1, <4>1
      <4> QED
        BY <2>3, <4>1, <4>2 DEF HasTime
    <3> QED
      BY <3>2, <3>3
  <2>4. arg[t].key # 14
    BY <1>2 DEF NoArg
  <2> QED
    BY <2>1, <2>2, <2>3, <2>4
<1>10. Marked' /\ Configured'
  BY <1>1 DEF Marked, Configured
<1> QED
  BY <1>7, <1>8, <1>9, <1>10

\* The key is written: neither the mark nor the backwash time becomes 0.
LEMMA TimeReturn ==
  ASSUME SettingsInv, TimeInv, NEW t \in Threads, Flash_Set_Return(t)
  PROVE  TimeInv'
<1> USE DEF TimeInv
<1>1. /\ UNCHANGED <<phase, mem, bootTodo, todo, clearing, cut>>
      /\ flash' = Stored(arg[t].key, arg[t].val) /\ arg[t] # NoArg /\ phase = "run"
      /\ arg'[t] = NoArg /\ \A u \in Threads \ {t} : arg'[u] = arg[u]
  BY DEF SettingsInv, TypeOK, Ranges, Flash_Set_Return
<1>2. arg[t].key # 0 /\ (arg[t].key = 14 => arg[t].val # 0)
  BY <1>1 DEF TimeCalls
<1>3. flash'[0] = flash[0] /\ (flash[14] # 0 \/ arg[t].key = 14 => flash'[14] # 0)
  BY <1>1, <1>2, TimeKey DEF Stored
<1>4. TimeSteps'
  BY <1>1 DEF TimeSteps, TimeStep
<1>5. TimeCalls'
  BY <1>1 DEF TimeCalls
<1>6. TimeClears'
  <2> SUFFICES ASSUME NEW u \in clearing
               PROVE  flash'[14] # 0 \/ HasTime(todo[u]) \/ arg'[u].key = 14
    BY <1>1 DEF TimeClears
  <2>1. flash[14] # 0 \/ HasTime(todo[u]) \/ arg[u].key = 14
    BY DEF TimeClears
  <2>2. u \in Threads
    BY DEF SettingsInv, TypeOK, Ranges
  <2> QED
    BY <1>1, <1>3, <2>1, <2>2
<1>7. Marked'
  BY <1>1, <1>3 DEF Marked
<1>8. Configured'
  BY <1>1 DEF Configured
<1> QED
  BY <1>4, <1>5, <1>6, <1>7, <1>8

\* Flash_Clear begins: the default of the backwash time is among those to store.
LEMMA TimeClearBegins ==
  ASSUME SettingsInv, TimeInv, NEW t \in Threads, Flash_Clear(t)
  PROVE  TimeInv'
<1> USE DEF TimeInv
<1>1. /\ clearing' = clearing \cup {t} /\ clearing \subseteq Threads /\ t \notin clearing
      /\ UNCHANGED <<phase, flash, mem, bootTodo, arg, cut>>
      /\ todo'[t] = Set_Default /\ \A u \in Threads \ {t} : todo'[u] = todo[u]
  BY DEF SettingsInv, TypeOK, Ranges, Flash_Clear, hist
<1>2. TimeSteps'
  <2> SUFFICES ASSUME NEW u \in Threads, NEW i \in 1..Len(todo'[u])
               PROVE  TimeStep(todo'[u][i], mem'[TimeName])
    BY DEF TimeSteps
  <2>1. TimeStep(todo'[u][i], mem[TimeName])
    BY <1>1, DefaultTime DEF TimeSteps
  <2> QED
    BY <1>1, <2>1 DEF TimeStep
<1>3. TimeCalls' /\ Marked' /\ Configured'
  BY <1>1 DEF TimeCalls, Marked, Configured
<1>4. TimeClears'
  <2> SUFFICES ASSUME NEW u \in clearing \cup {t}
               PROVE  flash[14] # 0 \/ HasTime(todo'[u]) \/ arg[u].key = 14
    BY <1>1 DEF TimeClears
  <2>1. CASE u = t
    BY <1>1, <2>1, DefaultTime
  <2>2. CASE u # t
    <3>1. todo'[u] = todo[u] /\ u \in clearing
      BY <1>1, <2>2
    <3> QED
      BY <3>1 DEF TimeClears
  <2> QED
    BY <2>1, <2>2
<1> QED
  BY <1>2, <1>3, <1>4

\* The device goes down: by a reset with the backwash time stored, or by a loss of
\* power, which cuts the first boot or not.
LEMMA TimeHalt ==
  ASSUME SettingsInv, TimeInv, PowerLoss \/ \E t \in Threads : Reset(t)
  PROVE  TimeInv'
<1> USE DEF TimeInv
<1>1. /\ phase' = "off" /\ flash' = flash /\ clearing' = {}
      /\ todo' = [t \in Threads |-> <<>>] /\ arg' = [t \in Threads |-> NoArg]
  BY DEF PowerLoss, Reset, Halt
<1>2. TimeSteps'
  BY <1>1 DEF TimeSteps
<1>3. TimeCalls' /\ TimeClears' /\ Configured'
  BY <1>1 DEF TimeCalls, TimeClears, Configured
<1>4. ASSUME flash[0] = 1 PROVE cut' \/ flash[14] # 0
  <2>1. ASSUME NEW t \in Threads, Reset(t) PROVE flash[14] # 0
    <3>1. t \in clearing /\ Len(todo[t]) = 0 /\ arg[t] = NoArg
      BY <2>1 DEF Reset, Idle
    <3>2. ~HasTime(todo[t]) /\ arg[t].key # 14
      BY <3>1 DEF HasTime, NoArg
    <3> QED
      BY <3>1, <3>2 DEF TimeClears
  <2>2. CASE PowerLoss
    <3>1. cut \/ (phase = "boot" /\ bootTodo # <<>> /\ flash[0] = 1) => cut'
      BY <2>2, Zenon DEF PowerLoss
    <3>2. CASE phase = "boot"
      <4>1. <<Mark>> \o Set_Default # <<>>
        BY FirstBoot
      <4>2. HasTime(bootTodo) => bootTodo # <<>>
        BY DEF HasTime
      <4>3. bootTodo # <<>> \/ flash[14] # 0 \/ cut
        BY <3>2, <4>1, <4>2 DEF Marked
      <4> QED
        BY <1>4, <3>1, <3>2, <4>3
    <3>3. CASE phase # "boot"
      BY <1>4, <3>1, <3>3 DEF Marked
    <3> QED
      BY <3>2, <3>3
  <2> QED
    BY <2>1, <2>2
<1>5. Marked'
  BY <1>1, <1>4 DEF Marked
<1> QED
  BY <1>2, <1>3, <1>5

\* Flash_Init marks the boot, stores the defaults and loads the settings.
LEMMA TimeBoot ==
  ASSUME SettingsInv, TimeInv, Boot \/ BootStore \/ Flash2Mem
  PROVE  TimeInv'
<1> USE DEF TimeInv
<1>1. /\ phase # "run" /\ clearing = {} /\ \A t \in Threads : Idle(t)
      /\ UNCHANGED <<todo, arg, clearing, cut>>
  BY DEF Boot, BootStore, Flash2Mem, SettingsInv, Quiet, hist
<1>2. \A t \in Threads : Len(todo[t]) = 0 /\ arg[t] = NoArg
  BY <1>1 DEF Idle
<1>3. TimeSteps' /\ TimeCalls' /\ TimeClears'
  BY <1>1, <1>2 DEF TimeSteps, TimeCalls, TimeClears
<1>4. CASE Boot
  <2>1. /\ phase = "off" /\ phase' = "boot" /\ flash' = flash
        /\ bootTodo' = IF flash[0] = 0 THEN <<Mark>> \o Set_Default ELSE <<>>
    BY <1>4 DEF Boot, Mark
  <2>2. Rest(<<>>)
    BY DEF Rest
  <2>3. Marked'
    BY <1>1, <2>1, <2>2 DEF Marked
  <2> QED
    BY <1>3, <2>1, <2>3 DEF Configured
<1>5. CASE BootStore
  <2>1. /\ phase = "boot" /\ phase' = "boot" /\ bootTodo # <<>> /\ bootTodo \in Seq(Steps)
        /\ flash' = Stored(Head(bootTodo).key, Head(bootTodo).val)
        /\ bootTodo' = Tail(bootTodo)
    BY <1>5 DEF BootStore, SettingsInv, TypeOK, Ranges
  <2>2. CASE bootTodo = <<Mark>> \o Set_Default
    <3>1. Head(bootTodo) = Mark /\ Tail(bootTodo) = Set_Default
      BY <2>2, FirstBoot
    <3>2. flash'[0] = 1
      BY <2>1, <3>1, TimeKey DEF Mark, Step, Stored
    <3>3. Marked'
      BY <2>1, <3>1, <3>2, DefaultTime DEF Marked
    <3> QED
      BY <1>3, <2>1, <3>3 DEF Configured
  <2>3. CASE flash[0] = 1 /\ Rest(bootTodo) /\ (flash[14] # 0 \/ cut \/ HasTime(bootTodo))
    <3> DEFINE h == Head(bootTodo)
               q == Tail(bootTodo)
    <3>1. /\ Len(bootTodo) \in Nat /\ 1 \in 1..Len(bootTodo) /\ h = bootTodo[1]
          /\ Len(q) = Len(bootTodo) - 1
          /\ \A i \in 1..Len(q) : i + 1 \in 1..Len(bootTodo) /\ q[i] = bootTodo[i + 1]
      BY <2>1, HeadTail
    <3>2. flash' = Stored(h.key, h.val) /\ bootTodo' = q
      BY <2>1
    <3> HIDE DEF h, q
    <3>3. h.key # 0 /\ (h.key = 14 => h.val # 0)
      BY <2>3, <3>1 DEF Rest
    <3>4. flash'[0] = 1 /\ (flash[14] # 0 \/ h.key = 14 => flash'[14] # 0)
      BY <2>3, <3>2, <3>3, TimeKey DEF Stored
    <3>5. Rest(q)
      BY <2>3, <3>1 DEF Rest
    <3>6. HasTime(bootTodo) => h.key = 14 \/ HasTime(q)
      <4> SUFFICES ASSUME NEW j \in 1..Len(bootTodo), bootTodo[j].key = 14, h.key # 14
                   PROVE  HasTime(q)
        BY DEF HasTime
      <4>1. j - 1 \in 1..Len(q) /\ j - 1 + 1 = j
        BY <3>1
      <4>2. q[j - 1].key = 14
        BY <3>1, <4>1
      <4> QED
        BY <4>1, <4>2 DEF HasTime
    <3>7. Marked'
      BY <1>1, <2>1, <2>3, <3>2, <3>4, <3>5, <3>6 DEF Marked
    <3> QED
      BY <1>3, <2>1, <3>7 DEF Configured
  <2> QED
    BY <2>1, <2>2, <2>3 DEF Marked
<1>6. CASE Flash2Mem
  <2>1. /\ phase = "boot" /\ phase' = "run" /\ bootTodo = <<>> /\ flash' = flash
        /\ mem' = [n \in Loaded |-> flash[ReadKey[n]]]
    BY <1>6 DEF Flash2Mem
  <2>2. <<Mark>> \o Set_Default # <<>>
    BY FirstBoot
  <2>3. ~HasTime(bootTodo)
    BY <2>1 DEF HasTime
  <2>4. flash[0] = 1 /\ (flash[14] # 0 \/ cut)
    BY <2>1, <2>2, <2>3 DEF Marked
  <2>5. mem'[TimeName] = flash[14]
    BY <2>1, TimeKey
  <2>6. Marked'
    BY <1>1, <2>1, <2>4 DEF Marked
  <2>7. Configured'
    BY <1>1, <2>4, <2>5 DEF Configured, TimeName
  <2> QED
    BY <1>3, <2>6, <2>7
<1> QED
  BY <1>4, <1>5, <1>6

\* As long as the cloud sets no backwash time of 0, a device that runs has one, after
\* any number of power failures, settings and factory resets, but for a power failure
\* in the middle of the first Flash_Init.
THEOREM TimeConfigured == ASSUME TimeNotZero PROVE Spec => []Configured
<1>1. Init => ClearInv /\ TimeInv
  <2> SUFFICES ASSUME Init PROVE ClearInv /\ TimeInv
    OBVIOUS
  <2>1. ClearInv
    BY DEF Init, ClearInv, ClearsDefaults, DefaultsComing
  <2>2. TimeSteps /\ TimeCalls
    BY DEF Init, TimeSteps, TimeCalls
  <2>3. TimeClears /\ Configured
    BY DEF Init, TimeClears, Configured
  <2>4. Marked
    BY TimeKey DEF Init, Marked
  <2> QED
    BY <2>1, <2>2, <2>3, <2>4 DEF TimeInv
<1>2. SettingsInv /\ ClearInv /\ TimeInv /\ [Next]_vars => TimeInv'
  <2> SUFFICES ASSUME SettingsInv, ClearInv, TimeInv, [Next]_vars PROVE TimeInv'
    OBVIOUS
  <2>1. ASSUME NEW t \in Threads,
               \/ Begin(t) \/ Assign(t) \/ Check(t) \/ Flash_Set(t)
               \/ Flash_Set_Return(t) \/ Flash_Clear(t)
        PROVE  TimeInv'
    BY <2>1, TimeScripts, TimeSet, TimeReturn, TimeClearBegins
  <2>2. CASE PowerLoss \/ \E t \in Threads : Reset(t)
    BY <2>2, TimeHalt
  <2>3. CASE Boot \/ BootStore \/ Flash2Mem
    BY <2>3, TimeBoot
  <2>4. CASE UNCHANGED vars
    BY <2>4 DEF vars, TimeInv, TimeSteps, TimeStep, TimeCalls, TimeClears, Marked, Configured
  <2> QED
    BY <2>1, <2>2, <2>3, <2>4 DEF Next
<1>3. SettingsInv /\ ClearInv /\ [Next]_vars => ClearInv'
  BY ClearStep
<1>4. TimeInv => Configured
  BY DEF TimeInv
<1> QED
  BY <1>1, <1>2, <1>3, <1>4, SettingsInvariant, PTL DEF Spec
=============================================================================

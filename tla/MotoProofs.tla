----------------------------- MODULE MotoProofs -----------------------------
(***************************************************************************)
(* The safety properties of Moto hold for every length of the stroke.      *)
(***************************************************************************)
EXTENDS Moto, TLAPS

\* The groups of variables and the sets of values, expanded in every step.
USE StrokeAssumption
    DEF run, plant, gates, power, Flags, Drives, Timers, Outcomes, Events,
        Working, Pending, Jump, Silent

\* Power-up (Moto_Init) establishes the invariant.
LEMMA MotoInit == Init => MotoInv
<1> SUFFICES ASSUME Init PROVE MotoInv
  OBVIOUS
<1>1. Switches
  <2>1. /\ MotoWorkStatus \in BOOLEAN /\ LowVoltageFlag \in BOOLEAN
        /\ awd \in BOOLEAN /\ TDS_Warn \in BOOLEAN
    BY DEF Init
  <2>2. /\ pmMoto \in BOOLEAN /\ lcdBusy \in BOOLEAN
        /\ flushed \in BOOLEAN /\ stale \in BOOLEAN
    BY DEF Init
  <2> QED
    BY <2>1, <2>2 DEF Switches
<1>5. Ranges
  BY DEF Init, Ranges
<1>2. SleepReleased /\ GreenWhileWorking
  BY DEF Init, SleepReleased, GreenWhileWorking
<1>3. DeadlinePending /\ StrokeSupervised
  BY DEF Init, DeadlinePending, StrokeSupervised
<1>4. FinishFlushed /\ EdgeAtLimit /\ DwellFlushed
  BY DEF Init, FinishFlushed, EdgeAtLimit, DwellFlushed
<1> QED
  BY <1>1, <1>2, <1>3, <1>4, <1>5 DEF MotoInv, TypeOK

\* Every handler and every step of the environment preserves the invariant.
LEMMA MotoStep == MotoInv /\ [Next]_vars => MotoInv'
<1> SUFFICES ASSUME MotoInv, [Next]_vars PROVE MotoInv'
  OBVIOUS
<1> USE DEF MotoInv, TypeOK
<1>1. CASE Moto_Cycle_Start
  <2>1. Switches'
    BY <1>1 DEF Moto_Cycle_Start, Accepts, Moto_Forward, MOTO_RIGHT,
       Switches
  <2>2. Ranges'
    <3>1. MotoWorkFlag' \in Flags /\ drive' \in Drives
      BY <1>1 DEF Moto_Cycle_Start, Accepts, Moto_Forward, MOTO_RIGHT,
         Ranges
    <3>2. timer' \in SUBSET Timers /\ firing' \in Timers \cup {"none"}
      BY <1>1 DEF Moto_Cycle_Start, Accepts, Moto_Forward, MOTO_RIGHT,
         Ranges
    <3>3. pos' \in 0..Stroke /\ irq' \in SUBSET {"left", "right"}
      BY <1>1 DEF Moto_Cycle_Start, Accepts, Moto_Forward, MOTO_RIGHT,
         Ranges
    <3>4. led' \in 0..3 /\ sent' \in Events \cup {"none"}
      BY <1>1 DEF Moto_Cycle_Start, Accepts, Moto_Forward, MOTO_RIGHT,
         Ranges
    <3> QED
      BY <3>1, <3>2, <3>3, <3>4 DEF Ranges
  <2>3. SleepReleased' /\ GreenWhileWorking'
    BY <1>1 DEF Moto_Cycle_Start, Accepts, Moto_Forward, MOTO_RIGHT,
       SleepReleased, GreenWhileWorking
  <2>4. DeadlinePending' /\ StrokeSupervised'
    BY <1>1 DEF Moto_Cycle_Start, Accepts, Moto_Forward, MOTO_RIGHT,
       DeadlinePending, StrokeSupervised, EdgeAtLimit, Ranges
  <2>5. FinishFlushed' /\ EdgeAtLimit' /\ DwellFlushed'
    <3>1. FinishFlushed'
      BY <1>1 DEF Moto_Cycle_Start, Accepts, Moto_Forward, MOTO_RIGHT,
         FinishFlushed, EdgeAtLimit, DwellFlushed, Switches, Ranges
    <3>2. EdgeAtLimit'
      BY <1>1 DEF Moto_Cycle_Start, Accepts, Moto_Forward, MOTO_RIGHT,
         FinishFlushed, EdgeAtLimit, DwellFlushed, Switches, Ranges
    <3>3. DwellFlushed'
      <4>1. MotoWorkFlag' # "BACK"
        BY <1>1 DEF Moto_Cycle_Start, Moto_Forward
      <4>2. CASE pos = Stroke
        <5>1. flushed'
          BY <1>1, <4>2 DEF Moto_Cycle_Start
        <5> QED
          BY <5>1 DEF DwellFlushed
      <4>3. CASE pos # Stroke
        <5>1. timer' = timer \cup {"overload", "detect"} /\ firing' = firing
          BY <1>1, <4>3 DEF Moto_Cycle_Start, Moto_Forward, MOTO_RIGHT
        <5>2. stale' = Pending("cycle")
          BY <1>1 DEF Moto_Cycle_Start
        <5>3. Pending("cycle")' => Pending("cycle")
          BY <5>1
        <5> QED
          BY <4>1, <5>2, <5>3 DEF DwellFlushed
      <4> QED
        BY <4>2, <4>3
    <3> QED
      BY <3>1, <3>2, <3>3 DEF MotoInv
  <2> QED
    BY <2>1, <2>2, <2>3, <2>4, <2>5
<1>2. CASE Moto_Cycle_Refuse
  <2>1. Switches'
    BY <1>2 DEF Moto_Cycle_Refuse,
       Switches
  <2>2. Ranges'
    BY <1>2 DEF Moto_Cycle_Refuse,
       Ranges
  <2>3. SleepReleased' /\ GreenWhileWorking'
    BY <1>2 DEF Moto_Cycle_Refuse,
       SleepReleased, GreenWhileWorking
  <2>4. DeadlinePending' /\ StrokeSupervised'
    BY <1>2 DEF Moto_Cycle_Refuse,
       DeadlinePending, StrokeSupervised, EdgeAtLimit, Ranges
  <2>5. FinishFlushed' /\ EdgeAtLimit' /\ DwellFlushed'
    BY <1>2 DEF Moto_Cycle_Refuse,
       FinishFlushed, EdgeAtLimit, DwellFlushed, Switches, Ranges
  <2> QED
    BY <2>1, <2>2, <2>3, <2>4, <2>5
<1>3. CASE Moto_Pause
  <2>1. Switches'
    BY <1>3 DEF Moto_Pause,
       Switches
  <2>2. Ranges'
    BY <1>3 DEF Moto_Pause,
       Ranges
  <2>3. SleepReleased' /\ GreenWhileWorking'
    BY <1>3 DEF Moto_Pause,
       SleepReleased, GreenWhileWorking
  <2>4. DeadlinePending' /\ StrokeSupervised'
    BY <1>3 DEF Moto_Pause,
       DeadlinePending, StrokeSupervised, EdgeAtLimit, Ranges
  <2>5. FinishFlushed' /\ EdgeAtLimit' /\ DwellFlushed'
    BY <1>3 DEF Moto_Pause,
       FinishFlushed, EdgeAtLimit, DwellFlushed, Switches, Ranges
  <2> QED
    BY <2>1, <2>2, <2>3, <2>4, <2>5
<1>4. CASE Moto_Resume
  <2>1. Switches'
    BY <1>4 DEF Moto_Resume,
       Switches
  <2>2. Ranges'
    BY <1>4 DEF Moto_Resume,
       Ranges
  <2>3. SleepReleased' /\ GreenWhileWorking'
    BY <1>4 DEF Moto_Resume,
       SleepReleased, GreenWhileWorking
  <2>4. DeadlinePending' /\ StrokeSupervised'
    BY <1>4 DEF Moto_Resume,
       DeadlinePending, StrokeSupervised, EdgeAtLimit, Ranges
  <2>5. FinishFlushed' /\ EdgeAtLimit' /\ DwellFlushed'
    BY <1>4 DEF Moto_Resume,
       FinishFlushed, EdgeAtLimit, DwellFlushed, Switches, Ranges
  <2> QED
    BY <2>1, <2>2, <2>3, <2>4, <2>5
<1>5. CASE PowerSet
  <2>1. Switches'
    BY <1>5 DEF PowerSet,
       Switches
  <2>2. Ranges'
    BY <1>5 DEF PowerSet,
       Ranges
  <2>3. SleepReleased' /\ GreenWhileWorking'
    BY <1>5 DEF PowerSet,
       SleepReleased, GreenWhileWorking
  <2>4. DeadlinePending' /\ StrokeSupervised'
    BY <1>5 DEF PowerSet,
       DeadlinePending, StrokeSupervised, EdgeAtLimit, Ranges
  <2>5. FinishFlushed' /\ EdgeAtLimit' /\ DwellFlushed'
    BY <1>5 DEF PowerSet,
       FinishFlushed, EdgeAtLimit, DwellFlushed, Switches, Ranges
  <2> QED
    BY <2>1, <2>2, <2>3, <2>4, <2>5
<1>6. CASE MotoLeft_Callback
  <2>1. Switches'
    BY <1>6 DEF MotoLeft_Callback, MotoLeft_Done, MotoLeft_Home, Moto_Halt,
       Disable_MotoINT, Moto_Cycle_Done,
       Switches
  <2>2. Ranges'
    <3>1. MotoWorkFlag' \in Flags /\ drive' \in Drives
      BY <1>6 DEF MotoLeft_Callback, MotoLeft_Done, MotoLeft_Home, Moto_Halt,
         Disable_MotoINT, Moto_Cycle_Done,
         Ranges
    <3>2. timer' \in SUBSET Timers /\ firing' \in Timers \cup {"none"}
      BY <1>6 DEF MotoLeft_Callback, MotoLeft_Done, MotoLeft_Home, Moto_Halt,
         Disable_MotoINT, Moto_Cycle_Done,
         Ranges
    <3>3. pos' \in 0..Stroke /\ irq' \in SUBSET {"left", "right"}
      BY <1>6 DEF MotoLeft_Callback, MotoLeft_Done, MotoLeft_Home, Moto_Halt,
         Disable_MotoINT, Moto_Cycle_Done,
         Ranges
    <3>4. led' \in 0..3 /\ sent' \in Events \cup {"none"}
      BY <1>6 DEF MotoLeft_Callback, MotoLeft_Done, MotoLeft_Home, Moto_Halt,
         Disable_MotoINT, Moto_Cycle_Done,
         Ranges
    <3> QED
      BY <3>1, <3>2, <3>3, <3>4 DEF Ranges
  <2>3. SleepReleased' /\ GreenWhileWorking'
    BY <1>6 DEF MotoLeft_Callback, MotoLeft_Done, MotoLeft_Home, Moto_Halt,
       Disable_MotoINT, Moto_Cycle_Done,
       SleepReleased, GreenWhileWorking
  <2>4. DeadlinePending' /\ StrokeSupervised'
    BY <1>6 DEF MotoLeft_Callback, MotoLeft_Done, MotoLeft_Home, Moto_Halt,
       Disable_MotoINT, Moto_Cycle_Done,
       DeadlinePending, StrokeSupervised, EdgeAtLimit, Ranges
  <2>5. FinishFlushed' /\ EdgeAtLimit' /\ DwellFlushed'
    BY <1>6 DEF MotoLeft_Callback, MotoLeft_Done, MotoLeft_Home, Moto_Halt,
       Disable_MotoINT, Moto_Cycle_Done,
       FinishFlushed, EdgeAtLimit, DwellFlushed, Switches, Ranges
  <2> QED
    BY <2>1, <2>2, <2>3, <2>4, <2>5
<1>7. CASE MotoRight_Callback
  <2>1. Switches'
    BY <1>7 DEF MotoRight_Callback, Moto_Halt, Disable_MotoINT,
       Switches
  <2>2. Ranges'
    BY <1>7 DEF MotoRight_Callback, Moto_Halt, Disable_MotoINT,
       Ranges
  <2>3. SleepReleased' /\ GreenWhileWorking'
    BY <1>7 DEF MotoRight_Callback, Moto_Halt, Disable_MotoINT,
       SleepReleased, GreenWhileWorking
  <2>4. DeadlinePending' /\ StrokeSupervised'
    BY <1>7 DEF MotoRight_Callback, Moto_Halt, Disable_MotoINT,
       DeadlinePending, StrokeSupervised, EdgeAtLimit, Ranges
  <2>5. FinishFlushed' /\ EdgeAtLimit' /\ DwellFlushed'
    BY <1>7 DEF MotoRight_Callback, Moto_Halt, Disable_MotoINT,
       FinishFlushed, EdgeAtLimit, DwellFlushed, Switches, Ranges
  <2> QED
    BY <2>1, <2>2, <2>3, <2>4, <2>5
<1>8. CASE ADC1_IRQHandler
  <2>1. Switches'
    BY <1>8 DEF ADC1_IRQHandler, Disable_MotoINT,
       Switches
  <2>2. Ranges'
    BY <1>8 DEF ADC1_IRQHandler, Disable_MotoINT,
       Ranges
  <2>3. SleepReleased' /\ GreenWhileWorking'
    BY <1>8 DEF ADC1_IRQHandler, Disable_MotoINT,
       SleepReleased, GreenWhileWorking
  <2>4. DeadlinePending' /\ StrokeSupervised'
    BY <1>8 DEF ADC1_IRQHandler, Disable_MotoINT,
       DeadlinePending, StrokeSupervised, EdgeAtLimit, Ranges
  <2>5. FinishFlushed' /\ EdgeAtLimit' /\ DwellFlushed'
    BY <1>8 DEF ADC1_IRQHandler, Disable_MotoINT,
       FinishFlushed, EdgeAtLimit, DwellFlushed, Switches, Ranges
  <2> QED
    BY <2>1, <2>2, <2>3, <2>4, <2>5
<1>9. CASE \E t \in Timers : Expire(t)
  <2>1. Switches'
    BY <1>9 DEF Expire,
       Switches
  <2>2. Ranges'
    BY <1>9 DEF Expire,
       Ranges
  <2>3. SleepReleased' /\ GreenWhileWorking'
    BY <1>9 DEF Expire,
       SleepReleased, GreenWhileWorking
  <2>4. DeadlinePending' /\ StrokeSupervised'
    BY <1>9 DEF Expire,
       DeadlinePending, StrokeSupervised, EdgeAtLimit, Ranges
  <2>5. FinishFlushed' /\ EdgeAtLimit' /\ DwellFlushed'
    BY <1>9 DEF Expire,
       FinishFlushed, EdgeAtLimit, DwellFlushed, Switches, Ranges
  <2> QED
    BY <2>1, <2>2, <2>3, <2>4, <2>5
<1>10. CASE Moto_Cycle_Timer_Callback
  <2>1. Switches'
    BY <1>10 DEF Moto_Cycle_Timer_Callback, Moto_Back, MOTO_LEFT,
       Switches
  <2>2. Ranges'
    BY <1>10 DEF Moto_Cycle_Timer_Callback, Moto_Back, MOTO_LEFT,
       Ranges
  <2>3. SleepReleased' /\ GreenWhileWorking'
    BY <1>10 DEF Moto_Cycle_Timer_Callback, Moto_Back, MOTO_LEFT,
       SleepReleased, GreenWhileWorking
  <2>4. DeadlinePending' /\ StrokeSupervised'
    BY <1>10 DEF Moto_Cycle_Timer_Callback, Moto_Back, MOTO_LEFT,
       DeadlinePending, StrokeSupervised, EdgeAtLimit, Ranges
  <2>5. FinishFlushed' /\ EdgeAtLimit' /\ DwellFlushed'
    BY <1>10 DEF Moto_Cycle_Timer_Callback, Moto_Back, MOTO_LEFT,
       FinishFlushed, EdgeAtLimit, DwellFlushed, Switches, Ranges
  <2> QED
    BY <2>1, <2>2, <2>3, <2>4, <2>5
<1>11. CASE Moto_overload_delay_timer_callback
  <2>1. Switches'
    BY <1>11 DEF Moto_overload_delay_timer_callback,
       Switches
  <2>2. Ranges'
    BY <1>11 DEF Moto_overload_delay_timer_callback,
       Ranges
  <2>3. SleepReleased' /\ GreenWhileWorking'
    BY <1>11 DEF Moto_overload_delay_timer_callback,
       SleepReleased, GreenWhileWorking
  <2>4. DeadlinePending' /\ StrokeSupervised'
    BY <1>11 DEF Moto_overload_delay_timer_callback,
       DeadlinePending, StrokeSupervised, EdgeAtLimit, Ranges
  <2>5. FinishFlushed' /\ EdgeAtLimit' /\ DwellFlushed'
    BY <1>11 DEF Moto_overload_delay_timer_callback,
       FinishFlushed, EdgeAtLimit, DwellFlushed, Switches, Ranges
  <2> QED
    BY <2>1, <2>2, <2>3, <2>4, <2>5
<1>12. CASE Moto_Current_Timer_Callback
  <2>1. Switches'
    BY <1>12 DEF Moto_Current_Timer_Callback, Moto_Reset, Disable_MotoINT,
       MOTO_LEFT, Enable_MotoINT, Moto_Cycle_Done,
       Switches
  <2>2. Ranges'
    <3>1. MotoWorkFlag' \in Flags /\ drive' \in Drives
      BY <1>12 DEF Moto_Current_Timer_Callback, Moto_Reset, Disable_MotoINT,
         MOTO_LEFT, Enable_MotoINT, Moto_Cycle_Done,
         Ranges
    <3>2. timer' \in SUBSET Timers /\ firing' \in Timers \cup {"none"}
      BY <1>12 DEF Moto_Current_Timer_Callback, Moto_Reset, Disable_MotoINT,
         MOTO_LEFT, Enable_MotoINT, Moto_Cycle_Done,
         Ranges
    <3>3. pos' \in 0..Stroke /\ irq' \in SUBSET {"left", "right"}
      BY <1>12 DEF Moto_Current_Timer_Callback, Moto_Reset, Disable_MotoINT,
         MOTO_LEFT, Enable_MotoINT, Moto_Cycle_Done,
         Ranges
    <3>4. led' \in 0..3 /\ sent' \in Events \cup {"none"}
      BY <1>12 DEF Moto_Current_Timer_Callback, Moto_Reset, Disable_MotoINT,
         MOTO_LEFT, Enable_MotoINT, Moto_Cycle_Done,
         Ranges
    <3> QED
      BY <3>1, <3>2, <3>3, <3>4 DEF Ranges
  <2>3. SleepReleased' /\ GreenWhileWorking'
    BY <1>12 DEF Moto_Current_Timer_Callback, Moto_Reset, Disable_MotoINT,
       MOTO_LEFT, Enable_MotoINT, Moto_Cycle_Done,
       SleepReleased, GreenWhileWorking
  <2>4. DeadlinePending' /\ StrokeSupervised'
    BY <1>12 DEF Moto_Current_Timer_Callback, Moto_Reset, Disable_MotoINT,
       MOTO_LEFT, Enable_MotoINT, Moto_Cycle_Done,
       DeadlinePending, StrokeSupervised, EdgeAtLimit, Ranges
  <2>5. FinishFlushed' /\ EdgeAtLimit' /\ DwellFlushed'
    BY <1>12 DEF Moto_Current_Timer_Callback, Moto_Reset, Disable_MotoINT,
       MOTO_LEFT, Enable_MotoINT, Moto_Cycle_Done,
       FinishFlushed, EdgeAtLimit, DwellFlushed, Switches, Ranges
  <2> QED
    BY <2>1, <2>2, <2>3, <2>4, <2>5
<1>13. CASE Moto_Detect_Timer_Callback
  <2>1. Switches'
    BY <1>13 DEF Moto_Detect_Timer_Callback, NoMoto, Moto_Reset,
       Disable_MotoINT, MOTO_LEFT, MOTO_RIGHT, Moto_Cycle_Done,
       Switches
  <2>2. Ranges'
    <3>1. MotoWorkFlag' \in Flags /\ drive' \in Drives
      BY <1>13 DEF Moto_Detect_Timer_Callback, NoMoto, Moto_Reset,
         Disable_MotoINT, MOTO_LEFT, MOTO_RIGHT, Moto_Cycle_Done,
         Ranges
    <3>2. timer' \in SUBSET Timers /\ firing' \in Timers \cup {"none"}
      BY <1>13 DEF Moto_Detect_Timer_Callback, NoMoto, Moto_Reset,
         Disable_MotoINT, MOTO_LEFT, MOTO_RIGHT, Moto_Cycle_Done,
         Ranges
    <3>3. pos' \in 0..Stroke /\ irq' \in SUBSET {"left", "right"}
      BY <1>13 DEF Moto_Detect_Timer_Callback, NoMoto, Moto_Reset,
         Disable_MotoINT, MOTO_LEFT, MOTO_RIGHT, Moto_Cycle_Done,
         Ranges
    <3>4. led' \in 0..3 /\ sent' \in Events \cup {"none"}
      BY <1>13 DEF Moto_Detect_Timer_Callback, NoMoto, Moto_Reset,
         Disable_MotoINT, MOTO_LEFT, MOTO_RIGHT, Moto_Cycle_Done,
         Ranges
    <3> QED
      BY <3>1, <3>2, <3>3, <3>4 DEF Ranges
  <2>3. SleepReleased' /\ GreenWhileWorking'
    BY <1>13 DEF Moto_Detect_Timer_Callback, NoMoto, Moto_Reset,
       Disable_MotoINT, MOTO_LEFT, MOTO_RIGHT, Moto_Cycle_Done,
       SleepReleased, GreenWhileWorking
  <2>4. DeadlinePending' /\ StrokeSupervised'
    BY <1>13 DEF Moto_Detect_Timer_Callback, NoMoto, Moto_Reset,
       Disable_MotoINT, MOTO_LEFT, MOTO_RIGHT, Moto_Cycle_Done,
       DeadlinePending, StrokeSupervised, EdgeAtLimit, Ranges
  <2>5. FinishFlushed' /\ EdgeAtLimit' /\ DwellFlushed'
    BY <1>13 DEF Moto_Detect_Timer_Callback, NoMoto, Moto_Reset,
       Disable_MotoINT, MOTO_LEFT, MOTO_RIGHT, Moto_Cycle_Done,
       FinishFlushed, EdgeAtLimit, DwellFlushed, Switches, Ranges
  <2> QED
    BY <2>1, <2>2, <2>3, <2>4, <2>5
<1>14. CASE MoveRight
  <2>1. Switches'
    BY <1>14 DEF MoveRight,
       Switches
  <2>2. Ranges'
    BY <1>14 DEF MoveRight,
       Ranges
  <2>3. SleepReleased' /\ GreenWhileWorking'
    BY <1>14 DEF MoveRight,
       SleepReleased, GreenWhileWorking
  <2>4. DeadlinePending' /\ StrokeSupervised'
    BY <1>14 DEF MoveRight,
       DeadlinePending, StrokeSupervised, EdgeAtLimit, Ranges
  <2>5. FinishFlushed' /\ EdgeAtLimit' /\ DwellFlushed'
    BY <1>14 DEF MoveRight,
       FinishFlushed, EdgeAtLimit, DwellFlushed, Switches, Ranges
  <2> QED
    BY <2>1, <2>2, <2>3, <2>4, <2>5
<1>15. CASE MoveLeft
  <2>1. Switches'
    BY <1>15 DEF MoveLeft,
       Switches
  <2>2. Ranges'
    BY <1>15 DEF MoveLeft,
       Ranges
  <2>3. SleepReleased' /\ GreenWhileWorking'
    BY <1>15 DEF MoveLeft,
       SleepReleased, GreenWhileWorking
  <2>4. DeadlinePending' /\ StrokeSupervised'
    BY <1>15 DEF MoveLeft,
       DeadlinePending, StrokeSupervised, EdgeAtLimit, Ranges
  <2>5. FinishFlushed' /\ EdgeAtLimit' /\ DwellFlushed'
    BY <1>15 DEF MoveLeft,
       FinishFlushed, EdgeAtLimit, DwellFlushed, Switches, Ranges
  <2> QED
    BY <2>1, <2>2, <2>3, <2>4, <2>5
<1>16. CASE LcdDelayEnds
  <2>1. Switches'
    BY <1>16 DEF LcdDelayEnds,
       Switches
  <2>2. Ranges'
    BY <1>16 DEF LcdDelayEnds,
       Ranges
  <2>3. SleepReleased' /\ GreenWhileWorking'
    BY <1>16 DEF LcdDelayEnds,
       SleepReleased, GreenWhileWorking
  <2>4. DeadlinePending' /\ StrokeSupervised'
    BY <1>16 DEF LcdDelayEnds,
       DeadlinePending, StrokeSupervised, EdgeAtLimit, Ranges
  <2>5. FinishFlushed' /\ EdgeAtLimit' /\ DwellFlushed'
    BY <1>16 DEF LcdDelayEnds,
       FinishFlushed, EdgeAtLimit, DwellFlushed, Switches, Ranges
  <2> QED
    BY <2>1, <2>2, <2>3, <2>4, <2>5
<1>17. CASE Sleep
  <2>1. Switches'
    BY <1>17 DEF Sleep,
       Switches
  <2>2. Ranges'
    BY <1>17 DEF Sleep,
       Ranges
  <2>3. SleepReleased' /\ GreenWhileWorking'
    BY <1>17 DEF Sleep,
       SleepReleased, GreenWhileWorking
  <2>4. DeadlinePending' /\ StrokeSupervised'
    BY <1>17 DEF Sleep,
       DeadlinePending, StrokeSupervised, EdgeAtLimit, Ranges
  <2>5. FinishFlushed' /\ EdgeAtLimit' /\ DwellFlushed'
    BY <1>17 DEF Sleep,
       FinishFlushed, EdgeAtLimit, DwellFlushed, Switches, Ranges
  <2> QED
    BY <2>1, <2>2, <2>3, <2>4, <2>5
<1>18. CASE UNCHANGED vars
  <2>1. Switches'
    BY <1>18 DEF vars,
       Switches
  <2>2. Ranges'
    BY <1>18 DEF vars,
       Ranges
  <2>3. SleepReleased' /\ GreenWhileWorking'
    BY <1>18 DEF vars,
       SleepReleased, GreenWhileWorking
  <2>4. DeadlinePending' /\ StrokeSupervised'
    BY <1>18 DEF vars,
       DeadlinePending, StrokeSupervised, EdgeAtLimit, Ranges
  <2>5. FinishFlushed' /\ EdgeAtLimit' /\ DwellFlushed'
    BY <1>18 DEF vars,
       FinishFlushed, EdgeAtLimit, DwellFlushed, Switches, Ranges
  <2> QED
    BY <2>1, <2>2, <2>3, <2>4, <2>5
<1> QED
  BY <1>1, <1>2, <1>3, <1>4, <1>5, <1>6, <1>7, <1>8, <1>9, <1>10,
     <1>11, <1>12, <1>13, <1>14, <1>15, <1>16, <1>17, <1>18 DEF Next, Callbacks

\* MotoInv is an invariant of the motor controller.
THEOREM MotoInvariant == Spec => []MotoInv
<1>1. Init => MotoInv
  BY MotoInit
<1>2. MotoInv /\ [Next]_vars => MotoInv'
  BY MotoStep
<1> QED
  BY <1>1, <1>2, PTL DEF Spec

\* However a cycle ends, PM_MOTO_ID is released and the device may sleep.
THEOREM SleepIsReleased == Spec => []SleepReleased
<1>1. MotoInv => SleepReleased
  BY DEF MotoInv
<1> QED
  BY <1>1, MotoInvariant, PTL

\* No phase of a cycle is ever without a pending deadline.
THEOREM PhasesHaveDeadlines == Spec => []DeadlinePending
<1>1. MotoInv => DeadlinePending
  BY DEF MotoInv
<1> QED
  BY <1>1, MotoInvariant, PTL

\* A cycle reported as complete has flushed the filter or was disturbed by the
\* dwell timer of an earlier one.
THEOREM FinishMeansFlushed == Spec => []FinishFlushed
<1>1. MotoInv => FinishFlushed
  BY DEF MotoInv
<1> QED
  BY <1>1, MotoInvariant, PTL

\* Every step of the motor is a step of Flush, or one that Flush does not see.
LEMMA MotoStepFlush == TypeOK /\ [Next]_vars => [Flushing!Next]_(Flushing!vars)
<1> SUFFICES ASSUME TypeOK, [Next]_vars PROVE [Flushing!Next]_(Flushing!vars)
  OBVIOUS
<1> DEFINE W == MotoWorkFlag \in Working
           Quiet == sent' = "none" /\ W' = W /\ UNCHANGED gates
<1>0. ASSUME Quiet PROVE Flushing!Next
  <2>1. MotoWorkStatus' \in BOOLEAN /\ LowVoltageFlag' \in BOOLEAN
    BY <1>0 DEF TypeOK, Switches
  <2> QED
    BY <1>0, <2>1 DEF Flushing!Next, Flushing!Gate
<1>1. CASE Moto_Cycle_Start
  <2>1. ~W /\ W' /\ sent' = "none" /\ UNCHANGED gates
    BY <1>1 DEF Moto_Cycle_Start, Accepts, Moto_Forward
  <2>2. ~MotoWorkStatus /\ ~LowVoltageFlag
    BY <1>1 DEF Moto_Cycle_Start, Accepts
  <2> QED
    BY <2>1, <2>2 DEF Flushing!Next, Flushing!Start, Flushing!Accepts, Flushing!gates
<1>2. CASE Moto_Cycle_Refuse
  <2>1. ~(~W /\ ~MotoWorkStatus /\ ~LowVoltageFlag)
    BY <1>2 DEF Moto_Cycle_Refuse, Accepts, TypeOK, Ranges
  <2>2. sent' = "EXIT" /\ W' = W /\ UNCHANGED gates
    BY <1>2 DEF Moto_Cycle_Refuse
  <2> QED
    BY <2>1, <2>2 DEF Flushing!Next, Flushing!Refuse, Flushing!Accepts, Flushing!gates
<1>3. CASE Moto_Pause \/ Moto_Resume \/ PowerSet
  <2>1. MotoWorkStatus' \in BOOLEAN /\ LowVoltageFlag' \in BOOLEAN
    BY <1>3 DEF Moto_Pause, Moto_Resume, PowerSet, TypeOK, Switches
  <2>2. sent' = "none" /\ W' = W
    BY <1>3 DEF Moto_Pause, Moto_Resume, PowerSet
  <2> QED
    BY <2>1, <2>2 DEF Flushing!Next, Flushing!Gate
<1>4. CASE MotoLeft_Callback
  <2>1. CASE \E hard \in BOOLEAN : MotoLeft_Done(hard)
    <3>1. W /\ ~W' /\ sent' \in {"TDS", "FINISH"}
      BY <2>1 DEF MotoLeft_Done, Moto_Halt
    <3>2. UNCHANGED gates
      BY <1>4 DEF MotoLeft_Callback
    <3> QED
      BY <3>1, <3>2 DEF Flushing!Next, Flushing!End, Flushing!Outcomes, Flushing!gates
  <2>2. CASE MotoLeft_Home
    BY <1>0, <1>4, <2>2 DEF MotoLeft_Callback, MotoLeft_Home, Moto_Halt
  <2>3. CASE MotoWorkFlag \notin {"BACK", "RESET"} /\ Silent /\ UNCHANGED <<run, power, led, TDS_Warn>>
    BY <1>0, <1>4, <2>3 DEF MotoLeft_Callback
  <2> QED
    BY <1>4, <2>1, <2>2, <2>3 DEF MotoLeft_Callback
<1>5. CASE MotoRight_Callback
  <2>1. CASE MotoWorkFlag = "FORWARD"
    <3>1. W /\ W' /\ sent' = "BACK" /\ UNCHANGED gates
      BY <1>5, <2>1 DEF MotoRight_Callback, Moto_Halt
    <3> QED
      BY <3>1 DEF Flushing!Next, Flushing!Turn, Flushing!gates
  <2>2. CASE MotoWorkFlag # "FORWARD"
    BY <1>0, <1>5, <2>2 DEF MotoRight_Callback
  <2> QED
    BY <2>1, <2>2
<1>6. CASE ADC1_IRQHandler
  BY <1>0, <1>6 DEF ADC1_IRQHandler
<1>7. CASE \E t \in Timers : Expire(t)
  BY <1>0, <1>7 DEF Expire
<1>8. CASE Moto_Cycle_Timer_Callback
  <2>1. W' /\ sent' = "none" /\ UNCHANGED gates
    BY <1>8 DEF Moto_Cycle_Timer_Callback, Moto_Back
  <2> QED
    BY <2>1 DEF Flushing!Next, Flushing!Revive, Flushing!gates
<1>9. CASE Moto_overload_delay_timer_callback
  BY <1>0, <1>9 DEF Moto_overload_delay_timer_callback
<1>10. CASE Moto_Current_Timer_Callback
  <2>1. CASE drive # "none" /\ Moto_Reset /\ sent' = "STALLING"
    <3>1. ~W' /\ sent' = "STALLING"
      BY <2>1 DEF Moto_Reset
    <3>2. UNCHANGED gates
      BY <1>10 DEF Moto_Current_Timer_Callback
    <3> QED
      BY <3>1, <3>2 DEF Flushing!Next, Flushing!End, Flushing!Outcomes, Flushing!gates
  <2>2. CASE sent' = "none" /\ UNCHANGED MotoWorkFlag
    BY <1>0, <1>10, <2>2 DEF Moto_Current_Timer_Callback
  <2> QED
    BY <1>10, <2>1, <2>2 DEF Moto_Current_Timer_Callback
<1>11. CASE Moto_Detect_Timer_Callback
  <2>1. CASE NoMoto
    <3>1. W /\ ~W' /\ sent' = "NOMOTO" /\ UNCHANGED gates
      BY <1>11, <2>1 DEF Moto_Detect_Timer_Callback, NoMoto, Moto_Reset
    <3> QED
      BY <3>1 DEF Flushing!Next, Flushing!End, Flushing!Outcomes, Flushing!gates
  <2>2. CASE ~NoMoto
    BY <1>0, <1>11, <2>2 DEF Moto_Detect_Timer_Callback
  <2> QED
    BY <2>1, <2>2
<1>12. CASE MoveRight \/ MoveLeft \/ LcdDelayEnds \/ Sleep
  BY <1>0, <1>12 DEF MoveRight, MoveLeft, LcdDelayEnds, Sleep
<1>13. CASE UNCHANGED vars
  BY <1>13 DEF vars, Flushing!vars, Flushing!gates
<1> QED
  BY <1>1, <1>2, <1>3, <1>4, <1>5, <1>6, <1>7, <1>8, <1>9, <1>10, <1>11,
     <1>12, <1>13 DEF Next, Callbacks

\* The motor controller implements its abstract specification.
THEOREM MotoImplementsFlush == Spec => ImplementsFlush
<1>1. Init => Flushing!Init
  BY DEF Init, Flushing!Init
<1>2. MotoInv => TypeOK
  BY DEF MotoInv
<1> QED
  BY <1>1, <1>2, MotoStepFlush, MotoInvariant, PTL
     DEF Spec, ImplementsFlush, Flushing!Spec
=============================================================================

-------------------------------- MODULE Moto --------------------------------
(***************************************************************************)
(* The motor that flushes the filter (applications/moto.c) together with   *)
(* the overload supervision of applications/adcwork.c.                     *)
(*                                                                         *)
(* A backwash cycle drives the plunger to its right limit, waits there,    *)
(* and drives it back to its left limit.  Four contexts share the state:   *)
(* the thread that asks for a cycle, the interrupts of the two limit       *)
(* switches, the interrupt of the analog watchdog on the motor current,    *)
(* and the timer thread that runs the callbacks of four one-shot timers.   *)
(*                                                                         *)
(* Each handler is one action.  A timer leaves the active list before its  *)
(* callback is called (rt_soft_timer_check), so expiry and callback are    *)
(* two actions: an interrupt between them can no longer stop the callback. *)
(* Time is abstracted: an active timer may expire at any moment.           *)
(***************************************************************************)
EXTENDS Naturals

CONSTANT
  Stroke      \* the right limit of the plunger's travel; the left limit is 0

ASSUME StrokeAssumption == Stroke \in Nat \ {0}

VARIABLES
  MotoWorkFlag,     \* the phase of the cycle
  MotoWorkStatus,   \* TRUE while the motor is paused (firmware update)
  LowVoltageFlag,   \* TRUE while the battery is low
  drive,            \* what MOTO_IN1 and MOTO_IN2 command
  pos,              \* where the plunger is
  irq,              \* limit switch edges whose interrupt has not run yet
  timer,            \* the active timers
  firing,           \* the expired timer whose callback has not run yet
  awd,              \* TRUE while the analog watchdog interrupt is enabled
  pmMoto,           \* PM_MOTO_ID holds a request not to sleep
  lcdBusy,          \* PM_LCD_ID delays sleep
  led,              \* the pattern led_select chose last
  TDS_Warn,         \* TRUE when the user has been warned of hard water
  sent,             \* the bit of lcd_jump_event the last step set, or "none"
  flushed,          \* history: the plunger was at its right limit since the
                    \* running (or last) cycle was accepted
  stale             \* history: Moto_Cycle_Timer of an earlier cycle was still
                    \* pending when this cycle was accepted

run == <<MotoWorkFlag, drive, timer, awd>>
plant == <<pos, irq, flushed, stale>>
gates == <<MotoWorkStatus, LowVoltageFlag>>
power == <<pmMoto, lcdBusy>>
vars == <<run, plant, gates, power, firing, led, TDS_Warn, sent>>

Flags == {"STOP", "FORWARD", "WAITBACK", "BACK", "RESET"}
Drives == {"none", "right", "left"}
Timers == {"cycle", "detect", "current", "overload"}
Outcomes == {"TDS", "STALLING", "FINISH", "NOMOTO"}
Events == Outcomes \cup {"BACK", "EXIT"}

\* The phases of a cycle under way.
Working == {"FORWARD", "WAITBACK", "BACK"}

\* A limit switch reads 0 while the plunger is on it.
MOTO_LEFT == IF pos = 0 THEN 0 ELSE 1
MOTO_RIGHT == IF pos = Stroke THEN 0 ELSE 1

\* The timer is running, or has expired and its callback is still to come.
Pending(t) == t \in timer \/ firing = t

-----------------------------------------------------------------------------
(* Moto_Run and the helpers of adcwork.c, shared by the handlers.           *)

\* Enable_MotoINT starts the delay after which the watchdog is unmasked.
Enable_MotoINT == timer' = timer \cup {"overload"}

\* Disable_MotoINT stops that delay and masks the watchdog; t are the timers
\* that are otherwise active when the handler is over.
Disable_MotoINT(t) == /\ awd' = FALSE
                      /\ timer' = t \ {"overload"}

\* Moto_Run(MOTO_STOP) and Moto_Run(MOTO_WAITBACK).
Moto_Halt(state, started) ==
  /\ MotoWorkFlag' = state
  /\ drive' = "none"
  /\ Disable_MotoINT((timer \ {"detect"}) \cup started)

\* Faulty variant: the stroke is not supervised by Moto_Detect_Timer.
Moto_Forward_NoDetect ==
  /\ MotoWorkFlag' = "FORWARD"
  /\ UNCHANGED awd
  /\ \/ /\ MOTO_RIGHT = 1
        /\ drive' = "right"
        /\ timer' = timer \cup {"overload"}
     \/ /\ MOTO_RIGHT = 0
        /\ timer' = timer \cup {"cycle"}
        /\ UNCHANGED drive

\* Faulty variant: the dwell timer is started with the stroke.
Moto_Forward_EarlyDwell ==
  /\ MotoWorkFlag' = "FORWARD"
  /\ UNCHANGED awd
  /\ \/ /\ MOTO_RIGHT = 1
        /\ drive' = "right"
        /\ timer' = timer \cup {"overload", "detect", "cycle"}
     \/ /\ MOTO_RIGHT = 0
        /\ timer' = timer \cup {"cycle"}
        /\ UNCHANGED drive

\* Moto_Run(MOTO_FORWARD).
Moto_Forward ==
  /\ MotoWorkFlag' = "FORWARD"
  /\ UNCHANGED awd
  /\ \/ /\ MOTO_RIGHT = 1
        /\ drive' = "right"
        /\ timer' = timer \cup {"overload", "detect"}
     \/ /\ MOTO_RIGHT = 0
        /\ timer' = timer \cup {"cycle"}
        /\ UNCHANGED drive

\* Faulty variant: the way back is not supervised by Moto_Detect_Timer.
Moto_Back_NoDetect ==
  /\ MotoWorkFlag' = "BACK"
  /\ UNCHANGED awd
  /\ \/ /\ MOTO_LEFT = 1
        /\ drive' = "left"
        /\ timer' = timer \cup {"overload"}
     \/ /\ MOTO_LEFT = 0
        /\ UNCHANGED <<drive, timer>>

\* Moto_Run(MOTO_BACK).
Moto_Back ==
  /\ MotoWorkFlag' = "BACK"
  /\ UNCHANGED awd
  /\ \/ /\ MOTO_LEFT = 1
        /\ drive' = "left"
        /\ timer' = timer \cup {"overload", "detect"}
     \/ /\ MOTO_LEFT = 0
        /\ UNCHANGED <<drive, timer>>

\* Moto_Run(MOTO_RESET).
Moto_Reset ==
  /\ MotoWorkFlag' = "RESET"
  /\ \/ /\ MOTO_LEFT = 1
        /\ drive' = "left"
        /\ Disable_MotoINT(timer)
     \/ /\ MOTO_LEFT = 0
        /\ UNCHANGED <<drive, timer, awd>>

\* rt_event_send to the backwash window.
Jump(e) == sent' = e
Silent == sent' = "none"

\* Faulty variant: PM_MOTO_ID is not released.
Moto_Cycle_Done_NoRelease == /\ lcdBusy' = TRUE
                             /\ UNCHANGED pmMoto

\* ScreenTimerRefresh and the release of PM_MOTO_ID.
Moto_Cycle_Done == /\ lcdBusy' = TRUE
                   /\ pmMoto' = FALSE

-----------------------------------------------------------------------------
(* Thread context.                                                          *)

Accepts == /\ ~LowVoltageFlag
           /\ ~MotoWorkStatus
           /\ MotoWorkFlag \in {"STOP", "RESET"}

\* Moto_Cycle returns RT_EOK.
Moto_Cycle_Start ==
  /\ Accepts
  /\ pmMoto' = TRUE
  /\ Moto_Forward
  /\ led' = 2
  /\ flushed' = (pos = Stroke)
  /\ stale' = Pending("cycle")
  /\ Silent
  /\ UNCHANGED <<pos, irq, gates, lcdBusy, firing, TDS_Warn>>

\* Moto_Cycle returns RT_ERROR: low voltage, paused, or working.
Moto_Cycle_Refuse ==
  /\ ~Accepts
  /\ Jump("EXIT")
  /\ UNCHANGED <<run, plant, gates, power, firing, led, TDS_Warn>>

Moto_Pause ==
  /\ MotoWorkStatus' = TRUE
  /\ Silent
  /\ UNCHANGED <<run, plant, LowVoltageFlag, power, firing, led, TDS_Warn>>

Moto_Resume ==
  /\ MotoWorkStatus' = FALSE
  /\ Silent
  /\ UNCHANGED <<run, plant, LowVoltageFlag, power, firing, led, TDS_Warn>>

\* The battery supervision of power.c.
PowerSet ==
  /\ LowVoltageFlag' = ~LowVoltageFlag
  /\ Silent
  /\ UNCHANGED <<run, plant, MotoWorkStatus, power, firing, led, TDS_Warn>>

-----------------------------------------------------------------------------
(* Interrupts.                                                              *)

\* The cycle is complete; `hard' is GetTDS() >= Setting_Hardness.  The user is
\* warned of hard water once.
MotoLeft_Done(hard) ==
  /\ MotoWorkFlag = "BACK"
  /\ led' = 3
  /\ Moto_Halt("STOP", {})
  /\ TDS_Warn' = hard
  /\ Jump(IF hard /\ ~TDS_Warn THEN "TDS" ELSE "FINISH")
  /\ Moto_Cycle_Done

MotoLeft_Home ==
  /\ MotoWorkFlag = "RESET"
  /\ Moto_Halt("STOP", {})
  /\ Silent
  /\ UNCHANGED <<power, led, TDS_Warn>>

MotoLeft_Callback ==
  /\ "left" \in irq
  /\ irq' = irq \ {"left"}
  /\ \/ \E hard \in BOOLEAN : MotoLeft_Done(hard)
     \/ MotoLeft_Home
     \/ /\ MotoWorkFlag \notin {"BACK", "RESET"}
        /\ Silent
        /\ UNCHANGED <<run, power, led, TDS_Warn>>
  /\ UNCHANGED <<pos, flushed, stale, gates, firing>>

\* Faulty variant: the dwell timer is not started at the right limit.
MotoRight_Callback_NoDwell ==
  /\ "right" \in irq
  /\ irq' = irq \ {"right"}
  /\ \/ /\ MotoWorkFlag = "FORWARD"
        /\ Jump("BACK")
        /\ Moto_Halt("WAITBACK", {})
     \/ /\ MotoWorkFlag # "FORWARD"
        /\ Silent
        /\ UNCHANGED run
  /\ UNCHANGED <<pos, flushed, stale, gates, power, firing, led, TDS_Warn>>

MotoRight_Callback ==
  /\ "right" \in irq
  /\ irq' = irq \ {"right"}
  /\ \/ /\ MotoWorkFlag = "FORWARD"
        /\ Jump("BACK")
        /\ Moto_Halt("WAITBACK", {"cycle"})
     \/ /\ MotoWorkFlag # "FORWARD"
        /\ Silent
        /\ UNCHANGED run
  /\ UNCHANGED <<pos, flushed, stale, gates, power, firing, led, TDS_Warn>>

\* Only a driven motor draws enough current to trip the watchdog.
ADC1_IRQHandler ==
  /\ awd
  /\ drive # "none"
  /\ Disable_MotoINT(timer \cup {"current"})
  /\ Silent
  /\ UNCHANGED <<MotoWorkFlag, drive, plant, gates, power, firing, led, TDS_Warn>>

-----------------------------------------------------------------------------
(* The timer thread.                                                        *)

Expire(t) ==
  /\ irq = {}
  /\ firing = "none"
  /\ t \in timer
  /\ timer' = timer \ {t}
  /\ firing' = t
  /\ Silent
  /\ UNCHANGED <<MotoWorkFlag, drive, awd, plant, gates, power, led, TDS_Warn>>

Moto_Cycle_Timer_Callback ==
  /\ firing = "cycle"
  /\ firing' = "none"
  /\ Moto_Back
  /\ Silent
  /\ UNCHANGED <<plant, gates, power, led, TDS_Warn>>

Moto_overload_delay_timer_callback ==
  /\ firing = "overload"
  /\ firing' = "none"
  /\ awd' = TRUE
  /\ Silent
  /\ UNCHANGED <<MotoWorkFlag, drive, timer, plant, gates, power, led, TDS_Warn>>

\* The first disjunct is Get_Moto_Current() >= 45: the motor stalls.
Moto_Current_Timer_Callback ==
  /\ firing = "current"
  /\ firing' = "none"
  /\ \/ /\ drive # "none"
        /\ led' = 3
        /\ Moto_Reset
        /\ Jump("STALLING")
        /\ Moto_Cycle_Done
     \/ /\ Enable_MotoINT
        /\ Silent
        /\ UNCHANGED <<MotoWorkFlag, drive, awd, led, power>>
  /\ UNCHANGED <<plant, gates, TDS_Warn>>

\* The limit of the running stroke has not been reached in time.
NoMoto == \/ MotoWorkFlag = "FORWARD" /\ MOTO_RIGHT = 1
          \/ MotoWorkFlag = "BACK" /\ MOTO_LEFT = 1

\* Faulty variant: the fault is not reported to the backwash window.
Moto_Detect_Timer_Callback_Mute ==
  /\ firing = "detect"
  /\ firing' = "none"
  /\ \/ /\ NoMoto
        /\ led' = 3
        /\ Moto_Reset
     \/ /\ ~NoMoto
        /\ UNCHANGED <<run, led>>
  /\ Silent
  /\ Moto_Cycle_Done
  /\ UNCHANGED <<plant, gates, TDS_Warn>>

Moto_Detect_Timer_Callback ==
  /\ firing = "detect"
  /\ firing' = "none"
  /\ \/ /\ NoMoto
        /\ led' = 3
        /\ Moto_Reset
        /\ Jump("NOMOTO")
     \/ /\ ~NoMoto
        /\ Silent
        /\ UNCHANGED <<run, led>>
  /\ Moto_Cycle_Done
  /\ UNCHANGED <<plant, gates, TDS_Warn>>

-----------------------------------------------------------------------------
(* The environment: the mechanics, the end of the delay of sleep, sleep.    *)
(* A pending edge interrupt waits for a handler under way at most, never    *)
(* for the plunger to move on or for a timer to expire.                     *)

MoveRight ==
  /\ irq = {}
  /\ drive = "right"
  /\ pos < Stroke
  /\ pos' = pos + 1
  /\ irq' = IF pos' = Stroke THEN {"right"} ELSE {}
  /\ flushed' = (flushed \/ pos' = Stroke)
  /\ Silent
  /\ UNCHANGED <<run, stale, gates, power, firing, led, TDS_Warn>>

MoveLeft ==
  /\ irq = {}
  /\ drive = "left"
  /\ pos > 0
  /\ pos' = pos - 1
  /\ irq' = IF pos' = 0 THEN {"left"} ELSE {}
  /\ Silent
  /\ UNCHANGED <<run, flushed, stale, gates, power, firing, led, TDS_Warn>>

LcdDelayEnds ==
  /\ lcdBusy
  /\ lcdBusy' = FALSE
  /\ Silent
  /\ UNCHANGED <<run, plant, gates, pmMoto, firing, led, TDS_Warn>>

\* The idle thread enters sleep, so no handler is under way.  BeforeSleep
\* releases the motor pins and AfterWake sets them to 0 again; waking up by a
\* key delays the next sleep.
Sleep ==
  /\ ~pmMoto /\ ~lcdBusy
  /\ irq = {} /\ firing = "none"
  /\ drive' = "none"
  /\ lcdBusy' \in BOOLEAN
  /\ Silent
  /\ UNCHANGED <<MotoWorkFlag, timer, awd, plant, gates, pmMoto, firing, led,
                 TDS_Warn>>

-----------------------------------------------------------------------------
\* Moto_Init ends with Moto_Run(MOTO_RESET), wherever the plunger was left.
Init ==
  /\ pos \in 0..Stroke
  /\ MotoWorkFlag = "RESET"
  /\ drive = IF pos = 0 THEN "none" ELSE "left"
  /\ MotoWorkStatus = FALSE /\ LowVoltageFlag \in BOOLEAN
  /\ irq = {} /\ timer = {} /\ firing = "none" /\ awd = FALSE
  /\ pmMoto = FALSE /\ lcdBusy = TRUE
  /\ led = 0 /\ TDS_Warn = FALSE /\ sent = "none"
  /\ flushed = FALSE /\ stale = FALSE

Callbacks == \/ Moto_Cycle_Timer_Callback
             \/ Moto_overload_delay_timer_callback
             \/ Moto_Current_Timer_Callback
             \/ Moto_Detect_Timer_Callback

Next ==
  \/ Moto_Cycle_Start \/ Moto_Cycle_Refuse
  \/ Moto_Pause \/ Moto_Resume \/ PowerSet
  \/ MotoLeft_Callback \/ MotoRight_Callback \/ ADC1_IRQHandler
  \/ \E t \in Timers : Expire(t)
  \/ Callbacks
  \/ MoveRight \/ MoveLeft \/ LcdDelayEnds \/ Sleep

Spec == Init /\ [][Next]_vars

\* The tick ends every active timer, the timer thread and the interrupts
\* always run.  Nothing is assumed of the mechanics.
Fairness == /\ \A t \in Timers : SF_vars(Expire(t))
            /\ WF_vars(Callbacks)
            /\ WF_vars(MotoLeft_Callback)
            /\ WF_vars(MotoRight_Callback)

FairSpec == Spec /\ Fairness

-----------------------------------------------------------------------------
(* Properties.                                                              *)

Switches ==
  /\ MotoWorkStatus \in BOOLEAN /\ LowVoltageFlag \in BOOLEAN
  /\ awd \in BOOLEAN /\ pmMoto \in BOOLEAN /\ lcdBusy \in BOOLEAN
  /\ TDS_Warn \in BOOLEAN /\ flushed \in BOOLEAN /\ stale \in BOOLEAN

Ranges ==
  /\ MotoWorkFlag \in Flags
  /\ drive \in Drives /\ pos \in 0..Stroke
  /\ irq \in SUBSET {"left", "right"}
  /\ timer \in SUBSET Timers /\ firing \in Timers \cup {"none"}
  /\ led \in 0..3
  /\ sent \in Events \cup {"none"}

TypeOK == Switches /\ Ranges

\* PM_MOTO_ID is requested in Moto_Cycle and released in handlers of three
\* other contexts: whichever handler ends the cycle, the device may sleep again.
SleepReleased == MotoWorkFlag \notin Working => ~pmMoto

\* The green light that led_select(2) turns on is never left on after a cycle
\* has ended, through whichever handler it ended.
GreenWhileWorking == led = 2 => MotoWorkFlag \in Working

\* Every phase of a cycle has a pending deadline, so that a limit switch that is
\* never reached cannot leave the motor driven for ever: the stroke and the way
\* back are timed by Moto_Detect_Timer, the dwell by Moto_Cycle_Timer.
DeadlinePending ==
  /\ MotoWorkFlag = "FORWARD" =>
       "right" \in irq \/ Pending("cycle") \/ Pending("detect")
  /\ MotoWorkFlag = "WAITBACK" => Pending("cycle")
  /\ MotoWorkFlag = "BACK" /\ drive = "left" /\ pos > 0 => Pending("detect")

\* A cycle that ends as complete (Jump_FINISH, Jump_TDS) has flushed the filter,
\* unless the dwell timer of an earlier cycle was pending when it began.
FinishFlushed == sent \in {"FINISH", "TDS"} => flushed \/ stale

\* What the changelog says of version 0.0.22: "finish" never pops up for a
\* cycle that has not been carried out.
FinishOnlyAfterFlush == sent \in {"FINISH", "TDS"} => flushed

\* The motor as the other parts see it: a request is accepted or answered with
\* EXIT, and no cycle ends without an outcome for the backwash window, however
\* threads, interrupts and timers interleave.
Flushing == INSTANCE Flush WITH working <- MotoWorkFlag \in Working
ImplementsFlush == Flushing!Spec

\* A cycle whose stroke was started by the motor and not disturbed by the dwell
\* timer of an earlier one ends with an outcome for the backwash window.
CycleReportsOutcome ==
  (MotoWorkFlag = "FORWARD" /\ drive = "right" /\ ~stale) ~> sent \in Outcomes

\* The inductive invariant behind the safety properties: an edge of the right
\* switch is pending only at the right limit; a stroke not yet at its limit and
\* not overtaken by the dwell timer is supervised and never driven left; the
\* dwell timer and the way back belong to a flushed or a disturbed cycle.
EdgeAtLimit == "right" \in irq => pos = Stroke /\ flushed

StrokeSupervised ==
  MotoWorkFlag = "FORWARD" =>
    \/ "right" \in irq
    \/ Pending("cycle")
    \/ Pending("detect") /\ pos < Stroke /\ drive # "left"

DwellFlushed == Pending("cycle") \/ MotoWorkFlag = "BACK" => flushed \/ stale

MotoInv == /\ TypeOK
           /\ SleepReleased
           /\ GreenWhileWorking
           /\ DeadlinePending
           /\ FinishFlushed
           /\ EdgeAtLimit
           /\ StrokeSupervised
           /\ DwellFlushed
=============================================================================

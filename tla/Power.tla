------------------------------- MODULE Power -------------------------------
(***************************************************************************)
(* The supply: applications/power.c.  Every two seconds the timer thread   *)
(* reads whether there is mains and how high the battery is, keeps the     *)
(* flag for a low battery with its hysteresis and reports changes of it as *)
(* a warning.  The readings are inputs.  A low battery, and a new one that *)
(* is too low, also open a message window, if the main window is on top;   *)
(* Backwash and Menu have such windows.                                    *)
(***************************************************************************)
EXTENDS Naturals

CONSTANT Volts      \* what the converter may read, about 1.6 mV each

ASSUME VoltsAssumption == Volts \subseteq Nat

VARIABLES
  Now_DC_level,     \* 1 on mains
  Now_BAT_Voltage,  \* the last reading; Past_BAT_Voltage during a callback
  LowVoltageFlag,
  warning_value     \* 8: battery low, 255: none

power == <<Now_DC_level, Now_BAT_Voltage, LowVoltageFlag, warning_value>>

LowLimit == 2860
GoodLimit == 3100
Rise == 100

\* Flash2Mem reads the flag from a key nobody writes, so that it starts as 0.
PowerInit ==
  /\ Now_DC_level = 0 /\ Now_BAT_Voltage = 0
  /\ LowVoltageFlag = 0 /\ warning_value = 255

\* A new battery: the reading has risen at once.  A good one clears the flag.
Replaced(v) ==
  /\ LowVoltageFlag = 1
  /\ IF v > Now_BAT_Voltage /\ v > Rise + Now_BAT_Voltage /\ v > GoodLimit
     THEN LowVoltageFlag' = 0 /\ warning_value' = 255
     ELSE UNCHANGED <<LowVoltageFlag, warning_value>>

Discharged(v) ==
  /\ LowVoltageFlag = 0
  /\ IF v <= LowLimit
     THEN LowVoltageFlag' = 1 /\ warning_value' = 8
     ELSE UNCHANGED <<LowVoltageFlag, warning_value>>

OnBattery(v) ==
  /\ Now_DC_level' = 0
  /\ Now_BAT_Voltage' = v
  /\ Replaced(v) \/ Discharged(v)

\* Faulty variant: the flag waits for a new battery.
OnMains_Low ==
  /\ Now_DC_level' = 1
  /\ warning_value' = 255
  /\ UNCHANGED <<Now_BAT_Voltage, LowVoltageFlag>>

OnMains ==
  /\ Now_DC_level' = 1
  /\ IF Now_DC_level = 0
     THEN LowVoltageFlag' = 0 /\ warning_value' = 255
     ELSE UNCHANGED <<LowVoltageFlag, warning_value>>
  /\ UNCHANGED Now_BAT_Voltage

PowerCallback(dc, v) ==
  IF dc THEN OnMains ELSE OnBattery(v)

PowerNext == \E dc \in BOOLEAN, v \in Volts : PowerCallback(dc, v)

PowerSpec == PowerInit /\ [][PowerNext]_power

PowerTypeOK ==
  /\ Now_DC_level \in {0, 1} /\ LowVoltageFlag \in {0, 1}
  /\ Now_BAT_Voltage \in Nat /\ warning_value \in {8, 255}

\* The motor refuses to start on a low battery (LowVoltageFlag) and the cloud is
\* told of one (insert_warning_array): the two agree, and neither outlives a
\* change to mains.
SupplyAgrees ==
  /\ warning_value = 8 <=> LowVoltageFlag = 1
  /\ Now_DC_level = 1 => LowVoltageFlag = 0
=============================================================================

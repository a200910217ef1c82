---------------------------- MODULE MCTelemetry ----------------------------
(***************************************************************************)
(* Telemetry for TLC: two threads that raise alarms and a queue of one.    *)
(***************************************************************************)
EXTENDS Telemetry

MCRaisers == {"RTC_Check", "lcd_task"}
=============================================================================

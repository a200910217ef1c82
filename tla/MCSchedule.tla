----------------------------- MODULE MCSchedule -----------------------------
(***************************************************************************)
(* Schedule for TLC: a day of one hour and a week of two days, and bounds  *)
(* on what the users, the motor and the supply do.                         *)
(***************************************************************************)
EXTENDS Schedule

MCWeeks == {0, 1}
MCChanged == {"Automatic"}
MaxHours == 2

\* The reminder is due every hour, the automatic backwash takes every period.
HourlyReminder == Enable["Reminder"] /\ Week["Reminder"] = 0 /\ Day["Reminder"] = 1

Bounded == \A p \in Timers : Time[p] <= MaxHours /\ hours[p] <= MaxHours

\* The menu and the cloud change settings one after the other.
OneEditor == \E e \in Editors : todo[e] = << >>
=============================================================================

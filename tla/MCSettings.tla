----------------------------- MODULE MCSettings -----------------------------
(***************************************************************************)
(* A small instance of Settings.                                           *)
(***************************************************************************)
EXTENDS Settings

\* The counter of errors is looked at up to MaxCount.
MaxCount == 2
CountBound == mem["Counter_Error"] <= MaxCount

\* What a device does that runs after a first boot which power failure cut is
\* not explored further: it has lost its defaults for good.
WholeBoot == cut => phase # "run"

\* The menu and the serial link change a period and its range while errors are
\* counted and the counter is cleared, and the menu can reset the device; 70 days
\* are ten weeks, which the short range of the menu does not allow.
MCThreads == {"lcd", "uart"}
MCClearers == {"lcd"}
MCSettingsTested == {"Automatic_Week", "Automatic_Day", "Time_Range",
                     "Reminder_Week", "Counter_Error"}
MCValues == {70}
=============================================================================

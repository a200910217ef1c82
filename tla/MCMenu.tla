------------------------------- MODULE MCMenu -------------------------------
(***************************************************************************)
(* An instance of Menu for TLC: every settings window but userMain5Win,    *)
(* which is userMain4Win with other variables, one of the two battery      *)
(* messages, and four windows on the stack: a counter or the factory       *)
(* reset with a pop-up above it.  Weeks run to 1 or 3 instead of 8 or 52.  *)
(***************************************************************************)
EXTENDS Menu

SettingsWindows == {2, 4} \cup (6..14) \cup (16..20) \cup {23} \cup (28..32)
PopupWindows == {0, 3, 25, 26}
TenWeeks == {<<3, 0>>}
=============================================================================

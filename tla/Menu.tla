-------------------------------- MODULE Menu --------------------------------
(***************************************************************************)
(* The settings windows of display/lcd_display.c.  All windows share one   *)
(* cursor, NowButtonId, and the two period windows (userMain4Win,          *)
(* userMain5Win) share NowSetting.  A window function draws the window and *)
(* highlights a button; an input function moves cursor and highlight and   *)
(* acts on the cursor when Enter is pressed.  Other threads push pop-ups,  *)
(* close them, redraw the window on top and change settings in between.    *)
(*                                                                         *)
(* Windows are numbered as in the source, userMain14Win is 14; the access  *)
(* point message win_wifi_connect is 0.  A pass of the lcd task holds      *)
(* lcd_mutex and is one action.  Edited values that no property looks at   *)
(* (hardness, backwash time, calibration, language, pressure switch) are   *)
(* left out, the two periods are kept.                                     *)
(***************************************************************************)
EXTENDS Naturals, SequencesExt

CONSTANTS
  Opened,      \* the windows the user opens
  Popups,      \* the windows other threads push
  MaxStack,    \* bound on the depth of the stack
  ShortWeeks,  \* 8 in the source, the last week of the short range
  LongWeeks,   \* 52
  LastDay,     \* 6
  RemotePeriods  \* weeks and days the serial link sets, not both 0

ASSUME MenuAssumption ==
  /\ MaxStack \in Nat \ {0}
  /\ Popups \subseteq {0, 3, 25, 26, 27}
  /\ LongWeeks \in Nat /\ ShortWeeks \in 1..LongWeeks /\ LastDay \in Nat \ {0}
  /\ RemotePeriods \subseteq ((0..LongWeeks) \X (0..LastDay)) \ {<<0, 0>>}

VARIABLES
  stack,           \* the window stack, the last one is on top
  drawn,           \* the window whose picture is on the display
  shown,           \* the buttons of that picture that are highlighted
  asks,            \* the picture asks for a confirmation
  NowButtonId,     \* the cursor
  NowSetting,      \* the field of a period window: week, day, enable
  Win1PageID,
  Win14PageID,
  confirmed,       \* the first of the two Enters that erase something
  temp,            \* the values being edited in a period window
  period,          \* Reminder_Week .. Automatic_Enable, by window
  Time_Range,      \* the long range of weeks is allowed
  WIFI_AP_Enable,
  call             \* what the last step called outside of the menu

gui == <<stack, drawn, shown, asks, NowButtonId, confirmed, temp>>
pages == <<NowSetting, Win1PageID, Win14PageID>>
device == <<period, Time_Range, WIFI_AP_Enable>>
vars == <<gui, pages, device, call>>

GuiGetTopWin == Last(stack)
PeriodWindows == {4, 5} \cap Opened
NoCopy == [week |-> 0, day |-> 0, enable |-> 0]
CounterWindows == 9..12
ValueWindows == {16, 17, 28, 29}     \* a value, then Save or Exit

-----------------------------------------------------------------------------
(* Drawing.                                                                 *)

\* Faulty variant: the pages of the settings entered from below do not set the
\* cursor to the entry they highlight.
Cursor_Top(w, b) ==
  CASE w = 1 -> CASE Win1PageID' = 0 -> 0 [] Win1PageID' = 1 -> b [] OTHER -> 3
    [] w \in {7, 8, 14, 16, 17, 19, 20, 28} -> 0
    [] w \in CounterWindows -> 1
    [] w = 32 -> IF WIFI_AP_Enable THEN 1 ELSE 0
    [] OTHER -> b

\* The cursor after the window function of w has run; b is the cursor before.
Cursor(w, b) ==
  CASE w = 1 -> CASE Win1PageID' = 0 -> 0 [] Win1PageID' = 1 -> b [] OTHER -> 3
    [] w \in {7, 8, 16, 17, 19, 20, 28} -> 0
    [] w \in CounterWindows -> 1
    [] w = 14 -> IF Win14PageID' < 4 THEN 0 ELSE 2
    [] w = 32 -> IF WIFI_AP_Enable THEN 1 ELSE 0
    [] OTHER -> b

\* The button the window function of w highlights, if the window has a choice.
Highlight(w) ==
  CASE w = 1 -> CASE Win1PageID' = 0 -> {0} [] Win1PageID' = 1 -> {4} [] OTHER -> {3}
    [] w \in {2, 4, 5, 7, 8, 16, 17, 19, 20, 28, 29} -> {0}
    [] w \in CounterWindows -> {1}
    [] w = 14 -> IF Win14PageID' < 4 THEN {0} ELSE {2}
    [] w = 32 -> IF WIFI_AP_Enable THEN {1} ELSE {0}
    [] OTHER -> {}

\* Faulty variant: a confirmation is still valid when the window is drawn again.
Draw_Confirmed(w) ==
  /\ drawn' = w
  /\ shown' = Highlight(w)
  /\ asks' = FALSE
  /\ confirmed' = confirmed

\* The window function of w, apart from the cursor.
Draw(w) ==
  /\ drawn' = w
  /\ shown' = Highlight(w)
  /\ asks' = FALSE
  /\ confirmed' = (confirmed /\ w \notin CounterWindows \cup {19})

\* The period windows take copies of the period; the copies of a window that is
\* no longer on top are never read again.
Copy(w) == IF w \in PeriodWindows THEN period[w] ELSE NoCopy

\* s becomes the stack and its top window is drawn; the cursor was b before.
Show(s, b) ==
  /\ stack' = s
  /\ Draw(Last(s))
  /\ temp' = Copy(Last(s))
  /\ NowButtonId' = Cursor(Last(s), b)

GuiWinAdd(w) == Len(stack) < MaxStack /\ Show(Append(stack, w), NowButtonId)

\* The last window is never deleted; only the screen is cleared then.
GuiWinDeleteTop ==
  \/ Len(stack) > 1 /\ Show(Front(stack), NowButtonId)
  \/ Len(stack) <= 1 /\ UNCHANGED gui

GuiWinReload == Show(stack, NowButtonId)

\* Window w is opened above the main window while ReloadMainWin, which has found
\* the main window on top without lcd_mutex, waits for that mutex: the main
\* window is drawn, but w is on top.
AddUnderReload(w) ==
  /\ GuiGetTopWin = 1 /\ Len(stack) < MaxStack
  /\ stack' = Append(stack, w)
  /\ Draw(1)
  /\ temp' = Copy(w)
  /\ NowButtonId' = Cursor(1, Cursor(w, NowButtonId))

\* GuiWinInit and GuiWinAdd(&userMain1Win).
Home == Show(<<1>>, NowButtonId)

\* Cursor and highlight move to button b.
Move(b) ==
  /\ NowButtonId' = b
  /\ shown' = (shown \ {NowButtonId}) \cup {b}
  /\ UNCHANGED <<stack, drawn, asks, confirmed, temp, pages>>

\* One step up or down through the buttons lo..hi, round the ends.
Wrap(up, lo, hi) ==
  IF up THEN IF NowButtonId > lo THEN NowButtonId - 1 ELSE hi
        ELSE IF NowButtonId < hi THEN NowButtonId + 1 ELSE lo

-----------------------------------------------------------------------------
(* Up and Down.                                                             *)

\* The main window: four entries on a page and Info on a page of its own, which
\* is page 1 seen from above and leads to page 2 upwards.
MainArrow(up) ==
  /\ GuiGetTopWin = 1
  /\ \/ /\ NowButtonId \in {0, 3} /\ (up <=> NowButtonId = 0)
        /\ Win1PageID' = 1
        /\ Show(stack, 4)
        /\ UNCHANGED <<NowSetting, Win14PageID>>
     \/ /\ NowButtonId = 4
        /\ Win1PageID' = IF up THEN 2 ELSE 0
        /\ Show(stack, IF up THEN 3 ELSE 5)
        /\ UNCHANGED <<NowSetting, Win14PageID>>
     \/ up /\ NowButtonId \in 1..3 /\ Move(NowButtonId - 1)
     \/ ~up /\ NowButtonId \in 0..2 /\ Move(NowButtonId + 1)

\* The settings: pages 0..3 are entered from above, 4..7 are the same pages
\* entered from below.
SettingsArrow(up) ==
  /\ GuiGetTopWin = 14
  /\ \/ /\ up /\ NowButtonId = 0
        /\ Win14PageID' = 4 + ((Win14PageID + 3) % 4)
        /\ GuiWinReload
        /\ UNCHANGED <<NowSetting, Win1PageID>>
     \/ /\ ~up /\ NowButtonId = 2
        /\ Win14PageID' = (Win14PageID + 1) % 4
        /\ GuiWinReload
        /\ UNCHANGED <<NowSetting, Win1PageID>>
     \/ up /\ NowButtonId # 0 /\ Move(NowButtonId - 1)
     \/ ~up /\ NowButtonId # 2 /\ Move(NowButtonId + 1)

\* Windows in which the keys walk through the buttons.
ListArrow(up) ==
  \/ GuiGetTopWin \in {7, 8} /\ Move(Wrap(up, 0, 3))
  \/ GuiGetTopWin \in CounterWindows /\ Move(Wrap(up, 1, 2))
  \/ GuiGetTopWin = 20 /\ Move(Wrap(up, 0, 2))
  \/ GuiGetTopWin \in {2, 19} /\ NowButtonId \in {0, 1} /\ Move(1 - NowButtonId)
  \/ GuiGetTopWin = 32 /\ Move(IF NowButtonId = 0 THEN 1 ELSE 0)
  \/ GuiGetTopWin \in ValueWindows /\ NowButtonId # 0 /\ Move(3 - NowButtonId)

\* One week or day more or less within 0..hi, round the ends.
Turn(up, n, hi) == IF up THEN IF n >= hi THEN 0 ELSE n + 1
                         ELSE IF n <= 0 THEN hi ELSE n - 1

\* Faulty variant: a period of no days is possible.
NotZero_Absent(p) == p

\* A period of no days becomes one of one day.
NotZero(p) == IF p.week = 0 /\ p.day = 0 THEN [p EXCEPT !.day = 1] ELSE p

\* UserMain4InputFun, UserMain5InputFun.
PeriodArrow(up) ==
  /\ GuiGetTopWin \in PeriodWindows
  /\ temp' =
       CASE NowSetting = 0 ->
              NotZero([temp EXCEPT !.week =
                         Turn(up, @, IF Time_Range THEN LongWeeks ELSE ShortWeeks)])
         [] NowSetting = 1 -> NotZero([temp EXCEPT !.day = Turn(up, @, LastDay)])
         [] NowSetting = 2 -> [temp EXCEPT !.enable = Turn(up, @, 2)]
  /\ UNCHANGED <<stack, drawn, shown, asks, NowButtonId, confirmed, pages>>

\* Up or Down.
Arrow(up) ==
  /\ MainArrow(up) \/ SettingsArrow(up) \/ ListArrow(up) \/ PeriodArrow(up)
  /\ call' = "none"
  /\ UNCHANGED device

\* Up closes the reminder and the battery messages.
UpCloses ==
  /\ GuiGetTopWin \in {25, 26, 27}
  /\ UNCHANGED pages
  /\ GuiWinDeleteTop
  /\ call' = "none"
  /\ UNCHANGED device

-----------------------------------------------------------------------------
(* Enter.                                                                   *)

\* What the entries of the lists open; 0 closes the list.
MainEntry == [b \in 0..4 |-> <<2, 4, 5, 6, 7>>[b + 1]]
InfoEntry == [b \in 0..3 |-> <<8, 12, 13, 0>>[b + 1]]
CounterEntry == [b \in 0..3 |-> <<9, 10, 11, 0>>[b + 1]]
SettingsEntry(p, b) ==
  << <<30, 16, 17>>, <<18, 19, 20>>, <<31, 32, 23>>, <<28, 29, 0>> >>[1 + (p % 4)][b + 1]

\* An entry of a list is opened, or the list is closed.
Open(w) ==
  \/ w = 0 /\ GuiWinDeleteTop
  \/ w \in Opened /\ GuiWinAdd(w)

MainEnter ==
  /\ GuiGetTopWin = 1
  /\ Win1PageID' = 0
  /\ UNCHANGED <<NowSetting, Win14PageID>>
  /\ LET w == MainEntry[NowButtonId] IN
       w \in Opened /\ (GuiWinAdd(w) \/ AddUnderReload(w))
  /\ call' = "none"
  /\ UNCHANGED device

\* Holding Enter in the main window opens the settings.  When the short click
\* that came before is still pending, its window is opened first.
MainLong ==
  /\ GuiGetTopWin = 1
  /\ 14 \in Opened
  /\ Win1PageID' = 0
  /\ UNCHANGED <<NowSetting, Win14PageID>>
  /\ \E s \in {stack, Append(stack, MainEntry[NowButtonId])} :
       /\ Len(s) < MaxStack /\ Last(s) \in Opened \cup {1}
       /\ Show(Append(s, 14), 0)
  /\ call' = "none"
  /\ UNCHANGED device

ListEnter ==
  /\ UNCHANGED pages
  /\ \/ GuiGetTopWin = 7 /\ Open(InfoEntry[NowButtonId])
     \/ GuiGetTopWin = 8 /\ Open(CounterEntry[NowButtonId])
  /\ call' = "none"
  /\ UNCHANGED device

\* Page and cursor go back to 0 after the window function of the window that was
\* opened has run.
SettingsEnter ==
  /\ GuiGetTopWin = 14
  /\ LET w == SettingsEntry(Win14PageID, NowButtonId) IN
       /\ w \in Opened \cup {0}
       /\ w # 0 => Len(stack) < MaxStack
       /\ stack' = IF w = 0 THEN Front(stack) ELSE Append(stack, w)
  /\ Win14PageID' = 0
  /\ NowButtonId' = 0
  /\ UNCHANGED <<NowSetting, Win1PageID>>
  /\ Draw(Last(stack'))
  /\ temp' = Copy(Last(stack'))
  /\ call' = "none"
  /\ UNCHANGED device

\* Windows Enter only closes; userMain31Win can be closed unless a download runs.
CloseEnter ==
  /\ GuiGetTopWin \in {6, 13, 18, 23, 26, 27, 30, 31}
  /\ UNCHANGED pages
  /\ GuiWinDeleteTop
  /\ call' = "none"
  /\ UNCHANGED device

\* Up and Enter pending together close two windows.
CloseTwice ==
  /\ GuiGetTopWin \in {26, 27}
  /\ Len(stack) > 2
  /\ UNCHANGED pages
  /\ Show(Front(Front(stack)), Cursor(Last(Front(stack)), NowButtonId))
  /\ call' = "none"
  /\ UNCHANGED device

\* A cycle is asked for: userMain3Win is pushed unless the motor refuses.
LcdtoBackwash ==
  \/ GuiWinAdd(3)
  \/ UNCHANGED gui

\* UserMain2InputFun and UserMain25InputFun.
FlushEnter ==
  /\ UNCHANGED <<pages, device>>
  /\ \/ GuiGetTopWin = 2 /\ NowButtonId = 0 /\ LcdtoBackwash /\ call' = "flush"
     \/ GuiGetTopWin = 2 /\ NowButtonId # 0 /\ GuiWinDeleteTop /\ call' = "none"
     \/ GuiGetTopWin = 25 /\ LcdtoBackwash /\ call' = "flush"

\* userMain3Win: EXIT from the motor closes it, Enter leads home once an outcome
\* is shown.  NowSetting keeps the value it had in a window below.
LeaveBackwash ==
  /\ GuiGetTopWin = 3
  /\ UNCHANGED pages
  /\ GuiWinDeleteTop \/ Home
  /\ call' = "none"
  /\ UNCHANGED device

\* A period window: week, day, enable, then save and close.  Exit is the third
\* choice of enable.
PeriodEnter ==
  /\ GuiGetTopWin \in PeriodWindows
  /\ UNCHANGED <<Win1PageID, Win14PageID, Time_Range, WIFI_AP_Enable>>
  /\ \/ /\ temp.enable = 2
        /\ NowSetting' = 0
        /\ GuiWinDeleteTop
        /\ call' = "none"
        /\ UNCHANGED period
     \/ /\ temp.enable # 2 /\ NowSetting < 2
        /\ NowSetting' = NowSetting + 1
        /\ shown' = {NowSetting + 1}
        /\ call' = "none"
        /\ UNCHANGED <<stack, drawn, asks, NowButtonId, confirmed, temp, period>>
     \/ /\ temp.enable # 2 /\ NowSetting = 2
        /\ NowSetting' = 0
        /\ period' = [period EXCEPT ![GuiGetTopWin] = temp]
        /\ GuiWinDeleteTop
        /\ call' = "save"

\* The first Enter on the erasing button asks, the second one erases.
Confirm(b, what) ==
  \/ /\ NowButtonId = b /\ ~confirmed
     /\ confirmed' = TRUE
     /\ asks' = TRUE
     /\ shown' = {b}
     /\ call' = "none"
     /\ UNCHANGED <<stack, drawn, NowButtonId, temp>>
  \/ /\ NowButtonId = b /\ confirmed
     /\ GuiWinDeleteTop
     /\ call' = what
  \/ /\ NowButtonId # b
     /\ GuiWinDeleteTop
     /\ call' = "none"

EraseEnter ==
  /\ UNCHANGED <<pages, device>>
  /\ \/ GuiGetTopWin \in CounterWindows /\ Confirm(1, "erase")
     \/ GuiGetTopWin = 19 /\ Confirm(0, "factory")

\* syr_range_set: a period beyond the short range is cut.
Cut(p, long) ==
  IF ~long /\ p.week > ShortWeeks + 1
    THEN [p EXCEPT !.week = ShortWeeks, !.day = LastDay - 1] ELSE p

syr_range_set(long) ==
  /\ Time_Range' = long
  /\ period' = [w \in PeriodWindows |-> Cut(period[w], long)]
  /\ UNCHANGED WIFI_AP_Enable

\* Enter fixes the value, then Save or Exit.
ValueEnter ==
  /\ GuiGetTopWin \in ValueWindows
  /\ UNCHANGED pages
  /\ \/ /\ NowButtonId = 0
        /\ NowButtonId' = 1
        /\ shown' = (shown \ {0}) \cup {1}
        /\ call' = "none"
        /\ UNCHANGED <<stack, drawn, asks, confirmed, temp, device>>
     \/ /\ NowButtonId = 1
        /\ \/ GuiGetTopWin = 28 /\ \E long \in BOOLEAN : syr_range_set(long)
           \/ GuiGetTopWin # 28 /\ UNCHANGED device
        /\ GuiWinDeleteTop
        /\ call' = "save"
     \/ /\ NowButtonId = 2
        /\ GuiWinDeleteTop
        /\ call' = "none"
        /\ UNCHANGED device

\* UserMain20InputFun: setting the language redraws the window before it is
\* closed.
LanguageEnter ==
  /\ GuiGetTopWin = 20
  /\ UNCHANGED <<pages, device>>
  /\ GuiWinDeleteTop
  /\ call' = IF NowButtonId = 2 THEN "none" ELSE "save"

\* UserMain32InputFun, ap_timeout_control.
AccessPointEnter ==
  /\ GuiGetTopWin = 32
  /\ UNCHANGED <<pages, period, Time_Range>>
  /\ WIFI_AP_Enable' = (NowButtonId = 1)
  /\ GuiWinDeleteTop
  /\ call' = "ap"

Enter ==
  \/ MainEnter \/ MainLong \/ ListEnter \/ SettingsEnter \/ CloseEnter
  \/ CloseTwice \/ FlushEnter \/ LeaveBackwash \/ PeriodEnter \/ EraseEnter
  \/ ValueEnter \/ LanguageEnter \/ AccessPointEnter

-----------------------------------------------------------------------------
(* The other threads, each under lcd_mutex.                                 *)

\* JumptoReminder, LcdtoBackwash, the battery messages, wifi_connect_win_add.
Popup(w) ==
  /\ GuiGetTopWin # w
  /\ UNCHANGED pages
  /\ GuiWinAdd(w) \/ AddUnderReload(w)
  /\ call' = "none"
  /\ UNCHANGED device

wifi_connect_win_del ==
  /\ GuiGetTopWin = 0
  /\ UNCHANGED pages
  /\ GuiWinDeleteTop
  /\ call' = "none"
  /\ UNCHANGED device

\* A setting that came over the serial link redraws the window on top, and
\* ReloadMainWin the main window if it is on top.
Refresh_Display ==
  /\ UNCHANGED pages
  /\ GuiWinReload
  /\ call' = "none"
  /\ UNCHANGED device

\* lcd_refresh_from_sleep with screen_reload set.
lcd_refresh_from_sleep ==
  /\ NowSetting' = 0
  /\ Win14PageID' = 0
  /\ UNCHANGED Win1PageID
  /\ Home
  /\ call' = "none"
  /\ UNCHANGED device

\* The serial link: range, a period, the access point; its timer clears it.
Remote ==
  /\ \/ \E long \in BOOLEAN : syr_range_set(long)
     \/ /\ \E w \in PeriodWindows, p \in RemotePeriods :
             period' = [period EXCEPT ![w].week = p[1], ![w].day = p[2]]
        /\ UNCHANGED <<Time_Range, WIFI_AP_Enable>>
     \/ WIFI_AP_Enable' \in BOOLEAN /\ UNCHANGED <<period, Time_Range>>
  /\ call' = "none"
  /\ UNCHANGED <<gui, pages>>

-----------------------------------------------------------------------------
Init ==
  /\ stack = <<1>> /\ drawn = 1 /\ shown = {0} /\ asks = FALSE
  /\ NowButtonId = 0 /\ NowSetting = 0 /\ Win1PageID = 0 /\ Win14PageID = 0
  /\ confirmed = FALSE
  /\ period = [w \in PeriodWindows |-> [week |-> 1, day |-> 0, enable |-> 0]]
  /\ temp = NoCopy
  /\ Time_Range = FALSE /\ WIFI_AP_Enable = FALSE
  /\ call = "none"

Next ==
  \/ \E up \in BOOLEAN : Arrow(up)
  \/ UpCloses \/ Enter
  \/ \E w \in Popups : Popup(w)
  \/ wifi_connect_win_del \/ Refresh_Display
  \/ lcd_refresh_from_sleep \/ Remote

Spec == Init /\ [][Next]_vars

-----------------------------------------------------------------------------
(* Properties.                                                              *)

Periods == [week : 0..LongWeeks, day : 0..LastDay, enable : 0..1]

TypeOK ==
  /\ stack \in Seq(0..32) /\ Len(stack) \in 1..MaxStack
  /\ drawn \in 0..32 /\ shown \in SUBSET (0..4) /\ asks \in BOOLEAN
  /\ NowButtonId \in 0..4 /\ NowSetting \in 0..2
  /\ Win1PageID \in 0..2 /\ Win14PageID \in 0..7
  /\ confirmed \in BOOLEAN
  /\ temp \in [week : 0..LongWeeks, day : 0..LastDay, enable : 0..2]
  /\ period \in [PeriodWindows -> Periods]
  /\ Time_Range \in BOOLEAN /\ WIFI_AP_Enable \in BOOLEAN
  /\ call \in {"none", "flush", "save", "erase", "factory", "ap"}

\* Windows whose window function sets the cursor to the button it highlights.
CursorWindows == {1, 7, 8, 14, 16, 17, 19, 20, 28} \cup CounterWindows

\* The button Enter acts on is the one that is highlighted: NowButtonId is one
\* variable for all windows, and pages, pop-ups, redraws and wake-ups move it
\* without a key.  (And every variable keeps its type.)
SelectionShown ==
  TypeOK /\ (GuiGetTopWin \in CursorWindows /\ drawn = GuiGetTopWin => shown = {NowButtonId})

\* A counter is cleared and the device is reset to its defaults only while the
\* display asks for it: the two Enters belong to one uninterrupted display of the
\* window, whatever is pushed, redrawn or closed between them.
EraseConfirmed ==
  [][call' \in {"erase", "factory"} =>
       asks /\ drawn = GuiGetTopWin /\ shown = {NowButtonId}]_vars

\* A period always has a day at least, if the serial link sets no other: week
\* and day are edited and wrapped one after the other, and each keeps the other in
\* mind.
PeriodHasDays == \A w \in PeriodWindows : period[w].week + period[w].day > 0
=============================================================================

----------------------------- MODULE MenuProofs -----------------------------
(***************************************************************************)
(* Proofs about Menu, for every depth of the stack, every range of weeks   *)
(* and days and whichever windows are in use: the button Enter acts on is  *)
(* the one that is highlighted, nothing is erased without the question on  *)
(* the display, and a period has a day.                                    *)
(***************************************************************************)
EXTENDS Menu, TLAPS

-----------------------------------------------------------------------------
(* The inductive invariant.                                                 *)

\* The windows that other threads push, or that are messages: they leave the cursor
\* alone and open no others.
Messages == {0, 3, 25, 26, 27}
Windows == 0..32

\* The stack: the main window is its root, the settings are opened from the main
\* window or from an entry of it.
MainIsRoot == stack[1] = 1 /\ \A i \in 2..Len(stack) : stack[i] # 1
SettingsAbove ==
  \A i \in 2..Len(stack) : stack[i] = 14 => stack[i - 1] \in {1, 2, 4, 5, 6, 7}
MenuStack ==
  /\ stack \in Seq(Windows) /\ Len(stack) \in 1..MaxStack
  /\ MainIsRoot /\ SettingsAbove

\* The main window does not set the cursor on its page Info, and the pressure switch
\* (29) never: they rely on the cursor being as they left it, with messages above them
\* at most.
PageKept ==
  /\ Win1PageID # 0 => \A i \in 2..Len(stack) : stack[i] \in Messages
  /\ Win1PageID = 1 => NowButtonId = 4
ValueKept ==
  \A i \in 1..Len(stack) : stack[i] = 29 =>
    /\ NowButtonId \in 0..2
    /\ \A j \in (i + 1)..Len(stack) : stack[j] \in Messages
CursorFits ==
  /\ GuiGetTopWin \in {14, 16, 17, 28} => NowButtonId \in 0..2
  /\ GuiGetTopWin \in {7, 8} => NowButtonId \in 0..3
MenuCursor ==
  /\ NowButtonId \in 0..4 /\ Win1PageID \in 0..2 /\ Win14PageID \in 0..7
  /\ PageKept /\ ValueKept /\ CursorFits

\* The picture: the highlight is the cursor, and what was confirmed once is asked for
\* on the display.
Selected ==
  GuiGetTopWin \in CursorWindows /\ drawn = GuiGetTopWin => shown = {NowButtonId}
AskedFirst ==
  GuiGetTopWin \in CounterWindows \cup {19} => drawn = GuiGetTopWin /\ (confirmed => asks)
MenuPicture == drawn \in 0..32 /\ shown \in SUBSET (0..4) /\ Selected /\ AskedFirst

KeyInv == MenuStack /\ MenuCursor /\ MenuPicture

-----------------------------------------------------------------------------
(* Drawing.                                                                 *)

\* The cursor a window function leaves.
LEMMA CursorOf ==
  ASSUME NEW w, NEW b \in 0..4
  PROVE  /\ Cursor(w, b) \in 0..4
         /\ w \in Messages \cup {2, 4, 5, 6, 29} => Cursor(w, b) = b
         /\ w \in {7, 8, 16, 17, 19, 20, 28} => Cursor(w, b) = 0
         /\ w \in CounterWindows => Cursor(w, b) = 1
         /\ w = 14 => Cursor(w, b) = IF Win14PageID' < 4 THEN 0 ELSE 2
         /\ w = 1 /\ Win1PageID' = 0 => Cursor(w, b) = 0
         /\ w = 1 /\ Win1PageID' = 1 => Cursor(w, b) = b
         /\ w = 1 /\ Win1PageID' \notin {0, 1} => Cursor(w, b) = 3
BY DEF Cursor, CounterWindows, Messages

\* The highlight it draws.
LEMMA HighlightOf ==
  ASSUME NEW w
  PROVE  /\ Highlight(w) \in SUBSET (0..4)
         /\ w \in {7, 8, 16, 17, 19, 20, 28} => Highlight(w) = {0}
         /\ w \in CounterWindows => Highlight(w) = {1}
         /\ w = 14 => Highlight(w) = IF Win14PageID' < 4 THEN {0} ELSE {2}
         /\ w = 1 /\ Win1PageID' = 0 => Highlight(w) = {0}
         /\ w = 1 /\ Win1PageID' = 1 => Highlight(w) = {4}
         /\ w = 1 /\ Win1PageID' \notin {0, 1} => Highlight(w) = {3}
BY DEF Highlight, CounterWindows

\* A window that is drawn and on top shows its cursor, and forgets a confirmation.
LEMMA ShowPicture ==
  ASSUME NEW s, NEW b \in 0..4, Show(s, b), Last(s) \in Windows,
         Last(s) = 1 /\ Win1PageID' = 1 => b = 4
  PROVE  MenuPicture'
<1> DEFINE w == Last(s)
<1>1. /\ stack' = s /\ drawn' = w /\ shown' = Highlight(w)
      /\ NowButtonId' = Cursor(w, b)
  BY DEF Show, Draw
<1>2. GuiGetTopWin' = w
  BY <1>1 DEF GuiGetTopWin
<1>3. w \in CounterWindows \cup {19} => ~confirmed'
  BY Zenon DEF Show, Draw
<1>4. w \in CursorWindows => Highlight(w) = {Cursor(w, b)}
  BY CursorOf, HighlightOf DEF CursorWindows
<1>5. Selected'
  BY <1>1, <1>2, <1>4 DEF Selected, CursorWindows, CounterWindows
<1>6. AskedFirst'
  BY <1>1, <1>2, <1>3 DEF AskedFirst, CounterWindows
<1> QED BY <1>1, <1>5, <1>6, HighlightOf DEF MenuPicture, Windows

\* Sequences: the last element, what is left without it, and one more.
LEMMA LastOf ==
  ASSUME NEW S, NEW s \in Seq(S), Len(s) >= 1
  PROVE  Last(s) = s[Len(s)] /\ Last(s) \in S /\ Len(s) \in Nat
BY DEF Last

\* The sequence without its last element.
LEMMA FrontOf ==
  ASSUME NEW S, NEW s \in Seq(S), Len(s) > 1
  PROVE  /\ Front(s) \in Seq(S) /\ Len(Front(s)) = Len(s) - 1 /\ Len(s) \in Nat
         /\ \A i \in 1..(Len(s) - 1) : Front(s)[i] = s[i]
         /\ Last(Front(s)) = s[Len(s) - 1] /\ s[Len(s) - 1] \in S
<1>1. /\ Front(s) \in Seq(S) /\ Len(Front(s)) = Len(s) - 1 /\ Len(s) \in Nat
      /\ \A i \in 1..(Len(s) - 1) : Front(s)[i] = s[i]
  BY DEF Front
<1>2. Last(Front(s)) = Front(s)[Len(s) - 1]
  BY <1>1 DEF Last
<1> QED BY <1>1, <1>2

\* The sequence with one element more.
LEMMA AppendOf ==
  ASSUME NEW S, NEW s \in Seq(S), NEW w \in S
  PROVE  /\ Append(s, w) \in Seq(S) /\ Len(Append(s, w)) = Len(s) + 1 /\ Len(s) \in Nat
         /\ \A i \in 1..Len(s) : Append(s, w)[i] = s[i]
         /\ Append(s, w)[Len(s) + 1] = w /\ Last(Append(s, w)) = w
<1>1. /\ Append(s, w) \in Seq(S) /\ Len(Append(s, w)) = Len(s) + 1 /\ Len(s) \in Nat
      /\ \A i \in 1..Len(s) : Append(s, w)[i] = s[i]
      /\ Append(s, w)[Len(s) + 1] = w
  OBVIOUS
<1> QED BY <1>1 DEF Last

\* The window on top is a window.
LEMMA TopOf ==
  ASSUME MenuStack
  PROVE  /\ Len(stack) \in Nat /\ Len(stack) >= 1 /\ Len(stack) <= MaxStack
         /\ GuiGetTopWin = stack[Len(stack)] /\ GuiGetTopWin \in Windows
<1>1. stack \in Seq(Windows) /\ Len(stack) \in Nat /\ Len(stack) >= 1 /\ Len(stack) <= MaxStack
  BY MenuAssumption DEF MenuStack
<1> QED BY <1>1, LastOf DEF GuiGetTopWin

\* Windows are closed, or none.
Shorter ==
  /\ stack' \in Seq(Windows) /\ Len(stack') \in Nat
  /\ Len(stack') >= 1 /\ Len(stack') <= Len(stack)
  /\ \A i \in 1..Len(stack') : stack'[i] = stack[i]

\* The invariant of the stack when windows are closed.
LEMMA ShorterStack ==
  ASSUME MenuStack, Shorter
  PROVE  /\ MenuStack' /\ GuiGetTopWin' = stack[Len(stack')] /\ GuiGetTopWin' \in Windows
         /\ Len(stack') = 1 => GuiGetTopWin' = 1
         /\ Len(stack') > 1 => GuiGetTopWin' # 1
<1>1. Len(stack) \in Nat /\ Len(stack) <= MaxStack
  BY TopOf
<1>2. MainIsRoot'
  BY <1>1 DEF MenuStack, MainIsRoot, Shorter
<1>3. SettingsAbove'
  BY <1>1 DEF MenuStack, SettingsAbove, Shorter
<1>4. MenuStack'
  BY <1>1, <1>2, <1>3, MenuAssumption DEF MenuStack, Shorter
<1>5. GuiGetTopWin' = stack'[Len(stack')] /\ GuiGetTopWin' \in Windows
  BY LastOf DEF GuiGetTopWin, Shorter
<1>6. Len(stack') = 1 => stack'[Len(stack')] = 1
  BY <1>2 DEF MainIsRoot
<1>7. Len(stack') > 1 => stack'[Len(stack')] # 1
  <2> HAVE Len(stack') > 1
  <2>1. Len(stack') \in 2..Len(stack')
    BY DEF Shorter
  <2> QED BY <1>2, <2>1 DEF MainIsRoot
<1> QED BY <1>4, <1>5, <1>6, <1>7 DEF Shorter

\* Window w is opened.
Longer(w) ==
  /\ w \in Windows \ {1}
  /\ w = 14 => GuiGetTopWin \in {1, 2, 4, 5, 6, 7}
  /\ Len(stack) < MaxStack /\ stack' = Append(stack, w)

\* The invariant of the stack when a window is opened.
LEMMA LongerStack ==
  ASSUME MenuStack, NEW w, Longer(w)
  PROVE  /\ MenuStack' /\ GuiGetTopWin' = w
         /\ Len(stack') = Len(stack) + 1 /\ Len(stack) \in Nat /\ stack'[Len(stack) + 1] = w
         /\ \A i \in 1..Len(stack) : stack'[i] = stack[i]
<1>1. Len(stack) \in Nat /\ Len(stack) >= 1 /\ GuiGetTopWin = stack[Len(stack)]
  BY TopOf
<1>2. w \in Windows /\ stack \in Seq(Windows) /\ stack' = Append(stack, w)
  BY DEF Longer, MenuStack
<1>3. /\ stack' \in Seq(Windows) /\ Len(stack') = Len(stack) + 1
      /\ \A i \in 1..Len(stack) : stack'[i] = stack[i]
      /\ stack'[Len(stack) + 1] = w /\ Last(stack') = w
  BY <1>2, AppendOf
<1>4. MainIsRoot'
  BY <1>1, <1>3 DEF MenuStack, MainIsRoot, Longer
<1>5. SettingsAbove'
  BY <1>1, <1>3 DEF MenuStack, SettingsAbove, Longer
<1>6. MenuStack'
  BY <1>1, <1>3, <1>4, <1>5, MenuAssumption DEF MenuStack, Longer
<1> QED BY <1>1, <1>3, <1>6 DEF GuiGetTopWin

\* With a window on top that is no message, the page Info and the pressure switch
\* are on top or left.
LEMMA OnTop ==
  ASSUME MenuStack, MenuCursor, GuiGetTopWin \notin Messages
  PROVE  /\ GuiGetTopWin # 1 => Win1PageID = 0 /\ Len(stack) > 1
         /\ GuiGetTopWin = 1 => Len(stack) = 1
         /\ GuiGetTopWin # 29 => \A i \in 1..Len(stack) : stack[i] # 29
         /\ \A i \in 1..Len(stack) : stack[i] = 29 => i = Len(stack)
<1>1. Len(stack) \in Nat /\ Len(stack) >= 1 /\ GuiGetTopWin = stack[Len(stack)]
  BY TopOf
<1>2. Len(stack) = 1 => GuiGetTopWin = 1
  BY <1>1 DEF MenuStack, MainIsRoot
<1>3. Len(stack) > 1 => GuiGetTopWin # 1 /\ Win1PageID = 0
  <2> HAVE Len(stack) > 1
  <2>1. Len(stack) \in 2..Len(stack)
    BY <1>1
  <2> QED BY <1>1, <2>1 DEF MenuStack, MainIsRoot, MenuCursor, PageKept
<1>4. ASSUME NEW i \in 1..Len(stack), stack[i] = 29 PROVE i = Len(stack)
  <2>1. \A j \in (i + 1)..Len(stack) : stack[j] \in Messages
    BY <1>4 DEF MenuCursor, ValueKept
  <2>2. i # Len(stack) => Len(stack) \in (i + 1)..Len(stack)
    BY <1>1
  <2> QED BY <1>1, <2>1, <2>2
<1>5. CASE Len(stack) = 1
  BY <1>1, <1>2, <1>4, <1>5
<1>6. CASE Len(stack) > 1
  BY <1>1, <1>3, <1>4, <1>6
<1>7. Len(stack) = 1 \/ Len(stack) > 1
  BY <1>1
<1> QED BY <1>5, <1>6, <1>7

-----------------------------------------------------------------------------
(* What keeps KeyInv: windows are closed, one is opened, the cursor moves.   *)

\* The window function of the window on top leaves a cursor that fits it.
LEMMA FitsAfter ==
  ASSUME NEW b \in 0..4, NowButtonId' = Cursor(GuiGetTopWin', b)
  PROVE  NowButtonId' \in 0..4 /\ CursorFits'
BY CursorOf DEF CursorFits

\* Windows are closed, or the one on top is drawn again; b is what the windows above
\* left of the cursor.
LEMMA ShowKeeps ==
  ASSUME KeyInv, Shorter, NEW b \in 0..4, Show(stack', b),
         UNCHANGED Win1PageID, Win14PageID' \in 0..7,
         Win1PageID = 1 => b = 4,
         \A i \in 1..Len(stack) : stack[i] = 29 => b \in 0..2
  PROVE  KeyInv'
<1> DEFINE w == GuiGetTopWin'
<1>1. /\ MenuStack' /\ w = stack[Len(stack')] /\ w \in Windows
      /\ Len(stack') = 1 => w = 1
      /\ Len(stack') > 1 => w # 1
  BY ShorterStack DEF KeyInv
<1>2. /\ Len(stack') \in Nat /\ Len(stack') >= 1 /\ Len(stack') <= Len(stack)
      /\ \A i \in 1..Len(stack') : stack'[i] = stack[i]
      /\ Len(stack) \in Nat
  BY TopOf DEF Shorter, KeyInv
<1>3. NowButtonId' = Cursor(w, b) /\ Last(stack') = w
  BY DEF Show, GuiGetTopWin
<1>4. NowButtonId' \in 0..4 /\ CursorFits'
  BY <1>3, FitsAfter
<1>5. PageKept'
  <2>1. Win1PageID # 0 => \A i \in 2..Len(stack) : stack[i] \in Messages
    BY DEF KeyInv, MenuCursor, PageKept
  <2>2. Win1PageID # 0 => w \in Messages \cup {1}
    <3>1. CASE Len(stack') = 1
      BY <1>1, <3>1
    <3>2. CASE Len(stack') > 1
      BY <1>1, <1>2, <2>1, <3>2
    <3>3. Len(stack') = 1 \/ Len(stack') > 1
      <4>1. \A n \in Nat : n >= 1 => n = 1 \/ n > 1
        OBVIOUS
      <4> QED BY <1>2, <4>1
    <3> QED BY <3>1, <3>2, <3>3
  <2>3. Win1PageID' = 1 => NowButtonId' = 4
    BY <1>3, <2>2, CursorOf
  <2> QED BY <1>2, <2>1, <2>3 DEF PageKept
<1>6. ValueKept'
  <2> SUFFICES ASSUME NEW i \in 1..Len(stack'), stack'[i] = 29
               PROVE  /\ NowButtonId' \in 0..2
                      /\ \A j \in (i + 1)..Len(stack') : stack'[j] \in Messages
    BY DEF ValueKept
  <2>1. i \in 1..Len(stack) /\ stack[i] = 29
    BY <1>2
  <2>2. \A j \in (i + 1)..Len(stack) : stack[j] \in Messages
    BY <2>1 DEF KeyInv, MenuCursor, ValueKept
  <2>3. w \in Messages \cup {29}
    <3>1. CASE i = Len(stack')
      BY <1>1, <2>1, <3>1
    <3>2. CASE i < Len(stack')
      BY <1>1, <1>2, <2>2, <3>2
    <3> QED BY <1>2, <3>1, <3>2
  <2>4. NowButtonId' = b
    BY <1>3, <2>3, CursorOf
  <2> QED BY <1>2, <2>1, <2>2, <2>4
<1>7. MenuPicture'
  BY <1>1, <1>3, ShowPicture
<1> QED BY <1>1, <1>4, <1>5, <1>6, <1>7 DEF KeyInv, MenuCursor

\* The window on top is drawn again (GuiWinReload).
LEMMA ReloadKeeps ==
  ASSUME KeyInv, GuiWinReload, UNCHANGED Win1PageID, Win14PageID' \in 0..7
  PROVE  KeyInv'
<1>1. Shorter
  BY TopOf DEF KeyInv, MenuStack, GuiWinReload, Show, Shorter
<1> QED BY <1>1, ShowKeeps DEF KeyInv, MenuCursor, PageKept, ValueKept, GuiWinReload, Show

\* The window on top is closed (GuiWinDeleteTop).
LEMMA DeleteKeeps ==
  ASSUME KeyInv, GuiWinDeleteTop, UNCHANGED <<Win1PageID, Win14PageID>>
  PROVE  KeyInv'
<1>1. CASE UNCHANGED gui
  BY <1>1 DEF gui, KeyInv, MenuStack, MainIsRoot, SettingsAbove, MenuCursor, PageKept,
              ValueKept, CursorFits, MenuPicture, Selected, AskedFirst, GuiGetTopWin
<1>2. CASE Len(stack) > 1 /\ Show(Front(stack), NowButtonId)
  <2>1. stack' = Front(stack) /\ stack \in Seq(Windows)
    BY <1>2 DEF Show, KeyInv, MenuStack
  <2>2. Shorter
    BY <1>2, <2>1, FrontOf DEF Shorter
  <2> QED BY <1>2, <2>1, <2>2, ShowKeeps DEF KeyInv, MenuCursor, PageKept, ValueKept
<1> QED BY <1>1, <1>2 DEF GuiWinDeleteTop

\* All windows but the main window are closed.
LEMMA HomeKeeps ==
  ASSUME KeyInv, Home, UNCHANGED Win1PageID, Win14PageID' \in 0..7
  PROVE  KeyInv'
<1>1. stack' = <<1>> /\ 1 \in Windows
  BY DEF Home, Show, Windows
<1>2. Shorter
  BY <1>1, TopOf DEF Shorter, KeyInv, MenuStack, MainIsRoot
<1> QED BY <1>1, <1>2, ShowKeeps DEF Home, KeyInv, MenuCursor, PageKept, ValueKept

\* A message is pushed, over whichever window.
LEMMA MessageKeeps ==
  ASSUME KeyInv, NEW w \in Messages, GuiWinAdd(w), UNCHANGED <<Win1PageID, Win14PageID>>
  PROVE  KeyInv'
<1>1. Longer(w) /\ NowButtonId \in 0..4 /\ Show(stack', NowButtonId)
  BY DEF KeyInv, MenuCursor, GuiWinAdd, Show, Longer, Messages, Windows
<1>2. /\ MenuStack' /\ GuiGetTopWin' = w
      /\ Len(stack') = Len(stack) + 1 /\ Len(stack) \in Nat /\ stack'[Len(stack) + 1] = w
      /\ \A i \in 1..Len(stack) : stack'[i] = stack[i]
  BY <1>1, LongerStack DEF KeyInv
<1>3. NowButtonId' = NowButtonId /\ CursorFits' /\ Last(stack') = w
  BY <1>1, <1>2, FitsAfter, CursorOf DEF Show, GuiGetTopWin
<1>4. PageKept'
  BY <1>2, <1>3 DEF KeyInv, MenuCursor, PageKept
<1>5. ValueKept'
  <2> SUFFICES ASSUME NEW i \in 1..Len(stack'), stack'[i] = 29
               PROVE  /\ NowButtonId' \in 0..2
                      /\ \A j \in (i + 1)..Len(stack') : stack'[j] \in Messages
    BY DEF ValueKept
  <2>1. i \in 1..Len(stack) /\ stack[i] = 29
    BY <1>2 DEF Messages
  <2>2. NowButtonId \in 0..2 /\ \A j \in (i + 1)..Len(stack) : stack[j] \in Messages
    BY <2>1 DEF KeyInv, MenuCursor, ValueKept
  <2> QED BY <1>2, <1>3, <2>1, <2>2
<1>6. MenuPicture'
  BY <1>1, <1>3, ShowPicture DEF Messages, Windows
<1> QED BY <1>1, <1>2, <1>3, <1>4, <1>5, <1>6 DEF KeyInv, MenuCursor

\* The conditions on the cursor after a window was opened over a window that is no
\* message.
LEMMA OpenedCursor ==
  ASSUME KeyInv, NEW w, Longer(w), GuiGetTopWin \notin Messages \cup {29},
         Win1PageID' = 0, w = 29 => NowButtonId' \in 0..2
  PROVE  PageKept' /\ ValueKept'
<1>1. /\ Len(stack') = Len(stack) + 1 /\ Len(stack) \in Nat /\ stack'[Len(stack) + 1] = w
      /\ \A i \in 1..Len(stack) : stack'[i] = stack[i]
  BY LongerStack DEF KeyInv
<1>2. \A i \in 1..Len(stack) : stack[i] # 29
  BY OnTop DEF KeyInv
<1> QED BY <1>1, <1>2 DEF PageKept, ValueKept

\* An entry of a list is opened.
LEMMA AddKeeps ==
  ASSUME KeyInv, NEW w \in Windows \ {1, 14, 29}, GuiWinAdd(w),
         GuiGetTopWin \notin Messages \cup {29}, Win1PageID' = 0, UNCHANGED Win14PageID
  PROVE  KeyInv'
<1>1. Longer(w) /\ NowButtonId \in 0..4 /\ Show(stack', NowButtonId)
  BY DEF KeyInv, MenuCursor, GuiWinAdd, Show, Longer
<1>2. MenuStack' /\ GuiGetTopWin' = w
  BY <1>1, LongerStack DEF KeyInv
<1>3. NowButtonId' \in 0..4 /\ CursorFits' /\ Last(stack') = w
  BY <1>1, <1>2, FitsAfter DEF Show, GuiGetTopWin
<1>4. PageKept' /\ ValueKept'
  BY <1>1, OpenedCursor
<1>5. MenuPicture'
  BY <1>1, <1>3, ShowPicture
<1> QED BY <1>2, <1>3, <1>4, <1>5 DEF KeyInv, MenuCursor

\* It is opened while the main window is drawn.
LEMMA UnderReloadKeeps ==
  ASSUME KeyInv, NEW w \in {2, 4, 5, 6, 7} \cup Messages, AddUnderReload(w),
         \/ Win1PageID' = 0
         \/ w \in Messages /\ UNCHANGED Win1PageID,
         UNCHANGED Win14PageID
  PROVE  KeyInv'
<1>1. Longer(w) /\ NowButtonId \in 0..4 /\ GuiGetTopWin = 1 /\ drawn' = 1
  BY DEF KeyInv, MenuCursor, AddUnderReload, Draw, Longer, Messages, Windows
<1>2. MenuStack' /\ GuiGetTopWin' = w /\ Len(stack') = 2 /\ stack'[1] = 1 /\ stack'[2] = w
  <2>1. Len(stack) = 1 /\ stack[1] = 1
    BY <1>1, OnTop DEF KeyInv, MenuStack, MainIsRoot, Messages
  <2> QED BY <1>1, <2>1, LongerStack DEF KeyInv
<1>3. NowButtonId' \in 0..4 /\ (Win1PageID' = 0 => NowButtonId' = 0)
  <2> DEFINE c == Cursor(w, NowButtonId)
  <2>1. c \in 0..4 /\ NowButtonId' = Cursor(1, c)
    BY <1>1, CursorOf DEF AddUnderReload
  <2> HIDE DEF c
  <2> QED BY <2>1, CursorOf
<1>4. Win1PageID' = 1 => NowButtonId' = 4
  <2> HAVE Win1PageID' = 1
  <2>1. w \in Messages /\ NowButtonId = 4
    BY DEF KeyInv, MenuCursor, PageKept
  <2> QED BY <1>1, <2>1, CursorOf DEF AddUnderReload
<1>5. PageKept' /\ ValueKept'
  BY <1>2, <1>4 DEF PageKept, ValueKept, Messages
<1>6. CursorFits'
  BY <1>2, <1>3 DEF CursorFits, Messages
<1>7. MenuPicture'
  <2>1. shown' \in SUBSET (0..4)
    BY HighlightOf DEF AddUnderReload, Draw
  <2> QED BY <1>1, <1>2, <2>1
       DEF MenuPicture, Selected, AskedFirst, CounterWindows, Messages
<1> QED BY <1>2, <1>3, <1>5, <1>6, <1>7 DEF KeyInv, MenuCursor

\* Cursor and highlight move within a window that is no message.
LEMMA MoveKeeps ==
  ASSUME KeyInv, NEW b \in 0..4, GuiGetTopWin \notin Messages,
         NowButtonId' = b, shown' = (shown \ {NowButtonId}) \cup {b},
         UNCHANGED <<stack, drawn, asks, confirmed, pages>>,
         GuiGetTopWin = 1 => Win1PageID # 1,
         GuiGetTopWin \in {14, 16, 17, 28, 29} => b \in 0..2,
         GuiGetTopWin \in {7, 8} => b \in 0..3
  PROVE  KeyInv'
<1>1. /\ stack' = stack /\ drawn' = drawn /\ Win1PageID' = Win1PageID
      /\ Win14PageID' = Win14PageID /\ GuiGetTopWin' = GuiGetTopWin
  BY DEF pages, GuiGetTopWin
<1>2. MenuStack'
  BY <1>1 DEF KeyInv, MenuStack, MainIsRoot, SettingsAbove
<1>3. PageKept'
  <2>1. Win1PageID # 1
    BY OnTop DEF KeyInv
  <2> QED BY <1>1, <2>1 DEF KeyInv, MenuCursor, PageKept
<1>4. ValueKept'
  <2>1. \A i \in 1..Len(stack) : stack[i] = 29 => GuiGetTopWin = 29
    BY OnTop DEF KeyInv
  <2> QED BY <1>1, <2>1 DEF KeyInv, MenuCursor, ValueKept
<1>5. CursorFits'
  BY <1>1 DEF CursorFits
<1>6. Selected' /\ shown' \in SUBSET (0..4)
  BY <1>1 DEF KeyInv, MenuPicture, Selected
<1>7. AskedFirst'
  BY <1>1 DEF KeyInv, MenuPicture, AskedFirst
<1> QED BY <1>1, <1>2, <1>3, <1>4, <1>5, <1>6, <1>7
     DEF KeyInv, MenuCursor, MenuPicture

\* The main window: Info and the pages around it are drawn again.
LEMMA MainArrowKeeps ==
  ASSUME KeyInv, NEW up \in BOOLEAN, MainArrow(up)
  PROVE  KeyInv'
<1>1. /\ GuiGetTopWin = 1 /\ NowButtonId \in 0..4
      /\ Win1PageID = 1 => NowButtonId = 4
      /\ Win14PageID \in 0..7
  BY DEF MainArrow, KeyInv, MenuCursor, PageKept
<1>2. ASSUME NEW b \in 0..4 \cup {5}, Show(stack, b), Win1PageID' \in 0..2,
             Win1PageID' = 1 => b = 4, UNCHANGED Win14PageID
      PROVE  KeyInv'
  <2>1. stack' = stack /\ GuiGetTopWin' = 1 /\ Last(stack) = 1 /\ NowButtonId' = Cursor(1, b)
    BY <1>1, <1>2 DEF Show, GuiGetTopWin
  <2>2. Len(stack) = 1 /\ stack[1] = 1
    BY <1>1, OnTop DEF KeyInv, MenuStack, MainIsRoot, Messages
  <2>3. MenuStack'
    BY <2>1 DEF KeyInv, MenuStack, MainIsRoot, SettingsAbove
  <2>4. /\ NowButtonId' \in 0..4 /\ shown' = {NowButtonId'} /\ drawn' = 1
        /\ Win1PageID' = 1 => NowButtonId' = 4
    <3>1. drawn' = 1 /\ shown' = Highlight(1)
      BY <1>2, <2>1 DEF Show, Draw
    <3>2. CASE Win1PageID' = 0
      BY <2>1, <3>1, <3>2, HighlightOf DEF Cursor
    <3>3. CASE Win1PageID' = 1
      BY <1>2, <2>1, <3>1, <3>3, HighlightOf DEF Cursor
    <3>4. CASE Win1PageID' = 2
      BY <2>1, <3>1, <3>4, HighlightOf DEF Cursor
    <3> QED BY <1>2, <3>2, <3>3, <3>4
  <2>5. PageKept' /\ ValueKept' /\ CursorFits'
    BY <2>1, <2>2, <2>4 DEF PageKept, ValueKept, CursorFits
  <2>6. MenuPicture'
    BY <2>1, <2>4 DEF MenuPicture, Selected, AskedFirst, CounterWindows
  <2> QED BY <1>1, <1>2, <2>3, <2>4, <2>5, <2>6 DEF KeyInv, MenuCursor
<1>3. CASE /\ Win1PageID' = 1 /\ Show(stack, 4) /\ UNCHANGED <<NowSetting, Win14PageID>>
  BY <1>2, <1>3
<1>4. CASE /\ Win1PageID' = IF up THEN 2 ELSE 0
           /\ Show(stack, IF up THEN 3 ELSE 5)
           /\ UNCHANGED <<NowSetting, Win14PageID>>
  <2>1. CASE up
    BY <1>2, <1>4, <2>1
  <2>2. CASE ~up
    BY <1>2, <1>4, <2>2
  <2> QED BY <2>1, <2>2
<1>5. CASE NowButtonId \in 1..3 /\ Move(NowButtonId - 1)
  BY <1>1, <1>5, MoveKeeps DEF Move, Messages
<1>6. CASE NowButtonId \in 0..2 /\ Move(NowButtonId + 1)
  BY <1>1, <1>6, MoveKeeps DEF Move, Messages
<1> QED BY <1>3, <1>4, <1>5, <1>6 DEF MainArrow

\* The settings: the pages are drawn again, the arrows stay within 0..2.
LEMMA SettingsArrowKeeps ==
  ASSUME KeyInv, NEW up \in BOOLEAN, SettingsArrow(up)
  PROVE  KeyInv'
<1>1. GuiGetTopWin = 14 /\ NowButtonId \in 0..2 /\ Win14PageID \in 0..7
  BY DEF SettingsArrow, KeyInv, MenuCursor, CursorFits
<1>2. CASE /\ Win14PageID' = 4 + ((Win14PageID + 3) % 4) /\ GuiWinReload
           /\ UNCHANGED <<NowSetting, Win1PageID>>
  <2>1. Win14PageID' \in 0..7
    BY <1>1, <1>2
  <2> QED BY <1>2, <2>1, ReloadKeeps
<1>3. CASE /\ Win14PageID' = (Win14PageID + 1) % 4 /\ GuiWinReload
           /\ UNCHANGED <<NowSetting, Win1PageID>>
  <2>1. Win14PageID' \in 0..7
    BY <1>1, <1>3
  <2> QED BY <1>3, <2>1, ReloadKeeps
<1>4. CASE NowButtonId # 0 /\ Move(NowButtonId - 1)
  BY <1>1, <1>4, MoveKeeps DEF Move, Messages
<1>5. CASE NowButtonId # 2 /\ Move(NowButtonId + 1)
  BY <1>1, <1>5, MoveKeeps DEF Move, Messages
<1> QED BY <1>2, <1>3, <1>4, <1>5 DEF SettingsArrow

\* The other windows with buttons.
LEMMA ListArrowKeeps ==
  ASSUME KeyInv, NEW up \in BOOLEAN, ListArrow(up)
  PROVE  KeyInv'
<1>1. NowButtonId \in 0..4
  BY DEF KeyInv, MenuCursor
<1>2. ASSUME NEW b \in 0..4, Move(b), GuiGetTopWin \notin Messages \cup {1, 14},
             GuiGetTopWin \in {16, 17, 28, 29} => b \in 0..2,
             GuiGetTopWin \in {7, 8} => b \in 0..3
      PROVE  KeyInv'
  BY <1>2, MoveKeeps DEF Move
<1>3. /\ Wrap(up, 0, 3) \in 0..4 /\ (NowButtonId \in 0..3 => Wrap(up, 0, 3) \in 0..3)
      /\ Wrap(up, 1, 2) \in 0..4 /\ Wrap(up, 0, 2) \in 0..4
  BY <1>1 DEF Wrap
<1>4. CASE GuiGetTopWin \in {7, 8} /\ Move(Wrap(up, 0, 3))
  BY <1>2, <1>3, <1>4 DEF Messages, KeyInv, MenuCursor, CursorFits
<1>5. CASE GuiGetTopWin \in CounterWindows /\ Move(Wrap(up, 1, 2))
  BY <1>2, <1>3, <1>5 DEF Messages, CounterWindows
<1>6. CASE GuiGetTopWin = 20 /\ Move(Wrap(up, 0, 2))
  BY <1>2, <1>3, <1>6 DEF Messages
<1>7. CASE GuiGetTopWin \in {2, 19} /\ NowButtonId \in {0, 1} /\ Move(1 - NowButtonId)
  BY <1>2, <1>7 DEF Messages
<1>8. CASE GuiGetTopWin = 32 /\ Move(IF NowButtonId = 0 THEN 1 ELSE 0)
  BY <1>2, <1>8 DEF Messages
<1>9. CASE GuiGetTopWin \in ValueWindows /\ NowButtonId # 0 /\ Move(3 - NowButtonId)
  <2>1. NowButtonId \in 1..2
    <3>1. CASE GuiGetTopWin = 29
      BY <1>9, <3>1, TopOf DEF KeyInv, MenuCursor, ValueKept
    <3>2. CASE GuiGetTopWin \in {16, 17, 28}
      BY <1>9, <3>2 DEF KeyInv, MenuCursor, CursorFits
    <3> QED BY <1>9, <3>1, <3>2 DEF ValueWindows
  <2> QED BY <1>2, <1>9, <2>1 DEF Messages, ValueWindows
<1> QED BY <1>4, <1>5, <1>6, <1>7, <1>8, <1>9 DEF ListArrow

-----------------------------------------------------------------------------
(* Enter and the other threads.                                             *)

\* Enter in the main window.
LEMMA MainEnterKeeps ==
  ASSUME KeyInv, MainEnter
  PROVE  KeyInv'
<1> DEFINE w == MainEntry[NowButtonId]
<1>1. /\ GuiGetTopWin = 1 /\ Win1PageID' = 0 /\ UNCHANGED Win14PageID
      /\ GuiWinAdd(w) \/ AddUnderReload(w)
  BY DEF MainEnter
<1>2. w \in {2, 4, 5, 6, 7}
  BY DEF KeyInv, MenuCursor, MainEntry
<1> HIDE DEF w
<1>3. w \in Windows \ {1, 14, 29}
  BY <1>2 DEF Windows
<1> QED BY <1>1, <1>2, <1>3, AddKeeps, UnderReloadKeeps DEF Messages

\* Enter is held: the settings, possibly over an entry.
LEMMA MainLongKeeps ==
  ASSUME KeyInv, MainLong
  PROVE  KeyInv'
<1> DEFINE w == MainEntry[NowButtonId]
<1>1. GuiGetTopWin = 1 /\ Win1PageID' = 0 /\ Win14PageID' \in 0..7
  BY DEF MainLong, KeyInv, MenuCursor
<1>2. w \in {2, 4, 5, 6, 7}
  BY DEF KeyInv, MenuCursor, MainEntry
<1>3. Len(stack) = 1 /\ stack[1] = 1 /\ stack \in Seq(Windows)
  BY <1>1, OnTop DEF KeyInv, MenuStack, MainIsRoot, Messages
<1>4. PICK s \in {stack, Append(stack, w)} : Len(s) < MaxStack /\ Show(Append(s, 14), 0)
  BY DEF MainLong
<1> HIDE DEF w
<1>5. /\ stack' \in Seq(Windows) /\ Len(stack') \in 1..MaxStack
      /\ \/ Len(stack') = 2 /\ stack'[1] = 1 /\ stack'[2] = 14
         \/ Len(stack') = 3 /\ stack'[1] = 1 /\ stack'[2] = w /\ stack'[3] = 14
  <2>1. stack' = Append(s, 14) /\ 14 \in Windows /\ w \in Windows
    BY <1>2, <1>4 DEF Show, Windows
  <2>2. /\ s \in Seq(Windows) /\ s[1] = 1
        /\ Len(s) = 1 \/ (Len(s) = 2 /\ s[2] = w)
    <3>1. CASE s = stack
      BY <1>3, <3>1
    <3>2. CASE s = Append(stack, w)
      <4>1. s \in Seq(Windows) /\ Len(s) = Len(stack) + 1
        BY <1>3, <2>1, <3>2, AppendOf
      <4>2. /\ \A i \in 1..Len(stack) : s[i] = stack[i]
            /\ s[Len(stack) + 1] = w
        <5>1. stack \in Seq(Windows) /\ w \in Windows
          BY <1>3, <2>1
        <5> QED BY <3>2, <5>1, AppendOf
      <4>3. s[1] = stack[1] /\ s[2] = w
        BY <1>3, <4>2
      <4> QED BY <1>3, <4>1, <4>3
    <3> QED BY <1>4, <3>1, <3>2
  <2>3. /\ stack' \in Seq(Windows) /\ Len(stack') = Len(s) + 1
        /\ stack'[1] = s[1] /\ stack'[Len(s) + 1] = 14
        /\ Len(s) = 2 => stack'[2] = s[2]
    BY <2>1, <2>2, AppendOf
  <2>4. Len(stack') \in 1..MaxStack
    BY <1>4, <2>2, <2>3, MenuAssumption
  <2>5. CASE Len(s) = 1
    BY <2>2, <2>3, <2>4, <2>5
  <2>6. CASE Len(s) = 2
    BY <2>2, <2>3, <2>4, <2>6
  <2> QED BY <2>2, <2>5, <2>6
<1>6. GuiGetTopWin' = 14 /\ Last(stack') = 14
  BY <1>5 DEF GuiGetTopWin, Last
<1>7. MenuStack'
  BY <1>2, <1>5 DEF MenuStack, MainIsRoot, SettingsAbove
<1>8. Show(stack', 0) /\ NowButtonId' = Cursor(14, 0)
  <2>1. stack' = Append(s, 14)
    BY <1>4 DEF Show
  <2> QED BY <1>4, <1>6, <2>1 DEF Show
<1>9. NowButtonId' \in 0..4 /\ CursorFits'
  BY <1>6, <1>8, FitsAfter
<1>10. PageKept' /\ ValueKept'
  <2>1. \A i \in 1..Len(stack') : stack'[i] # 29
    BY <1>2, <1>5
  <2> QED BY <1>1, <2>1 DEF PageKept, ValueKept
<1>11. MenuPicture'
  BY <1>6, <1>8, ShowPicture DEF Windows
<1> QED BY <1>1, <1>7, <1>9, <1>10, <1>11 DEF KeyInv, MenuCursor

\* Info and the counters.
LEMMA ListEnterKeeps ==
  ASSUME KeyInv, ListEnter
  PROVE  KeyInv'
<1>1. GuiGetTopWin \in {7, 8} /\ UNCHANGED <<Win1PageID, Win14PageID>>
  BY DEF ListEnter, pages
<1>2. NowButtonId \in 0..3 /\ Win1PageID' = 0
  BY <1>1, OnTop DEF KeyInv, MenuCursor, CursorFits, Messages
<1>3. PICK w \in {0, 8, 9, 10, 11, 12, 13} : Open(w)
  <2>1. InfoEntry[NowButtonId] \in {8, 12, 13, 0} /\ CounterEntry[NowButtonId] \in {9, 10, 11, 0}
    BY <1>2 DEF InfoEntry, CounterEntry
  <2> QED BY <2>1 DEF ListEnter
<1>4. CASE GuiWinDeleteTop
  BY <1>1, <1>4, DeleteKeeps
<1>5. CASE GuiWinAdd(w) /\ w = 0
  BY <1>1, <1>5, MessageKeeps DEF Messages
<1>6. CASE GuiWinAdd(w) /\ w # 0
  <2>1. w \in Windows \ {1, 14, 29}
    BY <1>6 DEF Windows
  <2> QED BY <1>1, <1>2, <1>6, <2>1, AddKeeps DEF Messages
<1> QED BY <1>3, <1>4, <1>5, <1>6 DEF Open

\* The settings: cursor and page go back to 0.
LEMMA SettingsEnterKeeps ==
  ASSUME KeyInv, SettingsEnter
  PROVE  KeyInv'
<1> DEFINE w == SettingsEntry(Win14PageID, NowButtonId)
<1>1. /\ GuiGetTopWin = 14 /\ NowButtonId' = 0 /\ Win14PageID' = 0
      /\ Win1PageID' = Win1PageID /\ Draw(GuiGetTopWin')
      /\ w # 0 => Len(stack) < MaxStack
      /\ stack' = IF w = 0 THEN Front(stack) ELSE Append(stack, w)
  BY DEF SettingsEnter, GuiGetTopWin
<1>2. Win1PageID = 0 /\ Len(stack) > 1 /\ \A i \in 1..Len(stack) : stack[i] # 29
  BY <1>1, OnTop DEF KeyInv, Messages
<1>3. w \in {0, 16, 17, 18, 19, 20, 23, 28, 29, 30, 31, 32}
  <2>1. NowButtonId \in 0..2 /\ Win14PageID \in 0..7
    BY <1>1 DEF KeyInv, MenuCursor, CursorFits
  <2>2. Win14PageID % 4 \in 0..3
    BY <2>1
  <2> QED BY <2>1, <2>2 DEF SettingsEntry
<1> HIDE DEF w
<1>4. /\ MenuStack' /\ PageKept' /\ ValueKept'
      /\ GuiGetTopWin' \in {1, 2, 4, 5, 6, 7, 16, 17, 18, 19, 20, 23, 28, 29, 30, 31, 32}
  <2>1. CASE w = 0
    <3>1. stack' = Front(stack) /\ stack \in Seq(Windows)
      BY <1>1, <2>1 DEF KeyInv, MenuStack
    <3>2. Shorter
      BY <1>2, <3>1, FrontOf DEF Shorter
    <3>3. /\ Len(stack') = Len(stack) - 1 /\ Len(stack) \in Nat
          /\ \A i \in 1..Len(stack') : stack'[i] = stack[i]
      BY <1>2, <3>1, FrontOf
    <3>4. GuiGetTopWin' = stack[Len(stack) - 1] /\ MenuStack'
      BY <3>2, <3>3, ShorterStack DEF KeyInv
    <3>5. stack[Len(stack) - 1] \in {1, 2, 4, 5, 6, 7}
      BY <1>1, <1>2, TopOf DEF KeyInv, MenuStack, SettingsAbove
    <3>6. PageKept' /\ ValueKept'
      BY <1>1, <1>2, <3>3 DEF PageKept, ValueKept
    <3> QED BY <3>4, <3>5, <3>6
  <2>2. CASE w # 0
    <3>1. Longer(w)
      BY <1>1, <1>3, <2>2 DEF Longer, Windows
    <3>2. MenuStack' /\ GuiGetTopWin' = w
      BY <3>1, LongerStack DEF KeyInv
    <3>3. PageKept' /\ ValueKept'
      BY <1>1, <1>2, <3>1, OpenedCursor DEF Messages
    <3> QED BY <1>3, <2>2, <3>2, <3>3
  <2> QED BY <2>1, <2>2
<1>5. CursorFits'
  BY <1>1 DEF CursorFits
<1>6. MenuPicture'
  <2>1. shown' = Highlight(GuiGetTopWin') /\ drawn' = GuiGetTopWin'
    BY <1>1 DEF Draw
  <2>2. GuiGetTopWin' = 19 => ~confirmed'
    BY <1>1, Zenon DEF Draw
  <2>3. Selected'
    BY <1>1, <1>2, <1>4, <2>1, HighlightOf DEF Selected, CursorWindows, CounterWindows
  <2>4. AskedFirst'
    BY <1>4, <2>1, <2>2 DEF AskedFirst, CounterWindows
  <2> QED BY <1>4, <2>1, <2>3, <2>4, HighlightOf DEF MenuPicture
<1> QED BY <1>1, <1>2, <1>4, <1>5, <1>6 DEF KeyInv, MenuCursor

\* Two windows are closed: the one in between may have set the cursor.
LEMMA CloseTwiceKeeps ==
  ASSUME KeyInv, CloseTwice
  PROVE  KeyInv'
<1> DEFINE f == Front(stack)
           w == stack[Len(stack) - 1]
           b == Cursor(w, NowButtonId)
<1>1. /\ stack \in Seq(Windows) /\ Len(stack) > 2 /\ Len(stack) \in Nat
      /\ UNCHANGED <<Win1PageID, Win14PageID>>
      /\ Show(Front(f), Cursor(Last(f), NowButtonId))
  BY TopOf DEF CloseTwice, pages, KeyInv, MenuStack
<1>2. /\ f \in Seq(Windows) /\ Len(f) = Len(stack) - 1 /\ Last(f) = w
      /\ \A i \in 1..Len(f) : f[i] = stack[i]
  BY <1>1, FrontOf
<1> HIDE DEF f
<1>3. /\ Front(f) \in Seq(Windows) /\ Len(Front(f)) = Len(f) - 1
      /\ \A i \in 1..(Len(f) - 1) : Front(f)[i] = f[i]
  BY <1>1, <1>2, FrontOf
<1>4. stack' = Front(f) /\ Show(stack', b)
  BY <1>1, <1>2 DEF Show
<1>5. Shorter
  BY <1>1, <1>2, <1>3, <1>4 DEF Shorter
<1>6. /\ NowButtonId \in 0..4 /\ Win14PageID' \in 0..7
      /\ w \in Messages => b = NowButtonId
      /\ w = 29 => b = NowButtonId
  BY <1>1, CursorOf DEF KeyInv, MenuCursor
<1>7. b \in 0..4
  BY <1>6, CursorOf
<1>8. Win1PageID = 1 => b = 4
  BY <1>1, <1>6 DEF KeyInv, MenuCursor, PageKept
<1>9. ASSUME NEW i \in 1..Len(stack), stack[i] = 29 PROVE b \in 0..2
  <2>1. NowButtonId \in 0..2 /\ \A j \in (i + 1)..Len(stack) : stack[j] \in Messages
    BY <1>9 DEF KeyInv, MenuCursor, ValueKept
  <2>2. i # Len(stack)
    BY <1>9, TopOf DEF KeyInv, CloseTwice
  <2>3. CASE i = Len(stack) - 1
    BY <1>6, <1>9, <2>1, <2>3
  <2>4. CASE i < Len(stack) - 1
    <3>1. w \in Messages
      BY <1>1, <2>1, <2>4
    <3> QED BY <1>6, <2>1, <3>1
  <2> QED BY <1>1, <2>2, <2>3, <2>4
<1> HIDE DEF b
<1> QED BY <1>1, <1>4, <1>5, <1>6, <1>7, <1>8, <1>9, ShowKeeps

\* Enter in a period window: the next field, or the window is closed.
LEMMA PeriodEnterKeeps ==
  ASSUME KeyInv, NowSetting \in 0..2, PeriodEnter
  PROVE  KeyInv'
<1>1. GuiGetTopWin \in {4, 5} /\ UNCHANGED <<Win1PageID, Win14PageID>>
  BY DEF PeriodEnter, PeriodWindows
<1>2. CASE GuiWinDeleteTop
  BY <1>1, <1>2, DeleteKeeps
<1>3. CASE /\ NowSetting < 2 /\ shown' = {NowSetting + 1}
           /\ UNCHANGED <<stack, drawn, asks, NowButtonId, confirmed>>
  <2>1. MenuStack' /\ MenuCursor' /\ GuiGetTopWin' \in {4, 5}
    BY <1>1, <1>3 DEF KeyInv, MenuStack, MainIsRoot, SettingsAbove, MenuCursor, PageKept,
                      ValueKept, CursorFits, GuiGetTopWin
  <2>2. MenuPicture'
    BY <1>3, <2>1 DEF KeyInv, MenuPicture, Selected, AskedFirst, CursorWindows, CounterWindows
  <2> QED BY <2>1, <2>2 DEF KeyInv
<1> QED BY <1>2, <1>3 DEF PeriodEnter

\* The first Enter on an erasing button asks; the second one closes the window.
LEMMA EraseEnterKeeps ==
  ASSUME KeyInv, EraseEnter
  PROVE  KeyInv'
<1>1. GuiGetTopWin \in CounterWindows \cup {19} /\ UNCHANGED <<Win1PageID, Win14PageID>>
  BY DEF EraseEnter, pages
<1>2. CASE GuiWinDeleteTop
  BY <1>1, <1>2, DeleteKeeps
<1>3. ASSUME NEW b \in {0, 1}, NowButtonId = b, asks' = TRUE, shown' = {b},
             UNCHANGED <<stack, drawn, NowButtonId>>
      PROVE  KeyInv'
  <2>1. MenuStack' /\ MenuCursor' /\ GuiGetTopWin' = GuiGetTopWin
    BY <1>1, <1>3 DEF KeyInv, MenuStack, MainIsRoot, SettingsAbove, MenuCursor, PageKept,
                      ValueKept, CursorFits, GuiGetTopWin
  <2>2. Selected' /\ drawn' \in 0..32 /\ shown' \in SUBSET (0..4)
    BY <1>3, <2>1 DEF KeyInv, MenuPicture, Selected
  <2>3. AskedFirst'
    BY <1>3, <2>1 DEF KeyInv, MenuPicture, AskedFirst
  <2> QED BY <2>1, <2>2, <2>3 DEF KeyInv, MenuPicture
<1>4. CASE Confirm(1, "erase")
  BY <1>2, <1>3, <1>4 DEF Confirm
<1>5. CASE Confirm(0, "factory")
  BY <1>2, <1>3, <1>5 DEF Confirm
<1> QED BY <1>4, <1>5 DEF EraseEnter

\* A value is fixed, then saved or not.
LEMMA ValueEnterKeeps ==
  ASSUME KeyInv, ValueEnter
  PROVE  KeyInv'
<1>1. GuiGetTopWin \in ValueWindows /\ UNCHANGED pages
  BY DEF ValueEnter
<1>2. CASE GuiWinDeleteTop
  BY <1>1, <1>2, DeleteKeeps DEF pages
<1>3. CASE /\ NowButtonId = 0 /\ NowButtonId' = 1 /\ shown' = (shown \ {0}) \cup {1}
           /\ UNCHANGED <<stack, drawn, asks, confirmed>>
  BY <1>1, <1>3, MoveKeeps DEF ValueWindows, Messages
<1> QED BY <1>2, <1>3 DEF ValueEnter

\* Nothing of the picture, the stack and the cursor changes.
LEMMA SameKeeps ==
  ASSUME KeyInv, UNCHANGED <<stack, drawn, shown, asks, NowButtonId, confirmed, pages>>
  PROVE  KeyInv'
BY DEF pages, KeyInv, MenuStack, MainIsRoot, SettingsAbove, MenuCursor, PageKept,
       ValueKept, CursorFits, MenuPicture, Selected, AskedFirst, GuiGetTopWin

\* Every Enter.
LEMMA EnterKeeps ==
  ASSUME KeyInv, NowSetting \in 0..2, Enter
  PROVE  KeyInv'
<1>1. CASE MainEnter
  BY <1>1, MainEnterKeeps
<1>2. CASE MainLong
  BY <1>2, MainLongKeeps
<1>3. CASE ListEnter
  BY <1>3, ListEnterKeeps
<1>4. CASE SettingsEnter
  BY <1>4, SettingsEnterKeeps
<1>5. CASE CloseEnter
  BY <1>5, DeleteKeeps DEF CloseEnter, pages
<1>6. CASE CloseTwice
  BY <1>6, CloseTwiceKeeps
<1>7. CASE FlushEnter
  <2>1. UNCHANGED pages
    BY <1>7 DEF FlushEnter
  <2>2. CASE LcdtoBackwash
    <3>1. CASE GuiWinAdd(3)
      BY <2>1, <3>1, MessageKeeps DEF Messages, pages
    <3>2. CASE UNCHANGED gui
      BY <2>1, <3>2, SameKeeps DEF gui
    <3> QED BY <2>2, <3>1, <3>2 DEF LcdtoBackwash
  <2>3. CASE GuiWinDeleteTop
    BY <2>1, <2>3, DeleteKeeps DEF pages
  <2> QED BY <1>7, <2>2, <2>3 DEF FlushEnter
<1>8. CASE LeaveBackwash
  BY <1>8, DeleteKeeps, HomeKeeps DEF LeaveBackwash, pages, KeyInv, MenuCursor
<1>9. CASE PeriodEnter
  BY <1>9, PeriodEnterKeeps
<1>10. CASE EraseEnter
  BY <1>10, EraseEnterKeeps
<1>11. CASE ValueEnter
  BY <1>11, ValueEnterKeeps
<1>12. CASE LanguageEnter
  BY <1>12, DeleteKeeps DEF LanguageEnter, pages
<1>13. CASE AccessPointEnter
  BY <1>13, DeleteKeeps DEF AccessPointEnter, pages
<1> QED BY <1>1, <1>2, <1>3, <1>4, <1>5, <1>6, <1>7, <1>8, <1>9, <1>10, <1>11, <1>12,
           <1>13 DEF Enter

\* A pop-up of another thread.
LEMMA PopupKeeps ==
  ASSUME KeyInv, NEW w \in Popups, Popup(w)
  PROVE  KeyInv'
<1>1. w \in Messages /\ UNCHANGED pages /\ (GuiWinAdd(w) \/ AddUnderReload(w))
  BY MenuAssumption DEF Popup, Messages
<1> QED BY <1>1, MessageKeeps, UnderReloadKeeps DEF pages

\* Every step.
LEMMA StepKeeps ==
  ASSUME KeyInv, NowSetting \in 0..2, [Next]_vars
  PROVE  KeyInv'
<1>1. ASSUME NEW up \in BOOLEAN, Arrow(up) PROVE KeyInv'
  <2>1. CASE PeriodArrow(up)
    BY <2>1, SameKeeps DEF PeriodArrow
  <2> QED BY <1>1, <2>1, MainArrowKeeps, SettingsArrowKeeps, ListArrowKeeps DEF Arrow
<1>2. CASE UpCloses
  BY <1>2, DeleteKeeps DEF UpCloses, pages
<1>3. CASE Enter
  BY <1>3, EnterKeeps
<1>4. CASE \E w \in Popups : Popup(w)
  BY <1>4, PopupKeeps
<1>5. CASE wifi_connect_win_del
  BY <1>5, DeleteKeeps DEF wifi_connect_win_del, pages
<1>6. CASE Refresh_Display
  BY <1>6, ReloadKeeps DEF Refresh_Display, pages, KeyInv, MenuCursor
<1>7. CASE lcd_refresh_from_sleep
  BY <1>7, HomeKeeps DEF lcd_refresh_from_sleep
<1>8. CASE Remote
  BY <1>8, SameKeeps DEF Remote, gui
<1>9. CASE UNCHANGED vars
  BY <1>9, SameKeeps DEF vars, gui
<1> QED BY <1>1, <1>2, <1>3, <1>4, <1>5, <1>6, <1>7, <1>8, <1>9 DEF Next

-----------------------------------------------------------------------------
(* The periods.                                                             *)

Copies == [week : 0..LongWeeks, day : 0..LastDay, enable : 0..2]
HasDays(p) == p.week + p.day > 0

\* What is edited has days as well, or saving it would set a period of none.
EditInv ==
  /\ NowSetting \in 0..2 /\ temp \in Copies /\ period \in [PeriodWindows -> Periods]
  /\ GuiGetTopWin \in PeriodWindows => HasDays(temp)
  /\ \A w \in PeriodWindows : HasDays(period[w])

\* A copy has the days of the period it is taken of.
LEMMA CopyOf ==
  ASSUME EditInv, NEW w
  PROVE  Copy(w) \in Copies /\ (w \in PeriodWindows => HasDays(Copy(w)))
<1>1. CASE w \in PeriodWindows
  <2>1. period[w] \in Periods /\ HasDays(period[w])
    BY <1>1 DEF EditInv
  <2> QED BY <1>1, <2>1 DEF Copy, Copies, Periods
<1>2. CASE w \notin PeriodWindows
  BY <1>2, MenuAssumption DEF Copy, NoCopy, Copies
<1> QED BY <1>1, <1>2

\* One more or one less, round the ends.
LEMMA TurnOf ==
  ASSUME NEW up \in BOOLEAN, NEW top \in Nat, NEW hi \in 0..top, NEW n \in 0..top
  PROVE  Turn(up, n, hi) \in 0..top
BY DEF Turn

\* A period of no days becomes one of a day.
LEMMA NotZeroOf ==
  ASSUME NEW p \in Copies
  PROVE  NotZero(p) \in Copies /\ HasDays(NotZero(p))
<1>1. p.week \in 0..LongWeeks /\ p.day \in 0..LastDay /\ p.enable \in 0..2
  BY DEF Copies
<1>2. CASE p.week = 0 /\ p.day = 0
  BY <1>1, <1>2, MenuAssumption DEF NotZero, Copies, HasDays
<1>3. CASE ~(p.week = 0 /\ p.day = 0)
  BY <1>1, <1>3, MenuAssumption DEF NotZero, Copies, HasDays
<1> QED BY <1>2, <1>3

\* A period that is cut keeps the weeks of the short range.
LEMMA CutOf ==
  ASSUME NEW p \in Periods, NEW long, HasDays(p)
  PROVE  Cut(p, long) \in Periods /\ HasDays(Cut(p, long))
<1>1. p.week \in 0..LongWeeks /\ p.day \in 0..LastDay /\ p.enable \in 0..1
  BY DEF Periods
<1>2. CASE ~long /\ p.week > ShortWeeks + 1
  <2>1. /\ ShortWeeks \in 0..LongWeeks /\ LastDay - 1 \in 0..LastDay
        /\ ShortWeeks + (LastDay - 1) > 0
    BY MenuAssumption
  <2>2. Cut(p, long) = [p EXCEPT !.week = ShortWeeks, !.day = LastDay - 1]
    BY <1>2 DEF Cut
  <2> QED BY <2>1, <2>2 DEF Periods, HasDays
<1>3. CASE ~(~long /\ p.week > ShortWeeks + 1)
  BY <1>3 DEF Cut
<1> QED BY <1>2, <1>3

\* How a step may treat the copy and the periods.
CopyStep ==
  \/ temp' = Copy(GuiGetTopWin')
  \/ temp' = temp /\ stack' = stack
  \/ /\ stack' = stack /\ temp' \in Copies
     /\ GuiGetTopWin \in PeriodWindows => HasDays(temp')
PeriodStep ==
  /\ period' \in [PeriodWindows -> Periods]
  /\ \A w \in PeriodWindows : HasDays(period'[w])

\* Such a step keeps EditInv.
LEMMA EditKept ==
  ASSUME EditInv, CopyStep, PeriodStep, NowSetting' \in 0..2
  PROVE  EditInv'
<1>1. temp' \in Copies /\ (GuiGetTopWin' \in PeriodWindows => HasDays(temp'))
  <2>1. CASE temp' = Copy(GuiGetTopWin')
    BY <2>1, CopyOf
  <2>2. CASE temp' = temp /\ stack' = stack
    BY <2>2 DEF EditInv, GuiGetTopWin
  <2>3. CASE /\ stack' = stack /\ temp' \in Copies
             /\ GuiGetTopWin \in PeriodWindows => HasDays(temp')
    BY <2>3 DEF GuiGetTopWin
  <2> QED BY <2>1, <2>2, <2>3 DEF CopyStep
<1>2. PeriodWindows' = PeriodWindows /\ Periods' = Periods /\ Copies' = Copies
  BY DEF PeriodWindows, Periods, Copies
<1> QED BY <1>1, <1>2 DEF EditInv, PeriodStep, HasDays

\* Windows are drawn with a copy.
LEMMA DrawnCopies ==
  ASSUME NEW s, NEW b, Show(s, b)
  PROVE  CopyStep
BY DEF Show, CopyStep, GuiGetTopWin

\* So do the functions of the window manager.
LEMMA GuiCopies ==
  /\ GuiWinDeleteTop => CopyStep
  /\ GuiWinReload => CopyStep
  /\ Home => CopyStep
  /\ UNCHANGED gui => CopyStep
  /\ \A w : GuiWinAdd(w) => CopyStep
<1>1. UNCHANGED gui => CopyStep
  BY DEF gui, CopyStep
<1> QED BY <1>1, DrawnCopies DEF GuiWinDeleteTop, GuiWinReload, Home, GuiWinAdd

\* And the window that is opened while the main window is drawn.
LEMMA ReloadCopies ==
  ASSUME MenuStack, NEW w \in Windows, AddUnderReload(w)
  PROVE  CopyStep
<1>1. stack \in Seq(Windows) /\ stack' = Append(stack, w) /\ temp' = Copy(w)
  BY DEF MenuStack, AddUnderReload
<1>2. GuiGetTopWin' = w
  BY <1>1, AppendOf DEF GuiGetTopWin
<1> QED BY <1>1, <1>2 DEF CopyStep

\* The arrows of a period window.
LEMMA ArrowCopies ==
  ASSUME EditInv, Time_Range \in BOOLEAN, NEW up \in BOOLEAN, PeriodArrow(up)
  PROVE  CopyStep
<1> DEFINE hi == IF Time_Range THEN LongWeeks ELSE ShortWeeks
<1>1. /\ stack' = stack /\ temp \in Copies /\ HasDays(temp)
      /\ temp.week \in 0..LongWeeks /\ temp.day \in 0..LastDay /\ temp.enable \in 0..2
  BY DEF PeriodArrow, EditInv, Copies
<1>2. hi \in 0..LongWeeks /\ LongWeeks \in Nat /\ LastDay \in Nat
  BY MenuAssumption
<1>3. CASE NowSetting = 0
  <2>1. temp' = NotZero([temp EXCEPT !.week = Turn(up, @, hi)])
    BY <1>3 DEF PeriodArrow
  <2>2. Turn(up, temp.week, hi) \in 0..LongWeeks
    BY <1>1, <1>2, TurnOf
  <2>3. [temp EXCEPT !.week = Turn(up, @, hi)] \in Copies
    BY <1>1, <2>2 DEF Copies
  <2> QED BY <1>1, <2>1, <2>3, NotZeroOf DEF CopyStep
<1>4. CASE NowSetting = 1
  <2>1. temp' = NotZero([temp EXCEPT !.day = Turn(up, @, LastDay)])
    BY <1>4 DEF PeriodArrow
  <2>2. Turn(up, temp.day, LastDay) \in 0..LastDay
    <3>1. LastDay \in 0..LastDay
      BY <1>2
    <3> QED BY <1>1, <1>2, <3>1, TurnOf
  <2>3. [temp EXCEPT !.day = Turn(up, @, LastDay)] \in Copies
    BY <1>1, <2>2 DEF Copies
  <2> QED BY <1>1, <2>1, <2>3, NotZeroOf DEF CopyStep
<1>5. CASE NowSetting = 2
  <2>1. temp' = [temp EXCEPT !.enable = Turn(up, @, 2)]
    BY <1>5 DEF PeriodArrow
  <2>2. Turn(up, temp.enable, 2) \in 0..2
    <3>1. 2 \in Nat /\ 2 \in 0..2
      OBVIOUS
    <3> QED BY <1>1, <3>1, TurnOf
  <2>3. temp' \in Copies /\ temp'.week = temp.week /\ temp'.day = temp.day
    BY <1>1, <2>1, <2>2 DEF Copies
  <2> QED BY <1>1, <2>3 DEF CopyStep, HasDays
<1> QED BY <1>3, <1>4, <1>5 DEF EditInv

\* The periods as they are, cut, saved or set by the serial link.
LEMMA SamePeriods ==
  ASSUME EditInv, UNCHANGED period
  PROVE  PeriodStep
BY DEF EditInv, PeriodStep

\* The range of weeks is set (syr_range_set).
LEMMA CutPeriods ==
  ASSUME EditInv, NEW long, syr_range_set(long)
  PROVE  PeriodStep
<1>1. period' = [w \in PeriodWindows |-> Cut(period[w], long)]
  BY DEF syr_range_set
<1>2. ASSUME NEW w \in PeriodWindows
      PROVE  Cut(period[w], long) \in Periods /\ HasDays(Cut(period[w], long))
  BY CutOf DEF EditInv
<1> QED BY <1>1, <1>2 DEF PeriodStep

\* An edited period is saved: it is the copy, which has days.
LEMMA SavedPeriod ==
  ASSUME EditInv, GuiGetTopWin \in PeriodWindows, temp.enable # 2,
         period' = [period EXCEPT ![GuiGetTopWin] = temp]
  PROVE  PeriodStep
<1>1. temp \in Periods /\ HasDays(temp)
  BY DEF EditInv, Copies, Periods
<1> QED BY <1>1 DEF EditInv, PeriodStep

\* The serial link sets weeks and days.
LEMMA RemotePeriod ==
  ASSUME EditInv, NEW w \in PeriodWindows, NEW p \in RemotePeriods,
         period' = [period EXCEPT ![w].week = p[1], ![w].day = p[2]]
  PROVE  PeriodStep
<1>1. p[1] \in 0..LongWeeks /\ p[2] \in 0..LastDay /\ p[1] + p[2] > 0
  <2>1. p \in (0..LongWeeks) \X (0..LastDay) /\ p # <<0, 0>>
    BY MenuAssumption
  <2>2. p[1] \in 0..LongWeeks /\ p[2] \in 0..LastDay /\ ~(p[1] = 0 /\ p[2] = 0)
    BY <2>1
  <2> QED BY <2>2, MenuAssumption
<1>2. period' = [period EXCEPT ![w] = [period[w] EXCEPT !.week = p[1], !.day = p[2]]]
  BY DEF EditInv, Periods
<1>3. [period[w] EXCEPT !.week = p[1], !.day = p[2]] \in Periods
  BY <1>1 DEF EditInv, Periods
<1>4. HasDays([period[w] EXCEPT !.week = p[1], !.day = p[2]])
  BY <1>1 DEF EditInv, Periods, HasDays
<1> QED BY <1>2, <1>3, <1>4 DEF EditInv, PeriodStep

\* Every step keeps the copies, the periods and the field that is edited.
LEMMA EnterEdits ==
  ASSUME KeyInv, EditInv, Enter
  PROVE  CopyStep /\ PeriodStep /\ NowSetting' \in 0..2
<1>1. NowSetting \in 0..2
  BY DEF EditInv
<1>2. CASE MainEnter
  <2>1. UNCHANGED <<NowSetting, period>>
    BY <1>2 DEF MainEnter, device
  <2>2. MainEntry[NowButtonId] \in Windows
    BY DEF KeyInv, MenuCursor, MainEntry, Windows
  <2>3. CopyStep
    BY <1>2, <2>2, GuiCopies, ReloadCopies DEF MainEnter, KeyInv
  <2> QED BY <1>1, <2>1, <2>3, SamePeriods
<1>3. CASE MainLong
  <2>1. UNCHANGED <<NowSetting, period>>
    BY <1>3 DEF MainLong, device
  <2>2. CopyStep
    BY <1>3, DrawnCopies DEF MainLong
  <2> QED BY <1>1, <2>1, <2>2, SamePeriods
<1>4. CASE ListEnter
  BY <1>1, <1>4, GuiCopies, SamePeriods DEF ListEnter, Open, pages, device
<1>5. CASE SettingsEnter
  BY <1>1, <1>5, SamePeriods DEF SettingsEnter, CopyStep, GuiGetTopWin, device
<1>6. CASE CloseEnter
  BY <1>1, <1>6, GuiCopies, SamePeriods DEF CloseEnter, pages, device
<1>7. CASE CloseTwice
  BY <1>1, <1>7, DrawnCopies, SamePeriods DEF CloseTwice, pages, device
<1>8. CASE FlushEnter
  BY <1>1, <1>8, GuiCopies, SamePeriods DEF FlushEnter, LcdtoBackwash, pages, device
<1>9. CASE LeaveBackwash
  BY <1>1, <1>9, GuiCopies, SamePeriods DEF LeaveBackwash, pages, device
<1>10. CASE PeriodEnter
  <2>1. CASE temp.enable = 2
    BY <1>10, <2>1, GuiCopies, SamePeriods DEF PeriodEnter
  <2>2. CASE temp.enable # 2 /\ NowSetting < 2
    BY <1>1, <1>10, <2>2, SamePeriods DEF PeriodEnter, CopyStep
  <2>3. CASE temp.enable # 2 /\ NowSetting = 2
    BY <1>10, <2>3, GuiCopies, SavedPeriod DEF PeriodEnter
  <2> QED BY <1>1, <2>1, <2>2, <2>3
<1>11. CASE EraseEnter
  <2>1. UNCHANGED <<NowSetting, period>>
    BY <1>11 DEF EraseEnter, pages, device
  <2>2. CopyStep
    BY <1>11, GuiCopies DEF EraseEnter, Confirm, CopyStep
  <2> QED BY <1>1, <2>1, <2>2, SamePeriods
<1>12. CASE ValueEnter
  <2>1. NowSetting' = NowSetting
    BY <1>12 DEF ValueEnter, pages
  <2>2. CopyStep
    BY <1>12, GuiCopies DEF ValueEnter, CopyStep
  <2>3. PeriodStep
    BY <1>12, SamePeriods, CutPeriods DEF ValueEnter, device
  <2> QED BY <1>1, <2>1, <2>2, <2>3
<1>13. CASE LanguageEnter
  BY <1>1, <1>13, GuiCopies, SamePeriods DEF LanguageEnter, pages, device
<1>14. CASE AccessPointEnter
  BY <1>1, <1>14, GuiCopies, SamePeriods DEF AccessPointEnter, pages
<1> QED BY <1>2, <1>3, <1>4, <1>5, <1>6, <1>7, <1>8, <1>9, <1>10, <1>11, <1>12, <1>13,
           <1>14 DEF Enter

\* Every step of the menu and of the other threads.
LEMMA StepEdits ==
  ASSUME KeyInv, EditInv, Time_Range \in BOOLEAN, [Next]_vars
  PROVE  EditInv'
<1>1. NowSetting \in 0..2
  BY DEF EditInv
<1>2. ASSUME NEW up \in BOOLEAN, Arrow(up) PROVE EditInv'
  <2>1. UNCHANGED period
    BY <1>2 DEF Arrow, device
  <2>2. CopyStep /\ NowSetting' = NowSetting
    <3>1. CASE MainArrow(up)
      BY <3>1, DrawnCopies DEF MainArrow, Move, CopyStep, pages
    <3>2. CASE SettingsArrow(up)
      BY <3>2, GuiCopies DEF SettingsArrow, Move, CopyStep, pages
    <3>3. CASE ListArrow(up)
      BY <3>3 DEF ListArrow, Move, CopyStep, pages
    <3>4. CASE PeriodArrow(up)
      BY <3>4, ArrowCopies DEF PeriodArrow, pages
    <3> QED BY <1>2, <3>1, <3>2, <3>3, <3>4 DEF Arrow
  <2> QED BY <1>1, <2>1, <2>2, SamePeriods, EditKept
<1>3. CASE UpCloses
  BY <1>1, <1>3, GuiCopies, SamePeriods, EditKept DEF UpCloses, pages, device
<1>4. CASE Enter
  BY <1>4, EnterEdits, EditKept
<1>5. ASSUME NEW w \in Popups, Popup(w) PROVE EditInv'
  <2>1. CopyStep
    BY <1>5, MenuAssumption, GuiCopies, ReloadCopies DEF Popup, KeyInv, Windows
  <2> QED BY <1>1, <1>5, <2>1, SamePeriods, EditKept DEF Popup, pages, device
<1>6. CASE wifi_connect_win_del
  BY <1>1, <1>6, GuiCopies, SamePeriods, EditKept DEF wifi_connect_win_del, pages, device
<1>7. CASE Refresh_Display
  BY <1>1, <1>7, GuiCopies, SamePeriods, EditKept DEF Refresh_Display, pages, device
<1>8. CASE lcd_refresh_from_sleep
  BY <1>8, GuiCopies, SamePeriods, EditKept DEF lcd_refresh_from_sleep, device
<1>9. CASE Remote
  <2>1. CopyStep /\ NowSetting' = NowSetting
    BY <1>9, GuiCopies DEF Remote, pages
  <2>2. PeriodStep
    BY <1>9, SamePeriods, CutPeriods, RemotePeriod DEF Remote
  <2> QED BY <1>1, <2>1, <2>2, EditKept
<1>10. CASE UNCHANGED vars
  BY <1>1, <1>10, GuiCopies, SamePeriods, EditKept DEF vars, pages, device
<1> QED BY <1>2, <1>3, <1>4, <1>5, <1>6, <1>7, <1>8, <1>9, <1>10 DEF Next

-----------------------------------------------------------------------------
(* The flags, and the theorems.                                             *)

Asked == asks \in BOOLEAN /\ confirmed \in BOOLEAN
Ranges == Time_Range \in BOOLEAN /\ WIFI_AP_Enable \in BOOLEAN
Called == call \in {"none", "flush", "save", "erase", "factory", "ap"}
FlagInv == Asked /\ Ranges /\ Called

\* A window function clears the question.
LEMMA DrawAsks ==
  ASSUME NEW w, Draw(w)
  PROVE  Asked'
BY Zenon DEF Draw, Asked

\* The functions of the window manager keep the two flags.
LEMMA GuiAsks ==
  ASSUME Asked
  PROVE  /\ GuiWinDeleteTop => Asked'
         /\ GuiWinReload => Asked'
         /\ Home => Asked'
         /\ UNCHANGED gui => Asked'
         /\ \A w : GuiWinAdd(w) => Asked'
         /\ \A w : AddUnderReload(w) => Asked'
         /\ \A s, b : Show(s, b) => Asked'
         /\ \A b : Move(b) => Asked'
<1>1. UNCHANGED gui => Asked'
  BY DEF gui, Asked
<1>2. \A b : Move(b) => Asked'
  BY DEF Move, Asked
<1>3. \A s, b : Show(s, b) => Asked'
  BY DrawAsks DEF Show
<1> QED BY <1>1, <1>2, <1>3, DrawAsks
     DEF GuiWinDeleteTop, GuiWinReload, Home, GuiWinAdd, AddUnderReload

\* The settings stay as they are.
LEMMA SameRanges ==
  ASSUME Ranges, UNCHANGED device
  PROVE  Ranges'
BY DEF Ranges, device

\* Every Enter keeps the types of the flags.
LEMMA EnterFlags ==
  ASSUME FlagInv, Enter
  PROVE  FlagInv'
<1> USE DEF FlagInv
<1>1. CASE MainEnter
  BY <1>1, GuiAsks, SameRanges DEF MainEnter, Called
<1>2. CASE MainLong
  BY <1>2, GuiAsks, SameRanges DEF MainLong, Called
<1>3. CASE ListEnter
  BY <1>3, GuiAsks, SameRanges DEF ListEnter, Open, Called
<1>4. CASE SettingsEnter
  BY <1>4, DrawAsks, SameRanges DEF SettingsEnter, Called
<1>5. CASE CloseEnter \/ CloseTwice
  BY <1>5, GuiAsks, SameRanges DEF CloseEnter, CloseTwice, Called
<1>6. CASE FlushEnter
  BY <1>6, GuiAsks, SameRanges DEF FlushEnter, LcdtoBackwash, Called
<1>7. CASE LeaveBackwash
  BY <1>7, GuiAsks, SameRanges DEF LeaveBackwash, Called
<1>8. CASE PeriodEnter
  BY <1>8, GuiAsks DEF PeriodEnter, Called, Asked, Ranges
<1>9. CASE EraseEnter
  <2>1. Asked' /\ Called'
    BY <1>9, GuiAsks DEF EraseEnter, Confirm, Asked, Called
  <2> QED BY <1>9, <2>1, SameRanges DEF EraseEnter
<1>10. CASE ValueEnter
  <2>1. Asked' /\ Called'
    BY <1>10, GuiAsks DEF ValueEnter, Asked, Called
  <2>2. Ranges'
    BY <1>10, SameRanges DEF ValueEnter, syr_range_set, device, Ranges
  <2> QED BY <2>1, <2>2
<1>11. CASE LanguageEnter
  BY <1>11, GuiAsks, SameRanges DEF LanguageEnter, Called
<1>12. CASE AccessPointEnter
  <2>1. Asked' /\ Called'
    BY <1>12, GuiAsks DEF AccessPointEnter, Called
  <2>2. Ranges'
    BY <1>12, Zenon DEF AccessPointEnter, Ranges
  <2> QED BY <2>1, <2>2
<1> QED BY <1>1, <1>2, <1>3, <1>4, <1>5, <1>6, <1>7, <1>8, <1>9, <1>10, <1>11, <1>12
     DEF Enter

\* Every step does.
LEMMA StepFlags ==
  ASSUME FlagInv, [Next]_vars
  PROVE  FlagInv'
<1> USE DEF FlagInv
<1>1. ASSUME NEW up \in BOOLEAN, Arrow(up) PROVE FlagInv'
  <2>1. Asked'
    BY <1>1, GuiAsks DEF Arrow, MainArrow, SettingsArrow, ListArrow, PeriodArrow, Asked
  <2> QED BY <1>1, <2>1, SameRanges DEF Arrow, Called
<1>2. CASE UpCloses
  BY <1>2, GuiAsks, SameRanges DEF UpCloses, Called
<1>3. CASE Enter
  BY <1>3, EnterFlags
<1>4. CASE \E w \in Popups : Popup(w)
  BY <1>4, GuiAsks, SameRanges DEF Popup, Called
<1>5. CASE wifi_connect_win_del \/ Refresh_Display
  BY <1>5, GuiAsks, SameRanges DEF wifi_connect_win_del, Refresh_Display, Called
<1>6. CASE lcd_refresh_from_sleep
  BY <1>6, GuiAsks, SameRanges DEF lcd_refresh_from_sleep, Called
<1>7. CASE Remote
  <2>1. Asked' /\ Called'
    BY <1>7, GuiAsks DEF Remote, Called
  <2>2. Ranges'
    BY <1>7 DEF Remote, syr_range_set, Ranges
  <2> QED BY <2>1, <2>2
<1>8. CASE UNCHANGED vars
  BY <1>8, GuiAsks, SameRanges DEF vars, Called
<1> QED BY <1>1, <1>2, <1>3, <1>4, <1>5, <1>6, <1>7, <1>8 DEF Next

MenuInv == KeyInv /\ EditInv /\ FlagInv

\* The inductive invariant of the menu: every step of the keys, of Enter and of the
\* other threads keeps it.
THEOREM MenuSafe == Spec => []MenuInv
<1>1. Init => MenuInv
  <2> SUFFICES ASSUME Init PROVE MenuInv
    OBVIOUS
  <2>1. stack \in Seq(Windows) /\ Len(stack) = 1 /\ stack[1] = 1 /\ GuiGetTopWin = 1
    BY DEF Init, GuiGetTopWin, Last, Windows
  <2>2. MenuStack
    BY <2>1, MenuAssumption DEF MenuStack, MainIsRoot, SettingsAbove
  <2>3. MenuCursor
    BY <2>1 DEF Init, MenuCursor, PageKept, ValueKept, CursorFits
  <2>4. MenuPicture
    BY <2>1 DEF Init, MenuPicture, Selected, AskedFirst, CounterWindows
  <2>5. EditInv
    BY <2>1, MenuAssumption
    DEF Init, EditInv, Copies, Periods, HasDays, NoCopy, PeriodWindows
  <2>6. FlagInv
    BY DEF Init, FlagInv, Asked, Ranges, Called
  <2> QED BY <2>2, <2>3, <2>4, <2>5, <2>6 DEF MenuInv, KeyInv
<1>2. MenuInv /\ [Next]_vars => MenuInv'
  <2> SUFFICES ASSUME MenuInv, [Next]_vars PROVE MenuInv'
    OBVIOUS
  <2>1. KeyInv'
    BY StepKeeps DEF MenuInv, EditInv
  <2>2. EditInv'
    BY StepEdits DEF MenuInv, FlagInv, Ranges
  <2>3. FlagInv'
    BY StepFlags DEF MenuInv
  <2> QED BY <2>1, <2>2, <2>3 DEF MenuInv
<1> QED BY <1>1, <1>2, PTL DEF Spec

\* The button Enter acts on is the highlighted one, whatever other threads push, close
\* and redraw and wherever the shared cursor was left.
THEOREM CursorIsShown == Spec => []SelectionShown
<1>1. MenuInv => SelectionShown
  BY DEF MenuInv, KeyInv, MenuStack, MenuCursor, MenuPicture, Selected, EditInv, Copies,
         FlagInv, Asked, Ranges, Called, SelectionShown, TypeOK, Windows
<1> QED BY <1>1, MenuSafe, PTL

\* A period has a day: neither the edits, nor the range, nor the serial link set one
\* of none.
THEOREM DaysRemain == Spec => []PeriodHasDays
<1>1. MenuInv => PeriodHasDays
  BY DEF MenuInv, EditInv, HasDays, PeriodHasDays
<1> QED BY <1>1, MenuSafe, PTL

\* Counters and settings are erased only while the display asks for it.
THEOREM ErasureIsAsked == Spec => EraseConfirmed
<1> DEFINE A == call' \in {"erase", "factory"} =>
                  asks /\ drawn = GuiGetTopWin /\ shown = {NowButtonId}
<1>1. MenuInv /\ [Next]_vars => [A]_vars
  <2> SUFFICES ASSUME MenuInv, Next, call' \in {"erase", "factory"}
               PROVE  asks /\ drawn = GuiGetTopWin /\ shown = {NowButtonId}
    OBVIOUS
  <2>1. EraseEnter
    BY DEF Next, Arrow, UpCloses, Enter, MainEnter, MainLong, ListEnter, SettingsEnter,
           CloseEnter, CloseTwice, FlushEnter, LeaveBackwash, PeriodEnter, ValueEnter,
           LanguageEnter, AccessPointEnter, Popup, wifi_connect_win_del, Refresh_Display,
           lcd_refresh_from_sleep, Remote
  <2>2. GuiGetTopWin \in CounterWindows \cup {19} /\ confirmed
    BY <2>1 DEF EraseEnter, Confirm
  <2>3. asks /\ drawn = GuiGetTopWin
    BY <2>2 DEF MenuInv, KeyInv, MenuPicture, AskedFirst
  <2> QED BY <2>2, <2>3
       DEF MenuInv, KeyInv, MenuPicture, Selected, CursorWindows
<1> QED BY <1>1, MenuSafe, PTL DEF Spec, EraseConfirmed
=============================================================================

-------------------------- MODULE VirtualScreens ---------------------------
(***************************************************************************)
(* What the display promises: every terminal has a screen and a cursor of  *)
(* its own, a program's output goes to the screen of its terminal, keys    *)
(* are echoed on the screen that is shown, showing another terminal        *)
(* changes no screen, and the monitor's cursor is the shown screen's.      *)
(***************************************************************************)
EXTENDS Integers, FiniteSetsExt, SequencesExt

CONSTANTS Terms, Rows, Cols, Texts, NUL, Blank, Newline

VARIABLES
    shown,      \* the displayed terminal
    screen,     \* for each terminal, the cells and the cursor's offset
    cursor      \* the cursor on the monitor

svars == <<shown, screen, cursor>>

Cells == 0 .. Rows * Cols - 1

BlankScreen ==
    [cell |-> [i \in Cells |-> IF i % Cols = 0 THEN Blank ELSE NUL], at |-> 0]

(* Past the end of the last row the screen moves up one row.               *)
Rolled(s) ==
    IF s.at < Rows * Cols THEN s
    ELSE [cell |-> [i \in Cells |-> IF i + Cols \in Cells THEN s.cell[i + Cols] ELSE NUL],
          at   |-> (Rows - 1) * Cols]

(* A newline empties the cells after the cursor, up to and including the   *)
(* first cell of the next row, and goes there.                             *)
Put(s, c) ==
    LET next == (s.at \div Cols + 1) * Cols IN
    Rolled(IF c = Newline
           THEN [cell |-> [i \in Cells |-> IF i \in s.at + 1 .. next THEN NUL ELSE s.cell[i]],
                 at   |-> next]
           ELSE [cell |-> [s.cell EXCEPT ![s.at] = c], at |-> s.at + 1])

PutAll(s, text) == FoldLeft(Put, s, SelectSeq(text, LAMBDA c : c # NUL))

(* The character before the cursor is erased; the cursor goes back to the  *)
(* end of what is left in that row.                                        *)
Rubbed(s) ==
    LET cell == [s.cell EXCEPT ![s.at - 1] = NUL]
        row  == ((s.at - 1) \div Cols) * Cols
    IN  IF s.at = 0 THEN s
        ELSE [cell |-> cell,
              at |-> Max({row} \cup {i + 1 : i \in {j \in row .. s.at - 2 : cell[j] # NUL}})]

SInit ==
    /\ shown \in Terms
    /\ screen = [t \in Terms |-> BlankScreen]
    /\ cursor = screen[shown].at

Say(t, text) ==
    /\ UNCHANGED shown
    /\ \A u \in Terms \ {t} : screen'[u] = screen[u]
    /\ screen'[t] = PutAll(screen[t], text)

Rub  == screen' = [screen EXCEPT ![shown] = Rubbed(@)] /\ UNCHANGED shown
Wipe == screen' = [screen EXCEPT ![shown] = BlankScreen] /\ UNCHANGED shown

(* The shown screen is wiped, then a message is printed on t's.            *)
Report(t, text) ==
    LET wiped == [screen EXCEPT ![shown] = BlankScreen] IN
    screen' = [wiped EXCEPT ![t] = PutAll(@, text)] /\ UNCHANGED shown

Show(t) == shown' = t /\ UNCHANGED screen

(* The cursor on the monitor is always the one of the shown screen.        *)
SNext ==
    /\ \/ \E t \in Terms : Show(t)
       \/ Wipe \/ Rub
       \/ \E t \in Terms, text \in Texts : Say(t, text)
       \/ \E t \in Terms, text \in Texts : Report(t, text)
    /\ cursor' = screen'[shown'].at

SSpec == SInit /\ [][SNext]_svars
============================================================================

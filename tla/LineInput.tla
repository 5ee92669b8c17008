----------------------------- MODULE LineInput -----------------------------
(***************************************************************************)
(* What reading from a terminal promises: each terminal has a line that    *)
(* the keyboard edits only while a program of that terminal waits for it   *)
(* and the terminal is displayed; ENTER freezes the line; the program is   *)
(* given the frozen line, cut to the length it asked for, with a newline   *)
(* as its last character.                                                  *)
(***************************************************************************)
EXTENDS Integers, Sequences

CONSTANTS
    Terms,          \* the terminals
    LineSize,       \* a line has at most LineSize characters, newline included
    TabWidth,       \* blanks a TAB stands for
    Lengths,        \* the lengths programs ask for
    Chars, Newline, Blank

VARIABLES
    shown,          \* the displayed terminal
    mode,           \* "idle", "edit" or "done", for each terminal
    line,           \* the line of each terminal
    want,           \* the length asked for
    got             \* the line the last step delivered, and to whom

lvars == <<shown, mode, line, want, got>>

Nothing == [term |-> -1, text |-> <<>>]

LInit ==
    /\ shown \in Terms
    /\ mode = [t \in Terms |-> "idle"]
    /\ line = [t \in Terms |-> <<>>]
    /\ want \in [Terms -> Nat]
    /\ got = Nothing

(* A program of terminal t asks for a line of at most n characters.        *)
Ask(t, n) ==
    /\ mode[t] = "idle"
    /\ mode' = [mode EXCEPT ![t] = "edit"]
    /\ line' = [line EXCEPT ![t] = <<>>]
    /\ want' = [want EXCEPT ![t] = n]
    /\ got' = Nothing /\ UNCHANGED shown

(* A key edits the line of the displayed terminal.                         *)
Edit(new) ==
    /\ mode[shown] = "edit"
    /\ line' = [line EXCEPT ![shown] = new]
    /\ got' = Nothing /\ UNCHANGED <<shown, mode, want>>

Type ==
    /\ mode[shown] = "edit" /\ Len(line[shown]) < LineSize - 1
    /\ \E c \in Chars : Edit(Append(line[shown], c))

(* As many blanks as a TAB stands for, or as there is room for.            *)
Tab ==
    \E k \in 0 .. TabWidth :
        /\ k = TabWidth \/ Len(line[shown]) + k = LineSize - 1
        /\ Len(line[shown]) + k <= LineSize - 1
        /\ Edit(line[shown] \o [i \in 1 .. k |-> Blank])

Erase == line[shown] # <<>> /\ Edit(SubSeq(line[shown], 1, Len(line[shown]) - 1))

Kill == Edit(<<>>)

Enter ==
    /\ mode[shown] = "edit"
    /\ mode' = [mode EXCEPT ![shown] = "done"]
    /\ line' = [line EXCEPT ![shown] = Append(@, Newline)]
    /\ got' = Nothing /\ UNCHANGED <<shown, want>>

(* The frozen line, cut to the length asked for.                           *)
Cut(s, n) == IF n < Len(s) THEN [i \in 1 .. n |-> IF i = n THEN Newline ELSE s[i]] ELSE s

Deliver(t) ==
    /\ mode[t] = "done"
    /\ mode' = [mode EXCEPT ![t] = "idle"]
    /\ got' = [term |-> t, text |-> Cut(line[t], want[t])]
    /\ UNCHANGED <<shown, line, want>>

(* Another terminal is displayed, or nothing that concerns input happens.  *)
Show(t) == shown' = t /\ got' = Nothing /\ UNCHANGED <<mode, line, want>>

LNext ==
    \/ \E t \in Terms : Deliver(t) \/ Show(t) \/ \E n \in Lengths : Ask(t, n)
    \/ Tab \/ Erase \/ Kill \/ Enter \/ Type

LSpec == LInit /\ [][LNext]_lvars
============================================================================

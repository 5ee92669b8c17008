---------------------------- MODULE MCTerminal -----------------------------
(* Instances of Terminal for TLC: a keyboard reduced to the keys the run   *)
(* is about (set 1 scancodes).                                             *)
EXTENDS Terminal

\* L, Backspace, Tab, Enter, Ctrl down and up, Alt down and up, F1, F2
Keys == {38, 14, 15, 28, 29, 157, 56, 184, 59, 60}

\* lengths passed to read: one refused, one that cuts the longest lines
ReadLengths == {-1, 2}
============================================================================

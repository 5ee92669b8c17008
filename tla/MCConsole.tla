----------------------------- MODULE MCConsole -----------------------------
(* Instances of Console for TLC.                                           *)
EXTENDS Console

\* L, Backspace, Tab, Enter, Alt down, F1, F2
TypingKeys == {38, 14, 15, 28, 56, 59, 60}

\* L, Backspace, Enter, Caps Lock, Alt down, F1, F2
SwitchingKeys == {38, 14, 28, 58, 56, 59, 60}

\* a length that is refused, and one that may cut a line
ReadLengths == {-1, 2}

\* a prompt (the letter that is typed, to save states), and a newline
OneText == {<<108>>}
Prompts == {<<62>>, <<10>>}
============================================================================

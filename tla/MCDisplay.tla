----------------------------- MODULE MCDisplay -----------------------------
(* Instances of Display for TLC.                                           *)
EXTENDS Display

\* a letter, a newline, and a NUL, which terminal_write skips
SmallTexts == {<<97>>, <<10>>, <<0>>}
============================================================================

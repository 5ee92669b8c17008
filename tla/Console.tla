------------------------------ MODULE Console ------------------------------
(***************************************************************************)
(* The terminals as their users meet them: the input side (Terminal) and   *)
(* the output side (Display) in one system.  Here keyboard_handler is      *)
(* complete: what a key does to the line and what it does to the screen.   *)
(***************************************************************************)
EXTENDS Terminal

CONSTANTS
    NUM_ROWS, NUM_COLS, PAGE, Texts,
    Interactive,    \* the terminals somebody types at and whose programs read;
                    \* the programs of the others only write
    MaxOutput       \* how many characters these write at most

ASSUME ConsoleAssumption == Interactive \subseteq Terminals /\ MaxOutput \in Nat

VARIABLES mem, cursor_x, cursor_y, crtc

D == INSTANCE Display

screen == <<mem, cursor_x, cursor_y, crtc>>
cvars  == <<tvars, screen>>

CInit == TInit /\ D!DInit
----------------------------------------------------------------------------
Blanks(n) == [i \in 1 .. n |-> SPACE]

\* Mutant: a key is echoed even when the line is full.
EchoWithoutRoom(t, c) ==
    IF c = TAB THEN Blanks(IF Reading(t) THEN TabFill(t) ELSE TAB_SPACE) ELSE <<c>>

(* What keyboard_handler echoes for character c: while a line is read, as  *)
(* much as it stores; otherwise the key itself.                            *)
EchoOf(t, c) ==
    CASE c = TAB -> Blanks(IF Reading(t) THEN TabFill(t) ELSE TAB_SPACE)
      [] c # TAB /\ c # NEW_LINE /\ Reading(t) /\ ~Room(t) -> <<>>
      [] OTHER -> <<c>>

(* backspace() is not called when the line being read is empty.            *)
Rubs(t) == ~(Reading(t) /\ buf_index[t] = 0)

ScreenAfter(sc, f, c) ==
    LET t == active_term_idx IN
    CASE IsSwitchKey(c) ->
            IF f.ALT THEN D!Switched(D!Now, t, c - F1_PRESS) ELSE D!Now
      [] c = CTRL_L -> D!Cleared(D!Now)
      [] sc = BACKSPACE -> IF Rubs(t) THEN D!Backspaced(D!Now) ELSE D!Now
      [] c = -1 /\ sc # BACKSPACE -> D!Now
      [] c > 0 /\ ~IsSwitchKey(c) -> D!Echoed(D!Now, EchoOf(t, c))

CKeyboardHandler(sc) ==
    /\ KeyboardHandler(sc)
    /\ D!Becomes(ScreenAfter(sc, FlagsAfter(sc), Character(sc, FlagsAfter(sc))))

(* A program of the scheduled terminal writes text.                        *)
CWrite(text) ==
    /\ pc[cur_term_id] = "user"
    /\ D!TerminalWrite(text)
    /\ delivered' = NoLine
    /\ UNCHANGED <<input, flags, readers>>

(* halt of the shell at the bottom of the scheduled terminal: clear(),     *)
(* then a new shell.                                                       *)
CShellHalts ==
    /\ pc[cur_term_id] = "user"
    /\ D!Clear
    /\ delivered' = NoLine
    /\ UNCHANGED <<input, flags, readers>>

(* A program of the scheduled terminal faults: exception_handler clears    *)
(* the displayed screen and prints its message, and halt ends the program. *)
CFaults(text) ==
    /\ pc[cur_term_id] = "user"
    /\ D!ExceptionMessage(text)
    /\ delivered' = NoLine
    /\ UNCHANGED <<input, flags, readers>>

CQuiet ==
    /\ \/ /\ cur_term_id \in Interactive
          /\ \E n \in Nbytes : TerminalRead(n) \/ TerminalReadRefused(n)
       \/ ReaderWakes \/ TerminalReadReturns \/ TPit
    /\ UNCHANGED screen

Offset(t) == cursor_y[t] * NUM_COLS + cursor_x[t]

(* The bound on the output of a program that does not read.                *)
MayWrite == cur_term_id \in Interactive \/ Offset(cur_term_id) < MaxOutput

(* At the other terminals only the display is switched.                    *)
Typed ==
    IF active_term_idx \in Interactive THEN Scancodes
    ELSE Scancodes \cap ({ALT_PRESS, ALT_RELEASE} \cup F1_PRESS .. F3_PRESS)

(* Programs that neither fault nor, at the bottom of a terminal, halt.     *)
(* Both would clear the displayed screen, whoever's line is on it, so this *)
(* specification leaves them out ...                                       *)
CNext ==
    \/ \E sc \in Typed : CKeyboardHandler(sc)
    \/ MayWrite /\ \E text \in Texts : CWrite(text)
    \/ CQuiet

CSpec == CInit /\ [][CNext]_cvars

(* ... and this one has them.                                              *)
CHaltSpec == CInit /\ [][CNext \/ CShellHalts \/ \E text \in Texts : CFaults(text)]_cvars
----------------------------------------------------------------------------
(* "Keystroke will be stored into keyboard buffer and echo on the screen": *)
(* while a program reads, the characters before its terminal's cursor are  *)
(* the line that it will be given, in their order, through wrapping,       *)
(* scrolling, tabs, erasing and display switches, as long as no program    *)
(* faults or halts at the bottom of a terminal (clear() in exceptions.c    *)
(* and halt: CHaltSpec).                                                   *)
EchoMatchesLine ==
    \A t \in Terminals : Reading(t) =>
        /\ Offset(t) >= buf_index[t]
        /\ \A k \in 1 .. buf_index[t] :
              mem[D!PageOf(t) + Offset(t) - k] = keyboard_buf[t][buf_index[t] - k]
============================================================================

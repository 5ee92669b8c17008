----------------------------- MODULE Terminal ------------------------------
(***************************************************************************)
(* The keyboard and the input side of the terminals: keyboard_handler,     *)
(* scancode_handler and terminal_read of student-distrib/keyboard.c.       *)
(*                                                                         *)
(* Interrupt handlers are atomic.  terminal_read is not: it turns          *)
(* interrupts on and spins on TERMINAL_READ_FLAG, so it is three actions   *)
(* (the call, the exit of the loop, the copy after cli) with interrupts    *)
(* between them.  The echo of a key is the business of module Console.     *)
(* Characters are ASCII codes, so that codes which coincide in the program *)
(* coincide here.                                                          *)
(***************************************************************************)
EXTENDS Integers, Sequences

CONSTANTS
    MAX_TERMINAL_NUM,
    KB_BUF_SIZE,        \* characters in keyboard_buf
    TAB_SPACE,          \* blanks a TAB stands for
    Scancodes,          \* the bytes the keyboard controller may deliver
    Nbytes              \* the lengths programs pass to read

ASSUME TerminalAssumption ==
    /\ MAX_TERMINAL_NUM \in 1 .. 3
    /\ KB_BUF_SIZE \in Nat \ {0}
    /\ TAB_SPACE \in Nat
    /\ Scancodes \subseteq 0 .. 255
    /\ Nbytes \subseteq Int

Terminals == 0 .. MAX_TERMINAL_NUM - 1

CAPS_PRESS == 58     \* 0x3A
L_SHIFT_PRESS == 42     \* 0x2A
L_SHIFT_RELEASE == 170    \* 0xAA
R_SHIFT_PRESS == 54     \* 0x36
R_SHIFT_RELEASE == 182    \* 0xB6
CTRL_PRESS == 29     \* 0x1D
CTRL_RELEASE == 157    \* 0x9D
ALT_PRESS == 56     \* 0x38
ALT_RELEASE == 184    \* 0xB8
ENTER_PRESS == 28     \* 0x1C
BACKSPACE == 14     \* 0x0E
TAB == 15     \* 0x0F, the scancode and also the character returned for it
F1_PRESS == 59     \* 0x3B; F2 and F3 follow
F3_PRESS == 61
L_PRESS == 38     \* 0x26
NUM_SCANCODE == 58     \* 0x3A
NEW_LINE == 10
CTRL_L == -2
SPACE == 32

scancode_set_1 ==
    <<0, 0, 49, 50, 51, 52, 53, 54, 55, 56, 57, 48, 45, 61, 0, 0, 113, 119, 101, 114,
      116, 121, 117, 105, 111, 112, 91, 93, 0, 0, 97, 115, 100, 102, 103, 104, 106, 107, 108, 59,
      39, 96, 0, 92, 122, 120, 99, 118, 98, 110, 109, 44, 46, 47, 0, 0, 0, 32>>

scancode_set_2 ==
    <<0, 0, 49, 50, 51, 52, 53, 54, 55, 56, 57, 48, 45, 61, 0, 0, 81, 87, 69, 82,
      84, 89, 85, 73, 79, 80, 91, 93, 0, 0, 65, 83, 68, 70, 71, 72, 74, 75, 76, 59,
      39, 96, 0, 92, 90, 88, 67, 86, 66, 78, 77, 44, 46, 47, 0, 0, 0, 32>>

scancode_set_3 ==
    <<0, 0, 33, 64, 35, 36, 37, 94, 38, 42, 40, 41, 95, 43, 0, 0, 81, 87, 69, 82,
      84, 89, 85, 73, 79, 80, 123, 125, 0, 0, 65, 83, 68, 70, 71, 72, 74, 75, 76, 58,
      34, 126, 0, 124, 90, 88, 67, 86, 66, 78, 77, 60, 62, 63, 0, 0, 0, 32>>

VARIABLES
    active_term_idx,    \* the displayed terminal, to which keys go
    cur_term_id,        \* the scheduled terminal
    keyboard_buf, buf_index, TERMINAL_READ_FLAG,    \* of each terminal
    flags,              \* CAPS_FLAG, L_SHIFT_FLAG, R_SHIFT_FLAG, CTRL_FLAG, ALT_FLAG
    pc,                 \* where the top program of each terminal is: in "user"
                        \* code, in the "spin" loop, or past it ("copy")
    nbytes,             \* the argument of its read call
    delivered           \* what the last step copied to a user buffer

input   == <<keyboard_buf, buf_index, TERMINAL_READ_FLAG>>
readers == <<pc, nbytes>>
tvars   == <<active_term_idx, cur_term_id, input, flags, readers, delivered>>

NoLine == [term |-> -1, buf |-> <<>>, result |-> 0]

TInit ==
    /\ active_term_idx = 0 /\ cur_term_id = 0
    /\ keyboard_buf = [t \in Terminals |-> [i \in 0 .. KB_BUF_SIZE - 1 |-> 0]]
    /\ buf_index = [t \in Terminals |-> 0]
    /\ TERMINAL_READ_FLAG = [t \in Terminals |-> 0]
    /\ flags = [CAPS |-> FALSE, L_SHIFT |-> FALSE, R_SHIFT |-> FALSE, CTRL |-> FALSE, ALT |-> FALSE]
    /\ pc = [t \in Terminals |-> "user"]
    /\ nbytes = [t \in Terminals |-> 0]
    /\ delivered = NoLine
----------------------------------------------------------------------------
(* scancode_handler: the state of the modifier keys after scancode sc.     *)
Held(flag, sc, press, release) == (flag \/ sc = press) /\ sc # release

FlagsAfter(sc) ==
    [CAPS    |-> IF sc = CAPS_PRESS THEN ~flags.CAPS ELSE flags.CAPS,
     L_SHIFT |-> Held(flags.L_SHIFT, sc, L_SHIFT_PRESS, L_SHIFT_RELEASE),
     R_SHIFT |-> Held(flags.R_SHIFT, sc, R_SHIFT_PRESS, R_SHIFT_RELEASE),
     CTRL    |-> Held(flags.CTRL, sc, CTRL_PRESS, CTRL_RELEASE),
     ALT     |-> Held(flags.ALT, sc, ALT_PRESS, ALT_RELEASE)]

SHIFT_FLAG(f) == f.L_SHIFT \/ f.R_SHIFT

(* The entry of the table that the modifiers select.                       *)
TableEntry(sc, f) ==
    IF SHIFT_FLAG(f) THEN scancode_set_3[sc + 1]
    ELSE IF f.CAPS THEN scancode_set_2[sc + 1]
    ELSE scancode_set_1[sc + 1]

(* scancode_handler: the character it returns, -1 for none.                *)
Character(sc, f) ==
    IF sc \in F1_PRESS .. F3_PRESS THEN sc
    ELSE IF f.CTRL /\ sc = L_PRESS THEN CTRL_L
    ELSE IF sc = ENTER_PRESS THEN NEW_LINE
    ELSE IF sc = TAB THEN TAB
    ELSE IF sc < NUM_SCANCODE /\ TableEntry(sc, f) # 0 THEN TableEntry(sc, f) ELSE -1

(* keyboard_handler takes these characters for F1, F2 and F3.              *)
IsSwitchKey(c) == c \in F1_PRESS .. F3_PRESS

\* Mutant: the whole buffer may be filled, leaving no room for the newline.
RoomForOneMore(t) == buf_index[t] < KB_BUF_SIZE

Room(t) == buf_index[t] < KB_BUF_SIZE - 1

Reading(t) == TERMINAL_READ_FLAG[t] = 1

Put(t, chars) ==
    /\ keyboard_buf' = [keyboard_buf EXCEPT ![t] =
            [i \in DOMAIN @ |-> IF i - buf_index[t] + 1 \in DOMAIN chars
                               THEN chars[i - buf_index[t] + 1] ELSE @[i]]]
    /\ buf_index' = [buf_index EXCEPT ![t] = @ + Len(chars)]
----------------------------------------------------------------------------
(* keyboard_handler, by kind of key, for the displayed terminal t.         *)

(* Alt with F1, F2 or F3; without Alt the key does nothing.                *)
SwitchKey(c, f) ==
    /\ IsSwitchKey(c)
    /\ active_term_idx' = IF f.ALT THEN c - F1_PRESS ELSE active_term_idx
    /\ UNCHANGED input

\* Mutant: backspace edits the line even when nobody reads.
EraseAlways(t, sc) ==
    /\ sc = BACKSPACE
    /\ buf_index[t] # 0
    /\ buf_index' = [buf_index EXCEPT ![t] = @ - 1]
    /\ UNCHANGED <<active_term_idx, keyboard_buf, TERMINAL_READ_FLAG>>

EraseKey(t, sc) ==
    /\ sc = BACKSPACE
    /\ Reading(t) /\ buf_index[t] # 0
    /\ buf_index' = [buf_index EXCEPT ![t] = @ - 1]
    /\ UNCHANGED <<active_term_idx, keyboard_buf, TERMINAL_READ_FLAG>>

(* Ctrl+L                                                                  *)
KillKey(t, c) ==
    /\ c = CTRL_L
    /\ Reading(t)
    /\ buf_index' = [buf_index EXCEPT ![t] = 0]
    /\ UNCHANGED <<active_term_idx, keyboard_buf, TERMINAL_READ_FLAG>>

EnterKey(t, c) ==
    /\ c = NEW_LINE
    /\ Reading(t)
    /\ TERMINAL_READ_FLAG' = [TERMINAL_READ_FLAG EXCEPT ![t] = 0]
    /\ Put(t, <<NEW_LINE>>)
    /\ UNCHANGED active_term_idx

(* The loop stores TAB_SPACE blanks, or as many as there is room for.      *)
TabFill(t) ==
    LET left == KB_BUF_SIZE - 1 - buf_index[t] IN
    IF left < TAB_SPACE THEN left ELSE TAB_SPACE

TabKey(t, c) ==
    /\ c = TAB
    /\ Reading(t)
    /\ Put(t, [i \in 1 .. TabFill(t) |-> SPACE])
    /\ UNCHANGED <<active_term_idx, TERMINAL_READ_FLAG>>

CharKey(t, c) ==
    /\ c > 0 /\ c \notin {NEW_LINE, TAB} /\ ~IsSwitchKey(c)
    /\ Reading(t) /\ Room(t)
    /\ Put(t, <<c>>)
    /\ UNCHANGED <<active_term_idx, TERMINAL_READ_FLAG>>

(* Every other key leaves the lines alone: no character, nobody reads, or  *)
(* there is nothing to erase or no room left.                              *)
OtherKey(t, sc, c) ==
    /\ ~IsSwitchKey(c)
    /\ \/ c = -1 /\ (sc = BACKSPACE => ~Reading(t) \/ buf_index[t] = 0)
       \/ c # -1 /\ ~Reading(t)
       \/ c > 0 /\ c \notin {NEW_LINE, TAB} /\ Reading(t) /\ ~Room(t)
    /\ UNCHANGED <<active_term_idx, input>>

KeyboardHandler(sc) ==
    LET f == FlagsAfter(sc)
        c == Character(sc, f)
        t == active_term_idx
    IN  /\ flags' = f
        /\ \/ SwitchKey(c, f) \/ EraseKey(t, sc) \/ KillKey(t, c) \/ EnterKey(t, c)
           \/ TabKey(t, c) \/ CharKey(t, c) \/ OtherKey(t, sc, c)
        /\ delivered' = NoLine
        /\ UNCHANGED <<cur_term_id, readers>>
----------------------------------------------------------------------------
(* terminal_read, up to sti.  The caller is the program of the scheduled   *)
(* terminal.                                                               *)
TerminalRead(n) ==
    LET t == cur_term_id IN
    /\ pc[t] = "user"
    /\ n >= 0
    /\ TERMINAL_READ_FLAG' = [TERMINAL_READ_FLAG EXCEPT ![t] = 1]
    /\ buf_index' = [buf_index EXCEPT ![t] = 0]
    /\ pc' = [pc EXCEPT ![t] = "spin"]
    /\ nbytes' = [nbytes EXCEPT ![t] = n]
    /\ delivered' = NoLine
    /\ UNCHANGED <<active_term_idx, cur_term_id, keyboard_buf, flags>>

TerminalReadRefused(n) ==
    /\ pc[cur_term_id] = "user"
    /\ n < 0
    /\ delivered' = [NoLine EXCEPT !.term = cur_term_id, !.result = -1]
    /\ UNCHANGED <<active_term_idx, cur_term_id, input, flags, readers>>

\* Mutant: the loop watches the displayed terminal instead of its own.
SpinWatchesDisplay(t) ==
    /\ pc[t] = "spin"
    /\ TERMINAL_READ_FLAG[active_term_idx] = 0
    /\ pc' = [pc EXCEPT ![t] = "copy"]

(* The loop ends; interrupts are still on.                                 *)
SpinExit(t) ==
    /\ pc[t] = "spin"
    /\ TERMINAL_READ_FLAG[t] = 0
    /\ pc' = [pc EXCEPT ![t] = "copy"]

ReaderWakes ==
    /\ SpinExit(cur_term_id)
    /\ delivered' = NoLine
    /\ UNCHANGED <<active_term_idx, cur_term_id, input, flags, nbytes>>

\* Mutant: the newline is copied along, not put at the end of a cut line.
CopyWithoutNewline(t, end) == [i \in 0 .. end - 1 |-> keyboard_buf[t][i]]

(* The offsets of the user's buffer that are written, and what with.       *)
Copied(t, end) ==
    [i \in (0 .. end - 2) \cup {end - 1} |->
        IF i = end - 1 THEN NEW_LINE ELSE keyboard_buf[t][i]]

\* Mutant: nbytes is not looked at.
LoopEndUncut(t) == buf_index[t]

LoopEnd(t) == IF nbytes[t] < buf_index[t] THEN nbytes[t] ELSE buf_index[t]

(* The rest of terminal_read, after cli.                                   *)
TerminalReadReturns ==
    LET t   == cur_term_id
        end == LoopEnd(t)
    IN  /\ pc[t] = "copy"
        /\ delivered' = [term |-> t, buf |-> Copied(t, end), result |-> end]
        /\ pc' = [pc EXCEPT ![t] = "user"]
        /\ UNCHANGED <<active_term_idx, cur_term_id, input, flags, nbytes>>

(* pit_handler, once every terminal has a program (module Process).        *)
TPit ==
    /\ cur_term_id' = (cur_term_id + 1) % MAX_TERMINAL_NUM
    /\ delivered' = NoLine
    /\ UNCHANGED <<active_term_idx, input, flags, readers>>

TNext ==
    \/ \E sc \in Scancodes : KeyboardHandler(sc)
    \/ \E n \in Nbytes : TerminalRead(n) \/ TerminalReadRefused(n)
    \/ ReaderWakes
    \/ TerminalReadReturns
    \/ TPit

TSpec == TInit /\ [][TNext]_tvars

(* The timer ticks for ever, and a program that has its turn again and     *)
(* again executes instructions in some of them: a quantum is 10ms.         *)
ReaderOf(t) == cur_term_id = t /\ (ReaderWakes \/ TerminalReadReturns)

TFairSpec == TSpec /\ WF_tvars(TPit) /\ \A t \in Terminals : SF_tvars(ReaderOf(t))
----------------------------------------------------------------------------
(* Every variable has its type; in particular buf_index, which the         *)
(* keyboard handler moves and terminal_read resets, never passes the end   *)
(* of keyboard_buf and leaves room for a newline while a line is read.     *)
TTypeOK ==
    /\ active_term_idx \in Terminals /\ cur_term_id \in Terminals
    /\ keyboard_buf \in [Terminals -> [0 .. KB_BUF_SIZE - 1 -> 0 .. 255]]
    /\ buf_index \in [Terminals -> 0 .. KB_BUF_SIZE]
    /\ TERMINAL_READ_FLAG \in [Terminals -> {0, 1}]
    /\ flags \in [CAPS : BOOLEAN, L_SHIFT : BOOLEAN, R_SHIFT : BOOLEAN, CTRL : BOOLEAN, ALT : BOOLEAN]
    /\ pc \in [Terminals -> {"user", "spin", "copy"}]
    /\ nbytes \in [Terminals -> Nat]
    /\ delivered.term \in Terminals \cup {-1}
    /\ \A t \in Terminals : Reading(t) => buf_index[t] < KB_BUF_SIZE

(* The flag that tells the keyboard handler to store keys is raised only   *)
(* for a terminal whose program is inside terminal_read's loop, and past   *)
(* the loop a complete line, ended by ENTER, waits in the buffer: no key   *)
(* of the sti window can change it.                                        *)
LineComplete ==
    \A t \in Terminals :
        /\ Reading(t) => pc[t] = "spin"
        /\ pc[t] # "user" /\ ~Reading(t) =>
              buf_index[t] > 0 /\ keyboard_buf[t][buf_index[t] - 1] = NEW_LINE

(* terminal_read writes inside the nbytes bytes of the caller's buffer,    *)
(* "Must be at least nbytes large", and returns the number it wrote.       *)
ReadFitsBuffer ==
    delivered.result >= 0 /\ delivered.term # -1 =>
        /\ DOMAIN delivered.buf \subseteq 0 .. nbytes[delivered.term] - 1
        /\ DOMAIN delivered.buf = 0 .. delivered.result - 1

(* A line ended by ENTER reaches the program that asked for it, whichever  *)
(* terminals are displayed meanwhile.                                      *)
EnteredLineReturns ==
    \A t \in Terminals :
        (pc[t] = "spin" /\ ~Reading(t)) ~> pc[t] = "user"

(* The state of module LineInput: a line is the first buf_index characters *)
(* of the buffer, and it is edited while the read flag is raised.          *)
LineMode == [t \in Terminals |-> IF pc[t] = "user" THEN "idle"
                                 ELSE IF Reading(t) THEN "edit" ELSE "done"]

LineText == [t \in Terminals |-> [i \in 1 .. buf_index[t] |-> keyboard_buf[t][i - 1]]]

LineGot ==
    [term |-> IF delivered.result < 0 THEN -1 ELSE delivered.term,
     text |-> [i \in 1 .. delivered.result |-> delivered.buf[i - 1]]]

Lines == INSTANCE LineInput WITH
    Terms    <- Terminals,
    LineSize <- KB_BUF_SIZE,
    TabWidth <- TAB_SPACE,
    Lengths  <- Nbytes \cap Nat,
    Chars    <- 33 .. 126 \cup {SPACE},
    Newline  <- NEW_LINE,
    Blank    <- SPACE,
    shown    <- active_term_idx,
    mode     <- LineMode,
    line     <- LineText,
    want     <- nbytes,
    got      <- LineGot

(* keyboard_handler and terminal_read, interleaved over the terminals,     *)
(* give each program exactly the line that was typed to its terminal.      *)
ImplementsLineInput == Lines!LSpec
============================================================================

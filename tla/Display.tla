------------------------------ MODULE Display ------------------------------
(***************************************************************************)
(* The output side of the terminals: putc, putc_direct, scroll,            *)
(* scroll_direct, clear, backspace and update_cursor of                    *)
(* student-distrib/lib.c, terminal_write of keyboard.c, switch_terminal of *)
(* scheduling.c and the page copies of paging.c.                           *)
(*                                                                         *)
(* Video memory is one array of character cells, as in the machine: the    *)
(* page at VIDEO, then one backup page for each terminal.  A page is       *)
(* larger than a screen.  Attribute bytes are left out (always ATTRIB).    *)
(***************************************************************************)
EXTENDS Integers, FiniteSetsExt, SequencesExt

CONSTANTS
    MAX_TERMINAL_NUM,
    NUM_ROWS, NUM_COLS,
    PAGE,           \* cells in a page, 2048 in the machine
    Texts           \* what programs write and keys echo, as character sequences

ASSUME DisplayAssumption ==
    /\ MAX_TERMINAL_NUM \in Nat \ {0}
    /\ NUM_ROWS \in Nat \ {0, 1} /\ NUM_COLS \in Nat \ {0}
    /\ PAGE \in Nat /\ PAGE > NUM_ROWS * NUM_COLS

Terminals == 0 .. MAX_TERMINAL_NUM - 1
Memory    == 0 .. (MAX_TERMINAL_NUM + 1) * PAGE - 1
Screen    == 0 .. NUM_ROWS * NUM_COLS - 1
LastRow   == (NUM_ROWS - 1) * NUM_COLS .. NUM_ROWS * NUM_COLS - 1
NUL       == 0
NEW_LINE  == 10
RETURN    == 13
SPACE     == 32

VARIABLES
    active_term_idx,        \* the displayed terminal
    cur_term_id,            \* the scheduled terminal
    mem,                    \* video memory
    cursor_x, cursor_y,     \* of each terminal
    crtc                    \* the cursor position the video controller shows

dpy   == <<mem, cursor_x, cursor_y, crtc>>
dvars == <<active_term_idx, cur_term_id, dpy>>

(* The display as a value, so that the operations can be composed.         *)
Now == [mem |-> mem, x |-> cursor_x, y |-> cursor_y, crtc |-> crtc]

Becomes(d) == mem' = d.mem /\ cursor_x' = d.x /\ cursor_y' = d.y /\ crtc' = d.crtc

ClearedCell(i) == IF i % NUM_COLS = 0 THEN SPACE ELSE NUL

(* After init_terminals and entry's clear().  What lies below the last row *)
(* of a page is never shown; it is taken to be empty.                      *)
DInit ==
    /\ active_term_idx = 0 /\ cur_term_id = 0
    /\ mem = [a \in Memory |-> IF a % PAGE \in Screen THEN ClearedCell(a % PAGE) ELSE NUL]
    /\ cursor_x = [t \in Terminals |-> 0] /\ cursor_y = [t \in Terminals |-> 0]
    /\ crtc = 0
----------------------------------------------------------------------------
VIDEO     == 0
Backup(t) == (t + 1) * PAGE

(* video_mem_local of putc and scroll.                                     *)
PageOf(t) == IF t = active_term_idx THEN VIDEO ELSE Backup(t)

Filled(m, A, c) == [a \in Memory |-> IF a \in A THEN c ELSE m[a]]

(* update_cursor                                                           *)
UpdateCursor(d, t) == [d EXCEPT !.crtc = d.y[t] * NUM_COLS + d.x[t]]

(* The character goes to the cursor of t in each of the given pages.  A    *)
(* newline writes the cells x+1 .. NUM_COLS of the row, the last of which  *)
(* is the first one of the next row.                                       *)
Stored(d, t, pages, c) ==
    LET x == d.x[t]
        row(p) == p + NUM_COLS * d.y[t]
        nx == (x + 1) % NUM_COLS
    IN  IF c \in {NEW_LINE, RETURN}
        THEN [d EXCEPT !.mem = Filled(@, {row(p) + i : p \in pages, i \in x + 1 .. NUM_COLS}, NUL),
                       !.x[t] = 0, !.y[t] = @ + 1]
        ELSE [d EXCEPT !.mem = Filled(@, {row(p) + x : p \in pages}, c),
                       !.x[t] = nx,
                       !.y[t] = IF nx = 0 THEN @ + 1 ELSE @]

\* Mutant: the row is not set back after the screen has moved up.
ScrolledCursorLow(d, t) == [d EXCEPT !.x[t] = 0]

ScrolledCursor(d, t) == [d EXCEPT !.x[t] = 0, !.y[t] = NUM_ROWS - 1]

Scroll(d, t) ==
    LET p == PageOf(t) IN
    [ScrolledCursor(d, t) EXCEPT !.mem = [a \in Memory |->
        IF a - p \in Screen \ LastRow THEN @[a + NUM_COLS]
        ELSE IF a - p \in LastRow THEN NUL ELSE @[a]]]

(* Both pages are filled from the real one; for its last row the backup    *)
(* gets what lies below the screen, which may reach into the next page.    *)
ScrollDirect(d, t) ==
    LET b  == Backup(t)
        up == [a \in Memory |->
                  IF a \in Screen \ LastRow THEN d.mem[a + NUM_COLS]
                  ELSE IF a - b \in Screen \ LastRow THEN d.mem[a - b + NUM_COLS]
                  ELSE d.mem[a]]
    IN  [ScrolledCursor(d, t) EXCEPT !.mem = [a \in Memory |->
            IF a \in LastRow THEN NUL
            ELSE IF a - b \in LastRow THEN up[a - b + NUM_COLS] ELSE up[a]]]

Putc(d, c) ==
    LET t == cur_term_id
        s == Stored(d, t, {PageOf(t)}, c)
        r == IF s.y[t] = NUM_ROWS THEN Scroll(s, t) ELSE s
    IN  IF t = active_term_idx THEN UpdateCursor(r, t) ELSE r

PutcDirect(d, c) ==
    LET t == active_term_idx
        s == Stored(d, t, {VIDEO, Backup(t)}, c)
        r == IF s.y[t] = NUM_ROWS THEN ScrollDirect(s, t) ELSE s
    IN  UpdateCursor(r, t)

Cleared(d) ==
    LET t == active_term_idx IN
    UpdateCursor([d EXCEPT !.mem = [a \in Memory |->
                                IF a \in Screen THEN ClearedCell(a) ELSE @[a]],
                           !.x[t] = 0, !.y[t] = 0], t)

(* The loop of backspace: from at - 2 down, over empty cells, but not past *)
(* the end of a row.                                                       *)
SkipEmpty(m, at) ==
    Max({o \in -1 .. at - 2 : o = -1 \/ m[o] # NUL \/ (o + 1) % NUM_COLS = 0}) + 1

Backspaced(d) ==
    LET t  == active_term_idx
        at == d.y[t] * NUM_COLS + d.x[t]
        m  == [d.mem EXCEPT ![at - 1] = NUL]
        to == SkipEmpty(m, at)
    IN  IF at = 0 THEN d
        ELSE UpdateCursor([d EXCEPT !.mem = m, !.x[t] = to % NUM_COLS,
                                    !.y[t] = to \div NUM_COLS], t)

CopyPage(m, to, from) ==
    [a \in Memory |-> IF a - to \in 0 .. PAGE - 1 THEN m[a - to + from] ELSE m[a]]

\* Mutant: the screen that is left is not saved.
SwitchWithoutSave(d, prev, next) ==
    UpdateCursor([d EXCEPT !.mem = CopyPage(@, VIDEO, Backup(next))], next)

(* switch_terminal: save_video_to_backup, restore_backup_to_video and      *)
(* update_cursor.                                                          *)
Switched(d, prev, next) ==
    UpdateCursor([d EXCEPT !.mem =
        CopyPage(CopyPage(@, Backup(prev), VIDEO), VIDEO, Backup(next))], next)
----------------------------------------------------------------------------
\* Mutant: NUL characters are put on the screen.
PrintedWithNul(d, text) == FoldLeft(Putc, d, text)

(* terminal_write, printf and puts: the characters one by one, skipping    *)
(* NUL, to the scheduled terminal.                                         *)
Printed(d, text) == FoldLeft(Putc, d, SelectSeq(text, LAMBDA c : c # NUL))

(* The echo of keyboard_handler, to the displayed terminal.                *)
Echoed(d, text) == FoldLeft(PutcDirect, d, text)

TerminalWrite(text) ==
    Becomes(Printed(Now, text)) /\ UNCHANGED <<active_term_idx, cur_term_id>>

(* exception_handler clears the displayed screen, then prints its message. *)
ExceptionMessage(text) ==
    Becomes(Printed(Cleared(Now), text)) /\ UNCHANGED <<active_term_idx, cur_term_id>>

KeyEcho(text) ==
    /\ NUL \notin Range(text)
    /\ Becomes(Echoed(Now, text))
    /\ UNCHANGED <<active_term_idx, cur_term_id>>

KeyBackspace == Becomes(Backspaced(Now)) /\ UNCHANGED <<active_term_idx, cur_term_id>>

(* Ctrl+L, and halt of a shell at the bottom of a terminal.                *)
Clear == Becomes(Cleared(Now)) /\ UNCHANGED <<active_term_idx, cur_term_id>>

SwitchTerminal(t) ==
    /\ active_term_idx' = t
    /\ Becomes(Switched(Now, active_term_idx, t))
    /\ UNCHANGED cur_term_id

DPit ==
    /\ cur_term_id' = (cur_term_id + 1) % MAX_TERMINAL_NUM
    /\ UNCHANGED <<active_term_idx, dpy>>

DNext ==
    \/ \E text \in Texts : TerminalWrite(text) \/ ExceptionMessage(text) \/ KeyEcho(text)
    \/ KeyBackspace \/ Clear \/ DPit
    \/ \E t \in Terminals : SwitchTerminal(t)

DSpec == DInit /\ [][DNext]_dvars
----------------------------------------------------------------------------
(* The cursors stay on the screen, so that every write to a page of video  *)
(* memory lands in that page.                                              *)
DTypeOK ==
    /\ active_term_idx \in Terminals /\ cur_term_id \in Terminals
    /\ mem \in [Memory -> 0 .. 255]
    /\ cursor_x \in [Terminals -> 0 .. NUM_COLS - 1]
    /\ cursor_y \in [Terminals -> 0 .. NUM_ROWS - 1]
    /\ crtc \in Screen

(* No cell before a cursor in its row is empty: backspace, which skips     *)
(* empty cells, removes one character at a time.                           *)
NoGapBeforeCursor ==
    \A t \in Terminals : \A i \in 0 .. cursor_x[t] - 1 :
        mem[PageOf(t) + NUM_COLS * cursor_y[t] + i] # NUL

(* The screens of module VirtualScreens: the displayed one is in video     *)
(* memory, the others in their backup pages.                               *)
Screens == INSTANCE VirtualScreens WITH
    Terms   <- Terminals,
    Rows    <- NUM_ROWS,
    Cols    <- NUM_COLS,
    Blank   <- SPACE,
    Newline <- NEW_LINE,
    shown   <- active_term_idx,
    screen  <- [t \in Terminals |->
                   [cell |-> [i \in Screen |-> mem[PageOf(t) + i]],
                    at   |-> cursor_y[t] * NUM_COLS + cursor_x[t]]],
    cursor  <- crtc

(* One video memory and its backup pages behave as one screen for each     *)
(* terminal, whatever is written, echoed, cleared and switched between,    *)
(* and the hardware cursor follows the displayed one, though background    *)
(* programs move theirs all the time.                                      *)
ImplementsScreens == Screens!SSpec
============================================================================

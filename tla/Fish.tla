-------------------------------- MODULE Fish --------------------------------
(***************************************************************************)
(* fish: fish/fish.c and the list of blinking characters that fish/blink.S *)
(* keeps for it.  Two frames are read from two files at once, character by *)
(* character, and every place where either has something becomes an entry  *)
(* of the list; then the list is run by the ticks of the clock.            *)
(***************************************************************************)
EXTENDS UserCalls

CONSTANTS
    WAIT,                   \* ticks between the four parts of the show
    FRAME_LENGTH,           \* on_length and off_length of the frames
    I_LENGTH, M_LENGTH      \* of the extra character

COLS == 80
PLACES == 80 * 25           \* of the screen, and of blink_array
OFFSET == 40
SPOT == 6 * COLS + 60       \* where the extra character blinks
----------------------------------------------------------------------------
Blink(location, on, off, on_length, off_length) ==
    [location |-> location, on_char |-> on, off_char |-> off,
     on_length |-> on_length, off_length |-> off_length, countdown |-> on_length, status |-> 1]

mp1_poke(s, location, char) ==
    [s EXCEPT !.vmem = [p \in DOMAIN @ \cup {location} |-> IF p = location THEN char ELSE @[p]]]

(* mp1_malloc takes an entry of blink_array whose location is 0.           *)
mp1_malloc(s) == Len(s.list) < PLACES

mp1_ioctl_add(s, b) ==
    IF b.location >= PLACES \/ ~mp1_malloc(s) THEN s
    ELSE mp1_poke([s EXCEPT !.list = <<b>> \o @], b.location, b.on_char)

mp1_find_helper(s, location) ==
    LET found == {i \in DOMAIN s.list : s.list[i].location = location}
    IN  IF found = {} THEN 0 ELSE Min(found)

(* mp1_free clears the entry, so that mp1_malloc finds it again.           *)
mp1_ioctl_remove(s, location) ==
    LET i == mp1_find_helper(s, location)
    IN  IF i = 0 THEN s ELSE [s EXCEPT !.list = RemoveAt(@, i)]

(* The character shown is always off_char: testb leaves the sign flag      *)
(* clear, so the cmovl after it never moves.                               *)
mp1_ioctl_sync(s, a, b) ==
    LET i == mp1_find_helper(s, a)
        k == mp1_find_helper(s, b)
    IN  IF i = 0 \/ k = 0 THEN s
        ELSE mp1_poke([s EXCEPT !.list[k].on_length = s.list[i].on_length,
                                !.list[k].off_length = s.list[i].off_length,
                                !.list[k].countdown = s.list[i].countdown,
                                !.list[k].status = s.list[i].status],
                      b, s.list[k].off_char)

Due(b) == b.countdown - 1 <= 0

Ticked(b) ==
    IF ~Due(b) THEN [b EXCEPT !.countdown = @ - 1]
    ELSE [b EXCEPT !.countdown = IF b.status = 1 THEN b.off_length ELSE b.on_length,
                   !.status = 1 - @]

ShownAtTick(b) == IF b.status = 1 THEN b.off_char ELSE b.on_char

mp1_rtc_tasklet(s) ==
    LET due == {i \in DOMAIN s.list : Due(s.list[i])}
        at(p) == {i \in due : s.list[i].location = p}
    IN  [s EXCEPT !.list = [i \in DOMAIN @ |-> Ticked(@[i])],
                  !.vmem = [p \in DOMAIN @ |->
                              IF at(p) = {} THEN @[p] ELSE ShownAtTick(s.list[Max(at(p))])]]
----------------------------------------------------------------------------
\* Mutant: a row ends when either line does.
RowDoneEither(c0, c1) == c0 = LF \/ c1 = LF

RowDone(c0, c1) == c0 = LF /\ c1 = LF

Blank(c) == c \in {SPC, LF}
Drawn(c) == IF c = LF THEN SPC ELSE c

(* The rest of the inner loop of add_frames, once both characters are read.*)
AddCell(s) ==
    LET b == Blink(s.row * COLS + s.col + OFFSET, Drawn(s.c0), Drawn(s.c1),
                   FRAME_LENGTH, FRAME_LENGTH)
        added == IF Blank(s.c0) /\ Blank(s.c1) THEN s ELSE mp1_ioctl_add(s, b)
    IN  IF RowDone(s.c0, s.c1) THEN [s EXCEPT !.pc = "close0"]
        ELSE [added EXCEPT !.pc = "cell0", !.col = @ + 1]

(* The read of one character of a frame; at the end of the file it counts  *)
(* as a newline.                                                           *)
NextChar(fd, c, Then(_, _)) ==
    LET After(cnt, data) == Then(IF cnt = 0 THEN LF ELSE Head(data), cnt = 0)
    IN  IF c = LF THEN Elsewhere /\ Then(LF, FALSE) ELSE Reading(fd, 1, After)

add_frames ==
    \/ /\ At("fish", "open0") /\ Open(task.arg)
       /\ st' = IF ret'.val < 0 THEN Exited(255) ELSE [st EXCEPT !.pc = "open1", !.fd0 = ret'.val]
    \/ /\ At("fish", "open1") /\ Open(task.arg2)
       /\ st' = IF ret'.val < 0 THEN Exited(255) ELSE [st EXCEPT !.pc = "cell0", !.fd1 = ret'.val]
    \/ /\ At("fish", "cell0")
       /\ LET Then(c, eof) == st' = [st EXCEPT !.pc = "cell1", !.c0 = c, !.eof0 = @ \/ eof]
          IN  NextChar(st.fd0, st.c0, Then)
    \/ /\ At("fish", "cell1")
       /\ LET Then(c, eof) == st' = AddCell([st EXCEPT !.c1 = c, !.eof1 = @ \/ eof])
          IN  NextChar(st.fd1, st.c1, Then)
    \/ /\ At("fish", "close0")
       /\ IF st.eof0 THEN Close(st.fd0) ELSE Elsewhere
       /\ st' = [st EXCEPT !.pc = "close1", !.c0 = IF st.eof0 THEN LF ELSE 48]
    \/ /\ At("fish", "close1")
       /\ IF st.eof1 THEN Close(st.fd1) ELSE Elsewhere
       /\ st' = [st EXCEPT !.pc = IF st.eof0 /\ st.eof1 THEN "animate" ELSE "cell0",
                           !.c1 = IF st.eof1 THEN LF ELSE 48,
                           !.row = @ + 1, !.col = 0]

(* What main does to the list before the tick with number i.               *)
Show(s) ==
    CASE s.i = WAIT -> mp1_ioctl_add(s, Blink(SPOT, 73, 77, I_LENGTH, M_LENGTH))
      [] s.i = 2 * WAIT -> mp1_ioctl_sync(s, OFFSET, SPOT)
      [] s.i = 3 * WAIT -> mp1_ioctl_remove(s, SPOT)
      [] OTHER -> s

(* main: the video page, the clock, the frames, the show.                  *)
Fish ==
    /\ \/ /\ At("fish", "start") /\ Open(RTC_NAME)
          /\ st' = [pc |-> "open0", rtc |-> ret'.val, fd0 |-> -1, fd1 |-> -1, c0 |-> 48, c1 |-> 48,
                    eof0 |-> FALSE, eof1 |-> FALSE, row |-> 0, col |-> 0, i |-> 0,
                    list |-> <<>>, vmem |-> <<>>]
       \/ add_frames
       \/ /\ At("fish", "animate") /\ st.i < 4 * WAIT
          /\ LET After(cnt, data) ==
                    st' = [mp1_rtc_tasklet(Show(st)) EXCEPT !.i = @ + 1]
             IN  Reading(st.rtc, 4, After)
       \/ /\ At("fish", "animate") /\ st.i = 4 * WAIT
          /\ Close(st.rtc)
          /\ st' = Exited(0)
    /\ UNCHANGED out
----------------------------------------------------------------------------
(* A frame as a picture: the character at a row and a column, from 0.      *)
Picture(name, r, c) ==
    LET lines == LinesOf(Bytes[dentries[Min(Entry(name))].inode_idx])
    IN  IF r < Len(lines) /\ c < Len(lines[r + 1]) THEN lines[r + 1][c + 1] ELSE SPC

Cells == (0 .. 8) \X (0 .. 8)     \* enough for every file of the image

(* add_frames makes an entry for just those places where one of the two    *)
(* pictures is not blank, with the characters of both, also where a line   *)
(* or a file ends before the other's; and the show leaves those entries as *)
(* they were.                                                              *)
FramesComplete ==
    At("fish", "animate") =>
        {<<b.location, b.on_char, b.off_char>> :
            b \in {b \in ToSet(st.list) : b.location # SPOT}}
        = {<<rc[1] * COLS + rc[2] + OFFSET, Picture(task.arg, rc[1], rc[2]),
             Picture(task.arg2, rc[1], rc[2])>> :
              rc \in {rc \in Cells : ~(/\ Picture(task.arg, rc[1], rc[2]) = SPC
                                       /\ Picture(task.arg2, rc[1], rc[2]) = SPC)}}

(* The screen shows of every entry the character its status names, except  *)
(* for the extra character once mp1_ioctl_sync has drawn it.               *)
BlinksShown ==
    At("fish", "animate") =>
        \A b \in ToSet(st.list) :
            \/ st.i > 2 * WAIT /\ b.location = SPOT
            \/ st.vmem[b.location] = IF b.status = 1 THEN b.on_char ELSE b.off_char

(* What fish shows is what is in its two files: the list has all of both   *)
(* frames, and the screen is in step with the list.                        *)
FishShowsFrames == FramesComplete /\ BlinksShown
============================================================================

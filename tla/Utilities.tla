----------------------------- MODULE Utilities -----------------------------
(***************************************************************************)
(* cat, ls, grep, pingpong and the shell: syscalls/ece391cat.c,            *)
(* ece391ls.c, ece391grep.c, ece391pingpong.c and ece391shell.c.           *)
(***************************************************************************)
EXTENDS UserCalls

CONSTANTS
    SCREENWIDTH, STARTCHAR, ENDCHAR,    \* of pingpong
    EXIT_WORD,                          \* the shell's own command
    TypedLines,                         \* what read(0, ...) may give the shell
    ArgCounts,                          \* what programs pass to getargs
    HaltStatuses                        \* what execute may return for a program
----------------------------------------------------------------------------
\* Mutant: the end of the file is not noticed.
ReadAgain(cnt) == IF cnt = -1 THEN Exited(3) ELSE st

(* Where a read of cnt bytes leads in the loops of cat and ls.             *)
AfterRead(cnt) == CASE cnt = 0 -> Exited(0) [] cnt = -1 -> Exited(3) [] OTHER -> st

CatWrites(data, cnt) == terminal_write(SubSeq(data, 1, cnt))

(* getargs fails without arguments.                                        *)
Cat ==
    \/ /\ At("cat", "start") /\ task.arg = <<>>
       /\ st' = Exited(3) /\ Elsewhere /\ UNCHANGED out
    \/ /\ At("cat", "start") /\ task.arg # <<>>
       /\ Open(task.arg)
       /\ st' = IF ret'.val = -1 THEN Exited(2) ELSE [pc |-> "read", fd |-> ret'.val]
       /\ UNCHANGED out
    \/ /\ At("cat", "read")
       /\ LET After(cnt, data) ==
                /\ st'  = AfterRead(cnt)
                /\ out' = IF cnt > 0 THEN out \o CatWrites(data, cnt) ELSE out
          IN  Reading(st.fd, BUFSIZE, After)
----------------------------------------------------------------------------
LsLine(data, cnt) == Append(SubSeq(data, 1, cnt), LF)

(* The size that ls and grep pass to read for a directory entry.           *)
EntryRoom == SBUFSIZE - 1

Ls ==
    \/ /\ At("ls", "start")
       /\ Open(DOT)
       /\ st' = IF ret'.val = -1 THEN Exited(2) ELSE [pc |-> "read", fd |-> ret'.val]
       /\ UNCHANGED out
    \/ /\ At("ls", "read")
       /\ LET After(cnt, data) ==
                /\ st'  = AfterRead(cnt)
                /\ out' = IF cnt > 0 THEN out \o terminal_write(LsLine(data, cnt)) ELSE out
          IN  Reading(st.fd, EntryRoom, After)
----------------------------------------------------------------------------
(* The string at data[i].                                                  *)
StringAt(data, i) ==
    LET end == Min({j \in i .. BUFSIZE : data[j] = EOS})
    IN  [k \in 1 .. end - i |-> data[i + k - 1]]

Matches(data, start, end, s) ==
    \E check \in start .. end - 1 : IsPrefix(s, StringAt(data, check))

\* Mutant: what is left of the line is moved down without its last character.
MovedDownShort(data, start, last) ==
    [i \in 0 .. BUFSIZE |-> IF i < last - start - 1 THEN data[start + i] ELSE data[i]]

(* strcpy(data, data + start), with a NUL at data[last].                   *)
MovedDown(data, start, last) ==
    LET len == Len(StringAt(data, start))
    IN  [i \in 0 .. BUFSIZE |-> IF i <= len THEN data[start + i] ELSE data[i]]

(* The inner loop of do_one_file, from line_start on, after a read of cnt  *)
(* bytes has filled data up to last.                                       *)
RECURSIVE SearchLines(_, _, _, _)
SearchLines(data, line_start, last, cnt) ==
    LET line_end == Min({i \in line_start .. last : i = last \/ data[i] = LF})
        partial  == data[line_end] # LF /\ cnt # 0 /\ line_start # 0
        cut      == [data EXCEPT ![line_end] = EOS]
        found    == IF Matches(cut, line_start, line_end, task.arg)
                    THEN st.fname \o <<58>> \o StringAt(cut, line_start) \o <<LF>> ELSE <<>>
        rest     == SearchLines(cut, line_end + 1, last, cnt)
    IN  IF partial
        THEN [data |-> MovedDown(cut, line_start, last), last |-> last - line_start, out |-> <<>>]
        ELSE IF line_end + 1 >= last
        THEN [data |-> cut, last |-> 0, out |-> found]
        ELSE [rest EXCEPT !.out = found \o @]

Stored(data, at, bytes) ==
    [i \in 0 .. BUFSIZE |-> IF i \in at .. at + Len(bytes) - 1 THEN bytes[i - at + 1] ELSE data[i]]

(* main of grep and do_one_file.  The array data is not initialised: the   *)
(* stack holds a NUL, a letter or a newline there.  from is where the      *)
(* file's output begins.                                                   *)
Grep ==
    \/ /\ At("grep", "start") /\ task.arg = <<>>
       /\ st' = Exited(3) /\ Elsewhere /\ UNCHANGED out
    \/ /\ At("grep", "start") /\ task.arg # <<>>
       /\ Open(DOT)
       /\ st' = IF ret'.val = -1 THEN Exited(2) ELSE [pc |-> "entry", dir |-> ret'.val]
       /\ UNCHANGED out
    \/ /\ At("grep", "entry")
       /\ LET After(cnt, buf) ==
                st' = CASE cnt = 0 -> Exited(0) [] cnt = -1 -> Exited(3)
                        [] cnt > 0 /\ buf[1] = 46 -> st
                        [] OTHER -> [pc |-> "open", dir |-> st.dir, fname |-> SubSeq(buf, 1, cnt)]
          IN  Reading(st.dir, EntryRoom, After)
       /\ UNCHANGED out
    \/ /\ At("grep", "open")
       /\ Open(st.fname)
       /\ \E stack \in {EOS, 97, LF} :
             st' = IF ret'.val = -1 THEN Exited(3)
                   ELSE [pc |-> "read", dir |-> st.dir, fname |-> st.fname, fd |-> ret'.val,
                         stack |-> stack, from |-> Len(out),
                         last |-> 0, data |-> [i \in 0 .. BUFSIZE |-> stack]]
       /\ UNCHANGED out
    \/ /\ At("grep", "read")
       /\ LET After(cnt, bytes) ==
                LET r == SearchLines(Stored(st.data, st.last, bytes), 0, st.last + cnt, cnt)
                IN  IF cnt = -1 THEN st' = Exited(3) /\ UNCHANGED out
                    ELSE /\ out' = out \o terminal_write(r.out)
                         /\ st' = IF cnt = 0 THEN [st EXCEPT !.pc = "close"]
                                  ELSE [st EXCEPT !.data = r.data, !.last = r.last]
          IN  Reading(st.fd, BUFSIZE - st.last, After)
    \/ /\ At("grep", "close")
       /\ Close(st.fd)
       /\ st' = IF ret'.val = -1 THEN Exited(3) ELSE [pc |-> "entry", dir |-> st.dir]
       /\ UNCHANGED out
----------------------------------------------------------------------------
(* pingpong: a row with two walls, and a ball of the character curchar at  *)
(* j, printed once for every tick of the clock.  BUFMAX is                 *)
(* SCREENWIDTH+2 and LOOPMAX BUFMAX-3; the row ends with a newline.        *)
STARTLOOP == 2

LOOPMAX == SCREENWIDTH - 1

Row(j, curchar) ==
    [i \in 0 .. SCREENWIDTH |->
        CASE i = j -> curchar [] i = SCREENWIDTH -> LF
          [] i \in {1, SCREENWIDTH - 1} /\ i # j -> 124 [] OTHER -> SPC]

(* Where the ball is next: out, back, and out again with the next letter.  *)
Bounced ==
    CASE st.way = "out" /\ st.j + 1 < LOOPMAX -> [st EXCEPT !.j = @ + 1]
      [] st.way = "out" /\ st.j + 1 >= LOOPMAX -> [st EXCEPT !.j = LOOPMAX - 1, !.way = "back"]
      [] st.way = "back" /\ st.j > STARTLOOP -> [st EXCEPT !.j = @ - 1]
      [] OTHER -> [st EXCEPT !.j = STARTLOOP, !.way = "out",
                             !.curchar = IF @ = ENDCHAR THEN STARTCHAR ELSE @ + 1]

(* The write that sets the frequency is rtc_write's; a read waits for a    *)
(* tick.                                                                   *)
PingPong ==
    \/ /\ At("pingpong", "start")
       /\ Open(RTC_NAME)
       /\ st' = [pc |-> "tick", fd |-> ret'.val, j |-> STARTLOOP, way |-> "out",
                 curchar |-> STARTCHAR]
       /\ out' = <<Row(STARTLOOP, STARTCHAR)>>
    \/ /\ At("pingpong", "tick")
       /\ LET After(cnt, data) == st' = Bounced
          IN  Reading(st.fd, 4, After)
       /\ out' = <<Row(st'.j, st'.curchar)>>
----------------------------------------------------------------------------
(* The shell, the part of _execute that takes a command apart, and getargs *)
(* of the program it starts.                                               *)
Shell ==
    /\ \/ /\ At("shell", "start")
          /\ \E line \in TypedLines :
                LET buf == ShellCommand(line)
                IN  st' = CASE buf = EXIT_WORD -> Exited(0) [] buf = <<>> -> st
                            [] OTHER -> [pc |-> "execute", buf |-> buf]
          /\ Elsewhere
       \/ /\ At("shell", "execute")
          /\ LET c == parse_command(st.buf)
             IN  /\ Execute(c.filename)
                 /\ st' = IF ret'.val = -1 THEN [pc |-> "returned", rval |-> -1]
                          ELSE [pc |-> "program", buf |-> st.buf, params |-> c.params]
       \/ /\ At("shell", "program")
          /\ \E n \in ArgCounts :
                st' = [pc |-> "args", buf |-> st.buf, params |-> st.params, n |-> n,
                       got |-> getargs(st.params, n)]
          /\ Elsewhere
       \/ /\ At("shell", "args")
          /\ \E rval \in HaltStatuses : st' = [pc |-> "returned", rval |-> rval]
          /\ Elsewhere
       \/ /\ At("shell", "returned")
          /\ st' = [pc |-> "start"]
          /\ Elsewhere
    /\ UNCHANGED out
----------------------------------------------------------------------------
FileOf(name) == dentries[Min(Entry(name))]

(* cat prints the file it is given, every byte once and in order except    *)
(* NULs, however the reads cut it up; of a directory it prints the names,  *)
(* of the clock nothing; and it fails just when there is no such file.     *)
CatPrintsFile ==
    At("cat", "exit") =>
        IF Entry(task.arg) = {} THEN st.code # 0 /\ out = <<>>
        ELSE /\ st.code = 0
             /\ LET c == ContentOf(FileOf(task.arg).type, FileOf(task.arg).inode_idx)
                IN  out = terminal_write(IF FileOf(task.arg).type = "dir" THEN FlattenSeq(c) ELSE c)

(* ls prints every name of the boot block, once, in order, each on a line  *)
(* of its own.                                                             *)
LsPrintsNames ==
    At("ls", "exit") =>
        /\ st.code = 0
        /\ out = FlattenSeq([i \in DOMAIN dentries |-> Append(dentries[i].name, LF)])

HasString(line, s) == \E i \in DOMAIN line : IsPrefix(s, SubSeq(line, i, Len(line)))

(* A line longer than grep's buffer is taken BUFSIZE characters at a time. *)
Pieces(line) ==
    [i \in 1 .. (Len(line) + BUFSIZE - 1) \div BUFSIZE |->
        SubSeq(line, (i - 1) * BUFSIZE + 1, Min({i * BUFSIZE, Len(line)}))]

(* What grep prints for a file that is cut in two at one place, as if by a *)
(* newline; a cut at 0 changes nothing.                                    *)
MatchesIn(d, cut) ==
    LET text   == Bytes[d.inode_idx]
        lines  == LinesOf(SubSeq(text, 1, cut) \o <<LF>> \o SubSeq(text, cut + 1, Len(text)))
        pieces == FlattenSeq([i \in DOMAIN lines |-> Pieces(lines[i])])
        found  == SelectSeq(pieces, LAMBDA l : HasString(l, task.arg))
    IN  IF d.type # "file" THEN <<>>
        ELSE FlattenSeq([i \in DOMAIN found |-> d.name \o <<58>> \o found[i] \o <<LF>>])

IsText(d) == d.type # "file" \/ EOS \notin Range(Bytes[d.inode_idx])

Cuts(d) == IF d.type = "file" THEN 0 .. Len(Bytes[d.inode_idx]) ELSE {0}

(* grep prints, for each file without NULs, just the lines that contain    *)
(* the string, each once, with the name of the file, although it sees the  *)
(* file through a buffer that cuts lines in two and moves the piece down.  *)
(* Two things it may miss: what spans the pieces of a line longer than the *)
(* buffer, and, when the byte behind the buffer happens to be a newline    *)
(* (data[line_end] is read before anything was stored there), what spans   *)
(* one more place in the file.  It closes what it opens, so that no number *)
(* of files exhausts its descriptors, and leaves no file out.              *)
GrepPrintsMatches ==
    /\ At("grep", "close") /\ IsText(FileOf(st.fname)) =>
          \E cut \in IF st.stack = LF THEN Cuts(FileOf(st.fname)) ELSE {0} :
             SubSeq(out, st.from + 1, Len(out)) = MatchesIn(FileOf(st.fname), cut)
    /\ At("grep", "exit") =>
          IF task.arg = <<>> THEN st.code = 3
          ELSE /\ st.code = 0
               /\ \A d \in Range(dentries) : IsText(d) =>
                     \E cut \in Cuts(d), i \in 0 .. Len(out) :
                        IsPrefix(MatchesIn(d, cut), SubSeq(out, i + 1, Len(out)))

(* No read stores more bytes than its caller has room for: of a file at    *)
(* most nbytes, although read_data copies a byte before it finds that the  *)
(* file has ended; of a directory a whole name field whatever nbytes is,   *)
(* but the programs that read directories leave room for one.              *)
ReadsFit ==
    /\ ret.call = "read" /\ ret.n >= 0 => Len(ret.copied) <= ret.n
    /\ ret.call = "readdir" /\ task.name \in {"ls", "grep", "cat"} => Len(ret.copied) <= ret.n

(* Both walls of pingpong stand in every row it prints, and the ball is    *)
(* between them.                                                           *)
BallBetweenWalls ==
    At("pingpong", "tick") =>
        \E j \in 2 .. SCREENWIDTH - 2, c \in STARTCHAR .. ENDCHAR :
            Head(out) = [i \in 0 .. SCREENWIDTH |->
                           IF i \in {1, SCREENWIDTH - 1} THEN 124
                           ELSE IF i = j THEN c ELSE IF i = SCREENWIDTH THEN LF ELSE SPC]

(* cat, ls, grep and pingpong print exactly what they are for.             *)
UtilitiesExact == CatPrintsFile /\ LsPrintsNames /\ GrepPrintsMatches /\ BallBetweenWalls

WordStarts(s) == {i \in DOMAIN s : s[i] # SPC /\ (i = 1 \/ s[i - 1] = SPC)}

(* What follows the first word of a line, from its second word on.         *)
AfterFirstWord(s) ==
    LET starts == WordStarts(s)
    IN  IF Cardinality(starts) < 2 THEN <<>>
        ELSE SubSeq(s, Min(starts \ {Min(starts)}), Len(s))

(* Whether spaces stand only between words, and one at a time.             *)
SingleSpaced(s) ==
    /\ s[1] # SPC /\ Last(s) # SPC
    /\ \A i \in 1 .. Len(s) - 1 : ~(s[i] = SPC /\ s[i + 1] = SPC)

(* A program that the shell starts gets exactly what was typed after its   *)
(* name and the spaces that follow, to the end of the line, or an error if *)
(* that is nothing or does not fit with its NUL; the arguments of any line *)
(* that can be typed fit into params; and under the emulator a program     *)
(* gets the same arguments, and the same error when they do not fit, for a *)
(* command that has arguments and single spaces.                           *)
ArgumentsDelivered ==
    /\ At("shell", "program") => Len(st.params) + 1 <= PARAM_LENGTH
    /\ At("shell", "args") =>
          LET typed == AfterFirstWord(st.buf)
          IN  /\ st.got = IF typed = <<>> \/ Len(typed) + 1 > st.n
                          THEN [val |-> -1, buf |-> <<>>] ELSE [val |-> 0, buf |-> typed]
              /\ SingleSpaced(st.buf) /\ typed # <<>> =>
                    st.got = ece391_getargs(ece391_execute(st.buf), st.n)
============================================================================

----------------------------- MODULE UserCalls -----------------------------
(***************************************************************************)
(* A user program at work: what it has been asked to do, where it is, and  *)
(* what it has printed.  Each step of a program is one system call and the *)
(* computation up to the next.                                             *)
(***************************************************************************)
EXTENDS Commands

CONSTANTS
    DOT, RTC_NAME,          \* the names "." and "rtc"
    BUFSIZE, SBUFSIZE       \* of the programs' buffers

EOS == 0

VARIABLES
    task,       \* the program and its arguments
    st,         \* its pc and local variables
    out         \* the characters it has printed

uvars == <<task, st, out>>

At(name, pc) == task.name = name /\ st.pc = pc

Exited(code) == [pc |-> "exit", code |-> code]

(* What write(1, data, ...) adds to the screen: terminal_write skips NULs. *)
terminal_write(data) == SelectSeq(data, LAMBDA c : c # EOS)

(* read(fd, buf, n) on a descriptor of open, followed by After(val, data): *)
(* val is returned, data has been stored in buf.  rtc_read returns 0.      *)
Reading(fd, n, After(_, _)) ==
    \/ /\ ReadRefused(fd, n) \/ FileRead(fd, n) \/ DirectoryRead(fd, n)
       /\ After(ret'.val, ret'.copied)
    \/ /\ Usable(fd) /\ n >= 0 /\ file_array[fd].op_ptr = "rtc"
       /\ UNCHANGED fvars
       /\ After(0, <<>>)

(* A call that has nothing to do with files.                               *)
Elsewhere == UNCHANGED fvars

(* The lines of a file; after the last newline there is another only if it *)
(* is not empty.                                                           *)
RECURSIVE LinesOf(_)
LinesOf(s) ==
    IF s = <<>> THEN <<>>
    ELSE LET end == SkipUntil(s, 1, {LF})
         IN  <<SubSeq(s, 1, end - 1)>> \o LinesOf(SubSeq(s, end + 1, Len(s)))
============================================================================

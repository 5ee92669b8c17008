------------------------------- MODULE SysErr -------------------------------
(***************************************************************************)
(* syscalls/ece391syserr.c, the program that tries the system calls'       *)
(* errors: eight tests, each a sequence of calls, one of them at a time or *)
(* all in a row in one process.                                            *)
(***************************************************************************)
EXTENDS UserCalls

CONSTANTS
    NEG_FD, BIG_FD,         \* no descriptors
    TOO_LONG, TOO_SHORT     \* a file's name with a letter more, and one with a letter less

KERNEL_ADDRESS == 4194304
MB_128 == 134217728
MB_132 == 138412032

C(call, arg, want) == [call |-> call, arg |-> arg, want |-> want]

Each(call, fds, want) == [i \in 1 .. Len(fds) |-> C(call, fds[i], want)]
FromTo(a, b) == [i \in 1 .. b - a + 1 |-> a + i - 1]

(* The calls of a test.  One that wants "error" must return -1; those that *)
(* want "count" must, together, return -1 once.                            *)
err_fd(fd) == <<C("read", fd, "error"), C("write", fd, "error"), C("close", fd, "error")>>

err_neg_fd == err_fd(NEG_FD)
err_big_fd == err_fd(BIG_FD)

(* One open more than there are descriptors: 7, for a FILE_LIMIT of 8.     *)
err_open_lots ==
    [i \in 1 .. FILE_LIMIT - 1 |-> C("open", DOT, "count")]
    \o Each("close", FromTo(2, FILE_LIMIT - 1), "any")

err_open ==
    << C("open", TOO_LONG, "error"), C("open", TOO_SHORT, "error"), C("open", <<>>, "error") >>

err_unopened ==
    Each("close", FromTo(0, FILE_LIMIT - 1), "error")
    \o Each("read", FromTo(2, FILE_LIMIT - 1), "error")
    \o Each("write", FromTo(2, FILE_LIMIT - 1), "error")

err_vidmap == << C("vidmap", 0, "error"), C("vidmap", KERNEL_ADDRESS, "error") >>

err_stdin_out == << C("write", 0, "error"), C("read", 1, "error") >>

err_syscall_num == Each("int80", <<BIG_FD, NEG_FD, 0>>, "error")

Test(n) ==
    CASE n = 1 -> err_neg_fd [] n = 2 -> err_big_fd [] n = 3 -> err_open_lots
      [] n = 4 -> err_open [] n = 5 -> err_unopened [] n = 6 -> err_vidmap
      [] n = 7 -> err_stdin_out [] n = 8 -> err_syscall_num

(* main's switch; 0 runs them all, any other number but 1 to 8 none.       *)
Script ==
    CASE task.arg = 0 -> FlattenSeq([n \in 1 .. 8 |-> Test(n)])
      [] task.arg \in 1 .. 8 -> Test(task.arg)
      [] OTHER -> <<>>
----------------------------------------------------------------------------
\* Mutant: the end of the page is all that is looked at.
vidmap_above(screen_start) == IF screen_start >= MB_132 THEN -1 ELSE 0

(* The value of vidmap; what it does to the pages is in Paging.            *)
vidmap(screen_start) == IF screen_start < MB_128 \/ screen_start >= MB_132 THEN -1 ELSE 0

(* int 0x80 with a number in eax, as far as the numbers of the test go.    *)
system_call(num) == IF num \in 1 .. 10 THEN 0 ELSE -1

(* The terminal's descriptors: terminal_read only from 0, terminal_write   *)
(* only to 1.                                                              *)
StdRead(fd)  == IF fd # 0 THEN -1 ELSE 0
StdWrite(fd) == IF fd # 1 THEN -1 ELSE 0

(* One call of the script, followed by After(val).                         *)
Make(c, After(_)) ==
    CASE c.call = "open"  -> Open(c.arg) /\ After(ret'.val)
      [] c.call = "close" -> Close(c.arg) /\ After(ret'.val)
      [] c.call = "read"  -> IF c.arg \in Std THEN Elsewhere /\ After(StdRead(c.arg))
                             ELSE LET Then(val, data) == After(val)
                                  IN  Reading(c.arg, BUFSIZE, Then)
      [] c.call = "write" -> IF c.arg \in Std THEN Elsewhere /\ After(StdWrite(c.arg))
                             ELSE Write(c.arg) /\ After(ret'.val)
      [] c.call = "vidmap" -> Elsewhere /\ After(vidmap(c.arg))
      [] c.call = "int80"  -> Elsewhere /\ After(system_call(c.arg))

(* The verdict of err_open_lots is formed after its closes; here the count *)
(* is compared when the test or the program ends.                          *)
SysErr ==
    /\ \/ /\ At("syserr", "start")
          /\ st' = [pc |-> "call", i |-> 1, fail |-> FALSE, cnt |-> 0]
          /\ Elsewhere
       \/ /\ At("syserr", "call") /\ st.i <= Len(Script)
          /\ LET c == Script[st.i]
                 After(val) ==
                    st' = [st EXCEPT !.i = @ + 1,
                                     !.fail = @ \/ (c.want = "error" /\ val # -1),
                                     !.cnt = IF c.want = "count" /\ val = -1 THEN @ + 1 ELSE @]
             IN  Make(c, After)
       \/ /\ At("syserr", "call") /\ st.i > Len(Script)
          /\ LET counted == task.arg \in {0, 3}
                 fail == st.fail \/ (counted /\ st.cnt # 1)
             IN  st' = Exited(IF fail THEN 2 ELSE 0)
          /\ Elsewhere
    /\ UNCHANGED out

(* Every test of syserr passes, alone and after the others: each error it  *)
(* provokes is reported, and the descriptors that one test has used up are *)
(* given back to the next.                                                 *)
SysErrPasses == At("syserr", "exit") => st.code = 0
============================================================================

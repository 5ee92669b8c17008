------------------------------ MODULE Programs ------------------------------
(***************************************************************************)
(* The file system and the user programs that run on it, one at a time: a  *)
(* behaviour is what one program does, from a fresh process on.  "any" is  *)
(* a program that makes the file calls in any order, while it keeps the    *)
(* clock open as fish does; "lib" only calls library routines.             *)
(***************************************************************************)
EXTENDS Utilities, SysErr, Fish, LibCalls

CONSTANT Tasks          \* the programs and their arguments

pvars == <<file_array, ret, task, st, out, lib>>

Held == 2               \* the descriptor on which "any" has the clock

AnyCalls ==
    /\ \/ /\ At("any", "start") /\ Open(RTC_NAME)
          /\ st' = [pc |-> "calls"]
       \/ /\ At("any", "calls") /\ FNext /\ file_array'[Held] = file_array[Held]
          /\ UNCHANGED st
    /\ UNCHANGED out

UserStep ==
    /\ AnyCalls \/ Cat \/ Ls \/ Grep \/ PingPong \/ Shell \/ SysErr \/ Fish
    /\ UNCHANGED <<task, lib>>

LibStep == task.name = "lib" /\ LNext /\ UNCHANGED <<file_array, ret, task, st, out>>

PgInit ==
    /\ FInit /\ LInit
    /\ task \in Tasks
    /\ st = [pc |-> "start"]
    /\ out = <<>>

PgNext == UserStep \/ LibStep

Ending == {"cat", "ls", "grep", "syserr", "fish"}

(* A program that can go on does: every step is a system call that the     *)
(* kernel answers, and the ticks that fish waits for come (Rtc).           *)
PgSpec ==
    /\ PgInit /\ [][PgNext]_pvars
    /\ WF_pvars(task.name \in Ending /\ UserStep)

(* cat, ls, grep, syserr and fish come to an end, whatever file they are   *)
(* given: a read that is at the end of the file returns 0, and nothing     *)
(* moves the position back.                                                *)
ProgramsEnd == task.name \in Ending ~> st.pc = "exit"
============================================================================

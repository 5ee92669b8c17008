-------------------------------- MODULE Rtc --------------------------------
(***************************************************************************)
(* The virtualised real-time clock: student-distrib/rtc.c.                 *)
(*                                                                         *)
(* One process of each terminal may have the clock open.  rtc_read turns   *)
(* interrupts on around two busy waits, so the clock, the timer and the    *)
(* reads of other processes fall between its steps; everything else is     *)
(* atomic.  woken and unread record which interrupts a process has seen    *)
(* and elapsed counts them since the last timer interrupt; the code has no *)
(* such variables.                                                         *)
(*                                                                         *)
(* Both clocks are periodic: rtc_init asks for 8192 Hz, init_pit for       *)
(* 1193182 / 11931 Hz, so there are 81 or 82 interrupts of the one between *)
(* two of the other.  A process that has opened the clock and set nothing  *)
(* waits for a multiple of 85, and at 1 Hz of 170: it can miss some in     *)
(* each of its turns.                                                      *)
(***************************************************************************)
EXTENDS Integers

CONSTANTS
    MAX_TERMINAL_NUM,
    MAX_RTC_FREQ,       \* 512
    COUNTER_BITS,       \* width of int: 32
    Quanta,             \* how many clock interrupts come between two of the timer: {81, 82}
    Clients,            \* the terminals whose program uses the clock
    Freqs,              \* the frequencies programs ask for
    NbytesWritten       \* the lengths they pass to write

Terminals == 0 .. MAX_TERMINAL_NUM - 1
Closed    == 0
IntMax    == 2 ^ (COUNTER_BITS - 1) - 1

ASSUME RtcAssumption ==
    /\ MAX_TERMINAL_NUM \in Nat \ {0}
    /\ MAX_RTC_FREQ \in Nat /\ MAX_RTC_FREQ >= 2
    /\ COUNTER_BITS \in Nat \ {0} /\ IntMax \in Nat
    /\ Quanta \subseteq Nat
    /\ Clients \subseteq Terminals
    /\ Freqs \subseteq Nat

VARIABLES
    cur_term_id,
    rtc_counter_global, rtc_exe_flag,
    ratio,          \* file_array[fd].ratio of the process, or Closed
    pc,             \* "user", or in rtc_read: "flag" and "count" for the two
                    \* loops, "done" past the second
    div,            \* rtc_read's local variable, 1 outside it
    elapsed,        \* clock interrupts since the last timer interrupt
    woken,          \* has a tick come while the process waits in the first loop?
    unread          \* has a tick come since the process last returned from it?

shared == <<rtc_counter_global, rtc_exe_flag, elapsed>>
ghosts == <<woken, unread>>
rvars  == <<cur_term_id, shared, ratio, pc, div, ghosts>>

RInit ==
    /\ cur_term_id = 0
    /\ rtc_counter_global = 0 /\ rtc_exe_flag = 1
    /\ ratio = [t \in Terminals |-> Closed]
    /\ pc = [t \in Terminals |-> "user"]
    /\ div = [t \in Terminals |-> 1]
    /\ elapsed = 0
    /\ woken = [t \in Terminals |-> FALSE]
    /\ unread = [t \in Terminals |-> TRUE]
----------------------------------------------------------------------------
(* rtc_handler; the counter is a signed int and wraps around.              *)
RtcHandler ==
    /\ \E q \in Quanta : elapsed < q
    /\ rtc_counter_global' =
          IF rtc_counter_global = IntMax THEN -IntMax - 1 ELSE rtc_counter_global + 1
    /\ rtc_exe_flag' = 1
    /\ elapsed' = elapsed + 1
    /\ woken' = [t \in Terminals |-> woken[t] \/ pc[t] = "flag"]
    /\ unread' = [t \in Terminals |-> TRUE]
    /\ UNCHANGED <<cur_term_id, ratio, pc, div>>

RtcOpen ==
    /\ cur_term_id \in Clients
    /\ pc[cur_term_id] = "user" /\ ratio[cur_term_id] = Closed
    /\ ratio' = [ratio EXCEPT ![cur_term_id] = MAX_RTC_FREQ \div 2]
    /\ UNCHANGED <<cur_term_id, shared, pc, div, ghosts>>

RtcClose ==
    /\ pc[cur_term_id] = "user" /\ ratio[cur_term_id] # Closed
    /\ ratio' = [ratio EXCEPT ![cur_term_id] = Closed]
    /\ UNCHANGED <<cur_term_id, shared, pc, div, ghosts>>

PowerOfTwo(freq) == \E k \in 0 .. 30 : freq = 2 ^ k   \* 2^31 is too large anyway

(* (freq & (freq-1)) != 0 || freq > MAX_RTC_FREQ, which 0 passes.          *)
FreqRefused(freq) == (freq # 0 /\ ~PowerOfTwo(freq)) \/ freq > MAX_RTC_FREQ

(* rtc_write.  The quotient by 0 is a divide error: the program is halted  *)
(* by exception_handler and its descriptors are closed.                    *)
RtcWrite(freq, nbytes) ==
    LET t == cur_term_id
        refused == nbytes <= 1 \/ FreqRefused(freq)
    IN  /\ pc[t] = "user" /\ ratio[t] # Closed
        /\ ratio' = [ratio EXCEPT ![t] = IF refused THEN @
                                         ELSE IF freq = 0 THEN Closed
                                         ELSE MAX_RTC_FREQ \div freq]
        /\ UNCHANGED <<cur_term_id, shared, pc, div, ghosts>>

(* rtc_read, up to the first sti.                                          *)
RtcRead ==
    LET t == cur_term_id IN
    /\ pc[t] = "user" /\ ratio[t] # Closed
    /\ pc' = [pc EXCEPT ![t] = "flag"]
    /\ UNCHANGED <<cur_term_id, shared, ratio, div, ghosts>>

\* Mutant: a ratio below 3 is not looked out for.
DivisorUnguarded(r) == r \div 3

(* 3 is the total terminal number.                                         *)
Divisor(r) == IF r \div 3 = 0 THEN 1 ELSE r \div 3

(* The first loop ends.  div is computed with interrupts off, and then the *)
(* second loop begins.                                                     *)
FlagSeen ==
    LET t == cur_term_id IN
    /\ pc[t] = "flag"
    /\ rtc_exe_flag # 0
    /\ div' = [div EXCEPT ![t] = Divisor(ratio[t])]
    /\ pc' = [pc EXCEPT ![t] = "count"]
    /\ woken' = [woken EXCEPT ![t] = FALSE]
    /\ UNCHANGED <<cur_term_id, shared, ratio, unread>>

\* Mutant: the counter is compared, so that a tick that was missed stays missed.
OnCountEqual(n, d) == n = d

OnCount(n, d) == n % d = 0

CountReached ==
    LET t == cur_term_id IN
    /\ pc[t] = "count"
    /\ OnCount(rtc_counter_global, div[t])
    /\ pc' = [pc EXCEPT ![t] = "done"]
    /\ UNCHANGED <<cur_term_id, shared, ratio, div, ghosts>>

\* Mutant: the interrupt is not marked as handled.
FlagLeftUp == rtc_exe_flag

FlagOnReturn == 0

(* After the last cli.                                                     *)
RtcReadReturns ==
    LET t == cur_term_id IN
    /\ pc[t] = "done"
    /\ rtc_exe_flag' = FlagOnReturn
    /\ pc' = [pc EXCEPT ![t] = "user"]
    /\ div' = [div EXCEPT ![t] = 1]
    /\ unread' = [unread EXCEPT ![t] = FALSE]
    /\ UNCHANGED <<cur_term_id, rtc_counter_global, elapsed, ratio, woken>>

(* pit_handler, for the clock's readers.                                   *)
RPit ==
    /\ elapsed \in Quanta /\ elapsed' = 0
    /\ cur_term_id' = (cur_term_id + 1) % MAX_TERMINAL_NUM
    /\ UNCHANGED <<rtc_counter_global, rtc_exe_flag, ratio, pc, div, ghosts>>

RNext ==
    \/ RtcHandler \/ RPit
    \/ RtcOpen \/ RtcClose
    \/ \E freq \in Freqs, n \in NbytesWritten : RtcWrite(freq, n)
    \/ RtcRead \/ FlagSeen \/ CountReached \/ RtcReadReturns

RSpec == RInit /\ [][RNext]_rvars

(* The clock and the timer never stop, and the process that is scheduled   *)
(* executes its loop many times between two clock interrupts.              *)
ReaderOf(t) == cur_term_id = t /\ (FlagSeen \/ CountReached \/ RtcReadReturns)

RFairSpec == /\ RSpec /\ WF_rvars(RtcHandler) /\ WF_rvars(RPit)
             /\ \A t \in Terminals : SF_rvars(ReaderOf(t))
----------------------------------------------------------------------------
(* Every variable has its type; in particular rtc_read never divides by 0. *)
RTypeOK ==
    /\ cur_term_id \in Terminals
    /\ rtc_counter_global \in -IntMax - 1 .. IntMax /\ rtc_exe_flag \in {0, 1}
    /\ elapsed \in Nat
    /\ ratio \in [Terminals -> {Closed} \cup 1 .. MAX_RTC_FREQ]
    /\ pc \in [Terminals -> {"user", "flag", "count", "done"}]
    /\ div \in [Terminals -> 1 .. MAX_RTC_FREQ]
    /\ woken \in [Terminals -> BOOLEAN] /\ unread \in [Terminals -> BOOLEAN]

(* One interrupt ends at most one rtc_read of a process, however many      *)
(* processes read and wherever in the two loops the interrupts fall: "Use  *)
(* a flag to indicate that RTC interrupt is handled and should not be      *)
(* handled again" (buglog.txt).                                            *)
TickUsedOnce ==
    \A t \in Terminals : pc[t] \in {"count", "done"} => unread[t]

(* "wait until next physical rtc interrupt": an interrupt lets every       *)
(* process pass that is waiting for it.                                    *)
TickWakesWaiter ==
    \A t \in Terminals : pc[t] = "flag" /\ woken[t] => rtc_exe_flag = 1

(* rtc_read returns, though the flag is shared, the counter wraps, and a   *)
(* process sees only the counts of its own turns: a divisor larger than a  *)
(* quantum may have no multiple in one turn, and has one in a later one.   *)
ReadsReturn ==
    \A t \in Terminals : pc[t] = "flag" ~> pc[t] = "user"
============================================================================

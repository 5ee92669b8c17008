----------------------------- MODULE RtcProofs -----------------------------
(***************************************************************************)
(* The clock's flag and divisor are safe for any number of readers, any    *)
(* width of the counter and any frequencies: proofs about module Rtc.      *)
(***************************************************************************)
EXTENDS Rtc, TLAPS

(* The inductive invariant: a flag that is up is news to every process.    *)
RInv ==
    /\ RTypeOK /\ TickUsedOnce
    /\ rtc_exe_flag = 1 => \A t \in Terminals : unread[t]

(* The quotients that rtc_open and rtc_write store as a ratio ...          *)
LEMMA Ratios ==
    ASSUME NEW freq \in 1 .. MAX_RTC_FREQ
    PROVE  MAX_RTC_FREQ \div freq \in 1 .. MAX_RTC_FREQ
<1> DEFINE q == MAX_RTC_FREQ \div freq
           r == MAX_RTC_FREQ % freq
<1>1. q \in Int /\ r \in 0 .. freq - 1 /\ MAX_RTC_FREQ = freq * q + r
  BY RtcAssumption
<1>2. q >= 1
  BY <1>1, RtcAssumption
<1>3. q <= MAX_RTC_FREQ
  BY <1>1, <1>2, RtcAssumption
<1> QED BY <1>1, <1>2, <1>3

(* ... and the divisor that rtc_read computes from it is not 0.            *)
LEMMA Divisors ==
    ASSUME NEW r \in {Closed} \cup 1 .. MAX_RTC_FREQ
    PROVE  Divisor(r) \in 1 .. MAX_RTC_FREQ
BY RtcAssumption DEF Divisor, Closed

(* At boot the flag is down and no process has the clock open.             *)
LEMMA InitRInv == RInit => RInv
BY RtcAssumption DEF RInit, RInv, RTypeOK, TickUsedOnce, Terminals, Closed

(* Each action keeps the invariant.  Only rtc_handler raises the flag, and *)
(* it does so for everybody; a process is past the first loop only after   *)
(* it has seen the flag up.                                                *)
LEMMA NextRInv == RInv /\ [RNext]_rvars => RInv'
<1> SUFFICES ASSUME RInv, [RNext]_rvars PROVE RInv'
  OBVIOUS
<1> USE DEF RInv, RTypeOK, TickUsedOnce, Terminals, Closed, shared, ghosts
<1>1. CASE RtcHandler
  BY <1>1, RtcAssumption DEF RtcHandler
<1>2. CASE RPit
  BY <1>2, RtcAssumption DEF RPit
<1>3. CASE RtcOpen
  BY <1>3, RtcAssumption DEF RtcOpen
<1>4. CASE RtcClose
  BY <1>4, RtcAssumption DEF RtcClose
<1>5. ASSUME NEW freq \in Freqs, NEW n \in NbytesWritten, RtcWrite(freq, n)
      PROVE  RInv'
  <2>1. ~FreqRefused(freq) /\ freq # 0 => MAX_RTC_FREQ \div freq \in 1 .. MAX_RTC_FREQ
    BY Ratios, RtcAssumption DEF FreqRefused
  <2> QED BY <1>5, <2>1, RtcAssumption DEF RtcWrite
<1>6. CASE RtcRead
  BY <1>6, RtcAssumption DEF RtcRead
<1>7. CASE FlagSeen
  <2>1. Divisor(ratio[cur_term_id]) \in 1 .. MAX_RTC_FREQ
    BY Divisors
  <2> QED BY <1>7, <2>1, RtcAssumption DEF FlagSeen
<1>8. CASE CountReached
  BY <1>8, RtcAssumption DEF CountReached
<1>9. CASE RtcReadReturns
  BY <1>9, RtcAssumption DEF RtcReadReturns, FlagOnReturn
<1>10. CASE UNCHANGED rvars
  BY <1>10 DEF rvars
<1> QED BY <1>1, <1>2, <1>3, <1>4, <1>5, <1>6, <1>7, <1>8, <1>9, <1>10 DEF RNext

(* The inductive invariant holds, however reads, ticks and switches mix.   *)
THEOREM RtcInvariance == RSpec => []RInv
BY InitRInv, NextRInv, PTL DEF RSpec

(* No division by zero in rtc_read, and no variable out of its range: the  *)
(* ratios rtc_write accepts are positive, and the counter wraps.           *)
THEOREM RtcTypeCorrect == RSpec => []RTypeOK
<1>1. RInv => RTypeOK
  BY DEF RInv
<1> QED BY <1>1, RtcInvariance, PTL

(* One interrupt ends at most one rtc_read of each process.                *)
THEOREM TicksAreUsedOnce == RSpec => []TickUsedOnce
<1>1. RInv => TickUsedOnce
  BY DEF RInv
<1> QED BY <1>1, RtcInvariance, PTL
============================================================================

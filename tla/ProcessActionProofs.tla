------------------------ MODULE ProcessActionProofs ------------------------
(***************************************************************************)
(* What a step of Process may never do, proved from the inductive          *)
(* invariant of ProcessProofs, and what halt reports.                      *)
(***************************************************************************)
EXTENDS ProcessProofs

(* The two program counts never drift apart, over any executes, halts,     *)
(* faults and relaunched shells.                                           *)
THEOREM CountsAgree ==
    ASSUME EarlyExecute = FALSE
    PROVE  Spec => []CountersAgree
<1>1. IInv => CountersAgree
  BY DEF IInv
<1> QED BY <1>1, Invariance, PTL
----------------------------------------------------------------------------
(* Of the counters of the terminals, a step lowers at most that of the     *)
(* scheduled one, and not below 1: a program with a parent is not alone.   *)
LEMMA CountersStay ==
    ASSUME SInv, [Next]_vars, NEW t \in Terminals, term_prog_counter[t] > 0
    PROVE  term_prog_counter'[t] > 0
<1>1. term_prog_counter \in [Terminals -> Nat] /\ cur_term_id \in Terminals
  BY SizesAssumption DEF SInv, TypeOK
<1>2. ASSUME NEW u, NEW cnt \in Nat, NEW n, NEW st, NEW par, NEW fds,
             Launch(u, cnt, n, st, par, fds)
      PROVE  term_prog_counter'[t] > 0
  BY <1>1, <1>2 DEF Launch
<1>3. ASSUME Running, NEW flag, NEW how, NEW s, HaltWith(flag, how, s)
      PROVE  term_prog_counter'[t] > 0
  <2> DEFINE child == Top(cur_term_id)
  <2>1. CASE parent[child] = NULL
    BY <1>2, <1>3, <2>1 DEF HaltWith, Relaunch
  <2>2. CASE parent[child] # NULL
    <3>1. term_prog_counter[cur_term_id] > 0 /\ term_prog_counter[cur_term_id] - 1 \in Slots
      BY <1>3, RunningFacts, TopFacts
    <3>2. term_prog_counter[cur_term_id] - 1 # 0
      BY <1>1, <2>2, <3>1 DEF SInv, Chained, Top
    <3>3. term_prog_counter' = [term_prog_counter EXCEPT ![cur_term_id] = @ - 1]
      BY <1>3, <2>2 DEF HaltWith, ReturnToParent
    <3> QED BY <1>1, <3>1, <3>2, <3>3
  <2> QED BY <2>1, <2>2
<1>4. CASE StartTerminal0
  BY <1>1, <1>2, <1>4, SizesAssumption DEF StartTerminal0, Terminals
<1>5. CASE Execute
  BY <1>1, <1>2, <1>5 DEF Execute
<1>6. CASE \E s \in Statuses : Halt(s)
  BY <1>3, <1>6 DEF Halt
<1>7. CASE Exception
  BY <1>3, <1>7 DEF Exception
<1>8. CASE Pit
  BY <1>2, <1>8 DEF Pit, SwitchProcess, StartShell, Resume, terms
<1>9. CASE \/ \E cmd \in {"NULL", "missing", "program"} : ExecuteRefused(cmd)
           \/ Open \/ (\E fd \in Fds : Close(fd)) \/ Vidmap
           \/ \E u \in Terminals : SwitchTerminal(u)
  BY <1>9 DEF ExecuteRefused, Open, Close, Vidmap, SwitchTerminal, terms
<1>10. CASE UNCHANGED vars
  BY <1>10 DEF vars, terms
<1> QED BY <1>4, <1>5, <1>6, <1>7, <1>8, <1>9, <1>10 DEF Next

(* halt never leaves a terminal without a program: the shell at the bottom *)
(* is started again, whether it halts or faults.                           *)
THEOREM NoTerminalDies ==
    ASSUME EarlyExecute = FALSE
    PROVE  Spec => TerminalsStayAlive
<1>1. IInv /\ [Next]_vars
      => [\A t \in Terminals : term_prog_counter[t] > 0 => term_prog_counter'[t] > 0]_vars
  <2> SUFFICES ASSUME IInv, [Next]_vars, NEW t \in Terminals, term_prog_counter[t] > 0
               PROVE  term_prog_counter'[t] > 0
    BY ZenonT(30)
  <2> QED BY SInvIsIInv, CountersStay
<1> QED BY <1>1, Invariance, PTL DEF Spec, TerminalsStayAlive
----------------------------------------------------------------------------
(* halt's value reaches execute's caller, and 256 stands for a fault, as   *)
(* long as the shells at the bottom do not fault: each fault that raises   *)
(* program_exception_flag then ends in the return that clears it.          *)
THEOREM StatusesAreDelivered ==
    ASSUME BaseMayFault = FALSE
    PROVE  Spec => []HaltStatusDelivered
<1> DEFINE Clear == program_exception_flag = 0 /\ HaltStatusDelivered
<1>1. Init => Clear
  BY DEF Init, HaltStatusDelivered, NoReturn
<1>2. Clear /\ [Next]_vars => Clear'
  <2> SUFFICES ASSUME Clear, [Next]_vars PROVE Clear'
    OBVIOUS
  <2>1. ASSUME NEW s \in Statuses, Halt(s) PROVE Clear'
    BY <2>1 DEF Halt, HaltWith, Relaunch, ReturnToParent, FlagAfterReturn, ExitValue,
                HaltStatusDelivered, NoReturn
  <2>2. CASE Exception
    BY <2>2 DEF Exception, HaltWith, ReturnToParent, FlagAfterReturn, ExitValue,
                HaltStatusDelivered
  <2>3. ASSUME NEW cmd, ExecuteRefused(cmd) PROVE Clear'
    BY <2>3 DEF ExecuteRefused, HaltStatusDelivered
  <2>4. CASE StartTerminal0
    BY <2>4 DEF StartTerminal0, HaltStatusDelivered
  <2>5. CASE Execute \/ Open \/ (\E fd \in Fds : Close(fd)) \/ Vidmap \/ Pit
             \/ \E t \in Terminals : SwitchTerminal(t)
    <3>1. program_exception_flag' = 0 /\ ret' = NoReturn
      BY <2>5 DEF Execute, Open, Close, Vidmap, Pit, SwitchTerminal
    <3> QED BY <3>1 DEF HaltStatusDelivered, NoReturn
  <2>6. CASE UNCHANGED vars
    BY <2>6 DEF vars, HaltStatusDelivered
  <2> QED BY <2>1, <2>2, <2>3, <2>4, <2>5, <2>6 DEF Next
<1>3. Clear => HaltStatusDelivered
  OBVIOUS
<1> QED BY <1>1, <1>2, <1>3, PTL DEF Spec
----------------------------------------------------------------------------
(* execute clears the descriptors of the PCB it takes and no others.       *)
LEMMA LaunchDescriptors ==
    ASSUME NEW t, NEW cnt, NEW n, NEW st \in StatusTables, NEW par,
           NEW fds \in [Pids -> SUBSET Fds], Launch(t, cnt, n, st, par, fds), NEW p \in Pids
    PROVE  /\ open_fds'[p] # fds[p] => p = cpu'
           /\ st[p] = 0 /\ status'[p] = 1 => open_fds'[p] = {}
<1>1. PICK q \in Pids : /\ status' = [st EXCEPT ![q] = 1]
                        /\ open_fds' = [fds EXCEPT ![q] = {}] /\ cpu' = q
  BY DEF Launch
<1> QED BY <1>1 DEF StatusTables

(* Descriptors of other processes are never touched, and a new program     *)
(* starts with none, though PCBs are reused.                               *)
LEMMA DescriptorStep ==
    ASSUME SInv, [Next]_vars, NEW p \in Pids
    PROVE  /\ open_fds'[p] # open_fds[p] => p \in {cpu, cpu'}
           /\ status[p] = 0 /\ status'[p] = 1 => open_fds'[p] = {}
<1>1. status \in StatusTables /\ open_fds \in [Pids -> SUBSET Fds]
  BY DEF SInv, TypeOK, StatusTables
<1>2. ASSUME NEW t, NEW cnt, NEW n, NEW par, Launch(t, cnt, n, status, par, open_fds)
      PROVE  /\ open_fds'[p] # open_fds[p] => p = cpu'
             /\ status[p] = 0 /\ status'[p] = 1 => open_fds'[p] = {}
  BY <1>1, <1>2, LaunchDescriptors
<1>3. ASSUME Running, NEW flag, NEW how, NEW s, HaltWith(flag, how, s)
      PROVE  /\ open_fds'[p] # open_fds[p] => p \in {cpu, cpu'}
             /\ status[p] = 0 /\ status'[p] = 1 => open_fds'[p] = {}
  <2> DEFINE child == Top(cur_term_id)
             st    == Released(child)
             fds   == FilesClosed
  <2>1. cpu = child /\ child \in Pids /\ file_array = child
    BY <1>3, RunningFacts
  <2>2. st \in StatusTables /\ (p # child => st[p] = status[p]) /\ st[child] = 0
    BY <1>1, <2>1 DEF Released, StatusTables
  <2>3. fds \in [Pids -> SUBSET Fds] /\ (p # child => fds[p] = open_fds[p])
    BY <1>1, <2>1 DEF FilesClosed
  <2>4. CASE Relaunch(child, flag)
    <3> HIDE DEF st, fds
    <3>1. Launch(cur_term_id, 0, prog_counter - 1, st, Orphaned(child), fds)
      BY <2>4 DEF Relaunch, st, fds
    <3>2. /\ open_fds'[p] # fds[p] => p = cpu'
          /\ st[p] = 0 /\ status'[p] = 1 => open_fds'[p] = {}
      BY <2>2, <2>3, <3>1, LaunchDescriptors
    <3> QED BY <2>1, <2>2, <2>3, <3>2
  <2>5. CASE ReturnToParent(child, flag, how, s)
    <3> HIDE DEF st, fds
    <3>1. status' = st /\ open_fds' = fds
      BY <2>5 DEF ReturnToParent, st, fds
    <3> QED BY <2>1, <2>2, <2>3, <3>1
  <2> QED BY <1>3, <2>4, <2>5 DEF HaltWith
<1>4. CASE StartTerminal0
  BY <1>2, <1>4 DEF StartTerminal0
<1>5. CASE Execute
  BY <1>2, <1>5 DEF Execute
<1>6. CASE \E s \in Statuses : Halt(s)
  BY <1>3, <1>6 DEF Halt
<1>7. CASE Exception
  BY <1>3, <1>7 DEF Exception
<1>8. CASE Pit
  BY <1>2, <1>8 DEF Pit, SwitchProcess, StartShell, Resume, pcbs
<1>9. CASE Open \/ \E fd \in Fds : Close(fd)
  <2>1. file_array = cpu /\ status' = status /\ \E new : open_fds' = [open_fds EXCEPT ![file_array] = new]
    BY <1>9, RunningFacts DEF Open, Close
  <2> QED BY <1>1, <2>1
<1>10. CASE \/ \E cmd \in {"NULL", "missing", "program"} : ExecuteRefused(cmd)
            \/ Vidmap \/ \E u \in Terminals : SwitchTerminal(u)
  BY <1>10 DEF ExecuteRefused, Vidmap, SwitchTerminal, pcbs
<1>11. CASE UNCHANGED vars
  BY <1>11 DEF vars, pcbs
<1> QED BY <1>4, <1>5, <1>6, <1>7, <1>8, <1>9, <1>10, <1>11 DEF Next

(* open, close, execute and halt keep descriptors private to a process.    *)
THEOREM DescriptorsArePrivate ==
    ASSUME EarlyExecute = FALSE
    PROVE  Spec => DescriptorsPrivate
<1>1. IInv /\ [Next]_vars
      => [\A p \in Pids :
            /\ open_fds'[p] # open_fds[p] => p \in {cpu, cpu'}
            /\ status[p] = 0 /\ status'[p] = 1 => open_fds'[p] = {}]_vars
  <2> SUFFICES ASSUME IInv, [Next]_vars, NEW p \in Pids
               PROVE  /\ open_fds'[p] # open_fds[p] => p \in {cpu, cpu'}
                      /\ status[p] = 0 /\ status'[p] = 1 => open_fds'[p] = {}
    BY ZenonT(30)
  <2> QED BY SInvIsIInv, DescriptorStep
<1> QED BY <1>1, Invariance, PTL DEF Spec, DescriptorsPrivate
----------------------------------------------------------------------------
(* A tick resumes the program on top of the next terminal, which is the    *)
(* one whose flag switch_process looks at, or starts a new one.            *)
THEOREM TicksMapVideo ==
    ASSUME EarlyExecute = FALSE
    PROVE  Spec => TickMapsVideo
<1>1. IInv /\ IInv' /\ [Next]_vars
      => [cur_term_id' # cur_term_id /\ video_mem_flag[cpu'] = 1 /\ status[cpu'] = 1
          => vid_present' /\ vid_base' = ScreenPage(cur_term_id')]_vars
  <2> SUFFICES ASSUME IInv, IInv', [Next]_vars, cur_term_id' # cur_term_id,
                      video_mem_flag[cpu'] = 1, status[cpu'] = 1
               PROVE  vid_present' /\ vid_base' = ScreenPage(cur_term_id')
    BY ZenonT(30)
  <2> DEFINE term == NextTerminal(cur_term_id)
  <2>1. Pit /\ prog_counter # 0
    <3>1. StartTerminal0 => cur_term_id' = cur_term_id
      BY DEF StartTerminal0, IInv, BootOrder
    <3>2. Pit
      BY <3>1 DEF Next, ExecuteRefused, Execute, Halt, HaltWith, Exception, Open, Close,
                  Vidmap, SwitchTerminal, vars, terms
    <3> QED BY <3>2 DEF Pit, terms
  <2>2. SwitchProcess(cur_term_id, term) /\ cur_term_id' = term /\ Running
    BY <2>1 DEF Pit, SwitchProcess
  <2>3. term_prog_counter'[term] > 0 /\ cpu' = prog_pids'[term][term_prog_counter'[term] - 1]
    <3>1. SInv
      BY SInvIsIInv
    <3>2. Running'
      BY <2>2, <3>1, StaysRunning
    <3> QED BY <2>2, <3>2 DEF IInv, ContextCoherent, Top
  <2>4. CASE term_prog_counter[term] = 0
    <3>1. StartShell(term)
      BY <2>2, <2>4 DEF SwitchProcess
    <3>2. Launch(term, 0, prog_counter, status, parent, open_fds)
      BY <2>3, <2>4, <3>1 DEF StartShell
    <3>3. status[cpu'] = 0
      BY <3>2 DEF Launch, FreePcb, FirstFree
    <3> QED BY <3>3
  <2>5. CASE term_prog_counter[term] # 0
    <3>1. Resume(term)
      BY <2>2, <2>5 DEF SwitchProcess
    <3>2. cpu' = Top(term)
      BY <2>3, <3>1 DEF Resume, Top
    <3> QED BY <2>2, <3>1, <3>2 DEF Resume, VidBaseFor
  <2> QED BY <2>4, <2>5
<1> QED BY <1>1, Invariance, PTL DEF Spec, TickMapsVideo
============================================================================

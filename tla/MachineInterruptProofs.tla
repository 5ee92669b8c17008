----------------------- MODULE MachineInterruptProofs -----------------------
(***************************************************************************)
(* What Machine, with the interrupt controllers and the gates, guarantees  *)
(* for every number of terminals, programs and PCBs: interrupts are        *)
(* acknowledged, requests are kept, and programs run with interrupts on.   *)
(***************************************************************************)
EXTENDS MachineProofs

(* What the controllers and the processor agree on: a handler runs with    *)
(* interrupts off and only its own line in service, until entry has        *)
(* finished there is neither a handler nor a program that faults, and the  *)
(* frames of the processes that wait have the flag set.                    *)
IntrInv ==
    /\ handler \in {"none", "PIT", "Keyboard", "RTC"}
    /\ IF_flag \in BOOLEAN /\ eflags \in [Pids -> BOOLEAN]
    /\ NothingInService /\ RightHandler /\ NoEdgeLost
    /\ waiting \subseteq {KEYBOARD_PIC, RTC_PIC}
    /\ ready => boot \in 2 .. 6
    /\ boot < 6 => handler = "none" /\ ~IF_flag /\ trapped = {}
    /\ ~ready => waiting = {}
    /\ IF_flag \/ handler # "none" => Running
    /\ ProgramsInterruptible

LEMMA InitIntrInv == MInit => IntrInv
<1> SUFFICES ASSUME MInit PROVE IntrInv
  OBVIOUS
<1>1. eflags \in [Pids -> BOOLEAN] /\ \A p \in Pids : status[p] # 1
  BY DEF MInit, Init
<1> QED BY ZenonT(40), <1>1 DEF MInit, InterruptsInit, Init, IntrInv, NothingInService, RightHandler,
           NoEdgeLost, ProgramsInterruptible, Running

(* The gate of each device's vector.                                       *)
LEMMA Gates ==
    /\ idt(VectorOf(PIT_IRQ)) = set_intr_gate("PIT")
    /\ idt(VectorOf(KEYBOARD_PIC)) = set_intr_gate("Keyboard")
    /\ idt(VectorOf(RTC_PIC)) = set_intr_gate("RTC")
BY DEF idt, VectorOf, PIT_IRQ, KEYBOARD_PIC, RTC_PIC, ICW2_MASTER, ICW2_SLAVE, Overflow,
       Bound_Range_Exceeded, Exceptions

(* Only the program a step starts to run can become live by it.            *)
LEMMA LiveStep ==
    ASSUME SInv, [Next]_vars, NEW p \in Pids, status'[p] = 1, p # cpu'
    PROVE  status[p] = 1
<1>1. status \in [Pids -> {0, 1}]
  BY DEF SInv, TypeOK
<1>2. ASSUME NEW t, NEW cnt, NEW n, NEW st \in [Pids -> {0, 1}], NEW par, NEW fds,
             Launch(t, cnt, n, st, par, fds)
      PROVE  st[p] = 1
  BY <1>2 DEF Launch
<1>3. ASSUME Running, NEW flag, NEW how, NEW s, HaltWith(flag, how, s)
      PROVE  status[p] = 1
  <2> DEFINE child == Top(cur_term_id)
             st    == [status EXCEPT ![child] = 0]
  <2>1. child \in Pids /\ st \in [Pids -> {0, 1}] /\ (st[p] = 1 => status[p] = 1)
    BY <1>1, <1>3, RunningFacts
  <2>2. CASE Relaunch(child, flag)
    BY ZenonT(40), <1>2, <2>1, <2>2 DEF Relaunch, Released
  <2>3. CASE ReturnToParent(child, flag, how, s)
    BY <2>1, <2>3 DEF ReturnToParent, Released
  <2> QED BY <1>3, <2>2, <2>3 DEF HaltWith
<1>4. CASE status' = status
  BY <1>4
<1>5. CASE StartTerminal0
  BY <1>1, <1>2, <1>5 DEF StartTerminal0
<1>6. CASE Execute
  BY <1>1, <1>2, <1>6 DEF Execute
<1>7. CASE \E s \in Statuses : Halt(s)
  BY <1>3, <1>7 DEF Halt
<1>8. CASE Exception
  BY <1>3, <1>8 DEF Exception
<1>9. CASE Pit
  BY <1>1, <1>2, <1>4, <1>9 DEF Pit, SwitchProcess, StartShell, Resume, pcbs
<1>10. CASE \/ \E cmd \in {"NULL", "missing", "program"} : ExecuteRefused(cmd)
            \/ Open \/ (\E fd \in Fds : Close(fd)) \/ Vidmap
            \/ \E t \in Terminals : SwitchTerminal(t)
  BY <1>4, <1>10 DEF ExecuteRefused, Open, Close, Vidmap, SwitchTerminal, pcbs
<1>11. CASE UNCHANGED vars
  BY <1>4, <1>11 DEF vars, pcbs
<1> QED BY <1>5, <1>6, <1>7, <1>8, <1>9, <1>10, <1>11 DEF Next

(* A step that leaves the processes, the flag and the frames alone.        *)
LEMMA FramesQuiet ==
    ASSUME IntrInv, UNCHANGED <<status, cpu, handler, IF_flag, eflags>>
    PROVE  /\ ProgramsInterruptible' /\ IF_flag' \in BOOLEAN
           /\ eflags' \in [Pids -> BOOLEAN]
<1>1. ProgramsInterruptible'
  BY ZenonT(30) DEF IntrInv, ProgramsInterruptible, Running
<1> QED BY <1>1 DEF IntrInv

(* A gate entered between handlers leaves a frame with the flag set, on    *)
(* the kernel stack of the program that ran.                               *)
LEMMA FramePushed ==
    ASSUME SInv, IntrInv, Running, handler = "none", EnterKernel
    PROVE  /\ cpu \in Pids /\ eflags' \in [Pids -> BOOLEAN] /\ eflags'[cpu] = TRUE
           /\ \A p \in Pids : p # cpu => eflags'[p] = eflags[p]
           /\ \A p \in Pids : status[p] = 1 => eflags'[p] = TRUE
<1>1. cpu \in Pids /\ esp0 = cpu
  BY RunningFacts
<1>2. IF_flag = TRUE /\ eflags \in [Pids -> BOOLEAN]
  BY DEF IntrInv, ProgramsInterruptible
<1>3. \A p \in Pids : status[p] = 1 /\ p # cpu => eflags[p] = TRUE
  BY <1>2 DEF IntrInv, ProgramsInterruptible
<1>4. eflags' = [eflags EXCEPT ![cpu] = TRUE]
  BY <1>1, <1>2 DEF EnterKernel
<1> QED BY <1>1, <1>2, <1>3, <1>4

(* A system call or an exception, entered and left with nothing in service:*)
(* the processes that wait afterwards waited before, or made the call.     *)
LEMMA CallI ==
    ASSUME SInv, IntrInv, [Next]_vars, handler = "none", boot = 6, boot' = boot,
           UNCHANGED <<ready, irr, isr, waiting, handler>>, Running', IF_flag' = TRUE,
           eflags' \in [Pids -> BOOLEAN],
           \A p \in Pids : status[p] = 1 /\ status'[p] = 1 /\ p # cpu' => eflags'[p] = TRUE
    PROVE  IntrInv'
<1>1. \A p \in Pids : status'[p] = 1 /\ p # cpu' => eflags'[p] = TRUE
  BY LiveStep
<1>2. ProgramsInterruptible'
  BY <1>1 DEF ProgramsInterruptible
<1>3. NothingInService' /\ RightHandler'
  BY DEF IntrInv, NothingInService, RightHandler
<1>4. NoEdgeLost'
  BY DEF IntrInv, NoEdgeLost
<1>5. /\ handler' \in {"none", "PIT", "Keyboard", "RTC"}
      /\ waiting' \subseteq {KEYBOARD_PIC, RTC_PIC}
      /\ (ready' => boot' \in 2 .. 6) /\ (~ready' => waiting' = {})
  BY DEF IntrInv
<1>6. IF_flag' \in BOOLEAN /\ ~(boot' < 6)
  OBVIOUS
<1> QED BY <1>2, <1>3, <1>4, <1>5, <1>6, ZenonT(30) DEF IntrInv

(* halt returns to a parent that was live, and so through a frame that     *)
(* sets the flag.                                                          *)
LEMMA ReturnI ==
    ASSUME SInv, IntrInv, Running, handler = "none",
           NEW flag, NEW how, NEW s, HaltWith(flag, how, s), parent[Top(cur_term_id)] # NULL
    PROVE  cpu' \in Pids /\ cpu' # cpu /\ status'[cpu] = 0 /\ eflags[cpu'] = TRUE
<1> DEFINE child == Top(cur_term_id)
           i     == term_prog_counter[cur_term_id] - 1
<1>1. status' = [status EXCEPT ![child] = 0] /\ cpu' = ebp[child]
  BY DEF HaltWith, ReturnToParent, Released
<1>2. cur_term_id \in Terminals /\ term_prog_counter[cur_term_id] > 0
      /\ child \in Pids /\ cpu = child
  BY RunningFacts
<1>3. /\ status \in [Pids -> {0, 1}] /\ Chained(term_prog_counter, prog_pids, parent, ebp)
      /\ Stacked(term_prog_counter, prog_pids, status)
      /\ term_prog_counter[cur_term_id] \in Nat
  BY <1>2, SizesAssumption DEF SInv, TypeOK
<1>4. i \in Slots /\ i < term_prog_counter[cur_term_id] /\ child = prog_pids[cur_term_id][i]
  <2>1. i \in Slots
    BY <1>2, TopFacts
  <2>2. i < term_prog_counter[cur_term_id]
    BY <1>3
  <2>3. child = prog_pids[cur_term_id][i]
    BY DEF Top
  <2> QED BY <2>1, <2>2, <2>3
<1>5. i # 0 /\ ebp[child] = prog_pids[cur_term_id][i - 1]
  BY SMTT(20), <1>2, <1>3, <1>4 DEF Chained
<1>6. i - 1 \in Slots /\ i - 1 < term_prog_counter[cur_term_id] /\ i - 1 # i
  BY <1>3, <1>4, <1>5, SizesAssumption DEF Slots
<1>7. status[ebp[child]] = 1 /\ ebp[child] # child
  <2> HIDE DEF i
  <2> QED BY <1>2, <1>3, <1>4, <1>5, <1>6 DEF Stacked
<1>8. ebp[child] \in Pids
  BY ParentFacts
<1>9. eflags[ebp[child]] = TRUE
  BY <1>2, <1>7, <1>8 DEF IntrInv, ProgramsInterruptible
<1> QED BY SMTT(20), <1>1, <1>2, <1>3, <1>7, <1>8, <1>9

(* halt of a bottom shell: the PCB that stays live is the new shell's.     *)
LEMMA RelaunchEnds ==
    ASSUME SInv, Running, NEW flag, NEW how, NEW s, HaltWith(flag, how, s),
           parent[Top(cur_term_id)] = NULL, NEW p \in Pids, status'[p] = 1, p # cpu'
    PROVE  p # cpu
<1> DEFINE child == Top(cur_term_id)
           st    == [status EXCEPT ![child] = 0]
<1>1. child \in Pids /\ cpu = child /\ status \in [Pids -> {0, 1}]
  BY RunningFacts DEF SInv, TypeOK
<1>2. PICK q \in Pids : status' = [st EXCEPT ![q] = 1] /\ cpu' = q
  BY DEF HaltWith, Relaunch, Released, Launch
<1> QED BY SMTT(20), <1>1, <1>2

(* The processor enters a gate only between handlers.                      *)
LEMMA AcceptI ==
    ASSUME SInv, PInv, IntrInv, NEW d \in Devices, AcceptLine(d)
    PROVE  IntrInv'
<1>1. handler = "none" /\ isr = {} /\ boot = 6 /\ boot' = 6 /\ ready' = ready
      /\ waiting' = waiting /\ irr' = irr \ {d} /\ isr' = {d, Priority(d)} /\ Running'
  BY DEF IntrInv, AcceptLine, Accept, RightHandler, NothingInService, PInv, Running, vars, regs
<1>2. /\ IF_flag' = FALSE
      /\ handler' = IF d = PIT_IRQ THEN "PIT" ELSE IF d = KEYBOARD_PIC THEN "Keyboard"
                    ELSE "RTC"
  <2> DEFINE g == idt(VectorOf(d))
  <2>1. handler' = g.name /\ IF_flag' = (IF_flag /\ g.trap)
    BY DEF AcceptLine, Accept
  <2>2. d = PIT_IRQ \/ d = KEYBOARD_PIC \/ d = RTC_PIC
    BY DEF Devices
  <2>3. g.trap = FALSE
    <3>1. \A name : set_intr_gate(name).trap = FALSE
      BY ZenonT(30) DEF set_intr_gate
    <3>2. \E name : g = set_intr_gate(name)
      BY <2>2, Gates
    <3> QED BY <3>1, <3>2, ZenonT(30)
  <2>4. g.name = IF d = PIT_IRQ THEN "PIT" ELSE IF d = KEYBOARD_PIC THEN "Keyboard" ELSE "RTC"
    BY <2>2, Gates DEF set_intr_gate
  <2>5. IF_flag' = FALSE
    BY <2>1, <2>3, ZenonT(30)
  <2> QED BY <2>1, <2>4, <2>5
<1>3. RightHandler'
  BY <1>1, <1>2 DEF RightHandler, Devices, Priority, PIT_IRQ, KEYBOARD_PIC, RTC_PIC, CASCADE
<1>4. handler' \in {"PIT", "Keyboard", "RTC"}
  BY <1>2 DEF Devices
<1>5. NoEdgeLost'
  BY <1>1 DEF IntrInv, NoEdgeLost
<1>6. eflags' \in [Pids -> BOOLEAN] /\ \A p \in Pids : status'[p] = 1 => eflags'[p] = TRUE
  <2>1. Running /\ EnterKernel /\ status' = status
    BY DEF AcceptLine, Accept, IntrInv, vars, pcbs
  <2> QED BY ZenonT(40), <1>1, <2>1, FramePushed
<1>7. ProgramsInterruptible' /\ IF_flag' \in BOOLEAN
  BY ZenonT(40), <1>2, <1>4, <1>6 DEF ProgramsInterruptible
<1> QED BY <1>1, <1>2, <1>3, <1>4, <1>5, <1>6, <1>7 DEF IntrInv, NothingInService

(* A handler that sends the EOI of its line leaves nothing in service.     *)
LEMMA HandlerI ==
    ASSUME SInv, PInv, IntrInv, [Next]_vars, NEW d \in Devices,
           handler = IF d = PIT_IRQ THEN "PIT" ELSE IF d = KEYBOARD_PIC THEN "Keyboard"
                     ELSE "RTC",
           isr' = send_eoi(d, isr), waiting' = waiting \ {d}, handler' = "none",
           IF_flag' = TRUE, boot' = boot, UNCHANGED <<ready, irr, eflags>>, Running'
    PROVE  IntrInv'
<1>1. handler # "none" /\ boot = 6
  BY DEF IntrInv, PInv, Devices
<1>2. isr = IF d = RTC_PIC THEN {CASCADE, RTC_PIC} ELSE {d}
  BY <1>1 DEF IntrInv, RightHandler, Devices, PIT_IRQ, KEYBOARD_PIC, RTC_PIC
<1>3. isr' = {}
  BY <1>2 DEF send_eoi, Devices, PIT_IRQ, KEYBOARD_PIC, RTC_PIC
<1>4. NoEdgeLost'
  BY ZenonT(40), <1>2, <1>3 DEF IntrInv, NoEdgeLost, KEYBOARD_PIC, RTC_PIC, CASCADE
<1>5. ProgramsInterruptible'
  <2>1. \A p \in Pids : status[p] = 1 => eflags[p] = TRUE
    BY <1>1 DEF IntrInv, ProgramsInterruptible
  <2>2. \A p \in Pids : status'[p] = 1 /\ p # cpu' => eflags'[p] = TRUE
    BY <2>1, LiveStep
  <2> QED BY <2>2 DEF ProgramsInterruptible
<1> QED BY <1>1, <1>3, <1>4, <1>5 DEF IntrInv, NothingInService, RightHandler

(* Every process that is live while a handler runs has its flag in a       *)
(* frame, and a tick that starts no shell continues one of them.           *)
LEMMA TickI ==
    ASSUME SInv, IntrInv, Pit, handler # "none", UNCHANGED eflags, LeaveKernel(TickLaunches)
    PROVE  IF_flag' = TRUE
<1> DEFINE term == NextTerminal(cur_term_id)
           new  == Top(term)
<1>1. Running /\ cur_term_id \in Terminals /\ prog_counter > 0
  BY RunningFacts DEF Pit
<1>2. term \in Terminals
  BY <1>1, NextTerminalValue, SizesAssumption DEF Terminals
<1>3. term_prog_counter[term] = 0 \/ term_prog_counter[term] > 0
  BY <1>2, SizesAssumption DEF SInv, TypeOK
<1>4. CASE term_prog_counter[term] = 0
  BY SMTT(20), <1>1, <1>4 DEF LeaveKernel, TickLaunches, FlagOfNewProgram
<1>5. CASE term_prog_counter[term] > 0
  <2>1. new \in Pids /\ status[new] = 1
    BY <1>2, <1>5, TopFacts
  <2>2. SwitchProcess(cur_term_id, term) /\ Resume(term)
    BY SMTT(20), <1>1, <1>5 DEF Pit, SwitchProcess
  <2>3. term_ebp'[new] = new
    BY <1>1, <1>2, <1>5, <2>2, SaveStep
  <2>4. cpu' = new
    BY SMTT(20), <2>1, <2>2, <2>3, NullIsNoPid DEF Resume
  <2>5. ~TickLaunches
    BY <1>5 DEF TickLaunches
  <2>6. eflags[new] = TRUE
    BY <2>1 DEF IntrInv, ProgramsInterruptible
  <2> QED BY <2>4, <2>5, <2>6 DEF LeaveKernel
<1> QED BY ZenonT(40), <1>3, <1>4, <1>5

(* entry programs the controllers before a device can have raised a line.  *)
LEMMA EntryI ==
    ASSUME PInv, PInv', IntrInv, Entry
    PROVE  IntrInv'
<1>1. /\ boot \in 0 .. 5 /\ boot' = boot + 1 /\ UNCHANGED <<vars, trapped, eflags>>
      /\ handler = "none" /\ IF_flag = FALSE /\ isr = {}
      /\ UNCHANGED <<waiting, handler, IF_flag>>
  BY DEF Entry, Step, EnableIrq, i8259_init, rtc_init, ivars, IntrInv, NothingInService
<1>2. ~Running /\ ~Running'
  BY <1>1 DEF PInv, Running, vars, regs
<1>3. ProgramsInterruptible' /\ IF_flag' \in BOOLEAN /\ eflags' \in [Pids -> BOOLEAN]
  BY <1>1, FramesQuiet DEF vars, pcbs, regs
<1>4. CASE i8259_init /\ boot = 1
  <2>1. ready' = TRUE /\ irr' = {} /\ isr' = {} /\ waiting = {}
    BY <1>4 DEF i8259_init, IntrInv
  <2> QED BY <1>1, <1>2, <1>3, <2>1, <1>4
          DEF IntrInv, NothingInService, RightHandler, NoEdgeLost
<1>5. CASE UNCHANGED <<ready, irr, isr>>
  <2>1. ready' => boot' \in 2 .. 6
    BY <1>1, <1>5 DEF IntrInv
  <2>2. handler' = "none" /\ ~IF_flag' /\ isr' = {} /\ ~Running'
    BY SMTT(20), <1>1, <1>2, <1>5
  <2>3. waiting' = waiting /\ NoEdgeLost' /\ (~ready' => waiting' = {})
    BY <1>1, <1>5 DEF IntrInv, NoEdgeLost
  <2>4. boot' < 6 => trapped' = {}
    BY <1>1 DEF IntrInv
  <2> QED BY <1>3, <2>1, <2>2, <2>3, <2>4 DEF IntrInv, NothingInService, RightHandler
<1> QED BY SMTT(20), <1>4, <1>5 DEF Entry, Step, EnableIrq, rtc_init, ivars

(* A device that raises its line has a request pending.                    *)
LEMMA RaiseI ==
    ASSUME PInv, IntrInv, NEW d \in Devices, RaiseLine(d)
    PROVE  IntrInv'
<1>1. /\ ready /\ irr' = irr \cup {d}
      /\ waiting' = IF d = PIT_IRQ THEN waiting ELSE waiting \cup {d}
      /\ UNCHANGED <<ready, isr, IF_flag, handler, boot, trapped, eflags, cpu, status>>
  BY DEF RaiseLine, Raise, vars, regs, pcbs
<1>2. NoEdgeLost' /\ waiting' \subseteq {KEYBOARD_PIC, RTC_PIC}
  BY <1>1 DEF IntrInv, NoEdgeLost, Devices, PIT_IRQ, KEYBOARD_PIC, RTC_PIC
<1>3. ProgramsInterruptible' /\ IF_flag' \in BOOLEAN /\ eflags' \in [Pids -> BOOLEAN]
  BY <1>1, FramesQuiet
<1> QED BY <1>1, <1>2, <1>3 DEF IntrInv, NothingInService, RightHandler, Running

LEMMA NextIntrInv ==
    ASSUME SInv, PInv, PInv', IntrInv, [MNext]_mvars
    PROVE  IntrInv'
<1>0. [Next]_vars /\ (Running => Running')
  <2>1. [Next]_vars
    BY ProcessStep DEF mvars
  <2> QED BY <2>1, StaysRunning
<1>1. CASE Entry
  BY <1>1, EntryI
<1>2. CASE StartFirstShell
  <2>1. boot = 6 /\ boot' = boot /\ UNCHANGED <<ready, irr, isr, waiting, handler, eflags>>
        /\ IF_flag' = TRUE /\ ~Running /\ StartTerminal0
    BY <1>2 DEF StartFirstShell, Booted, Unseen, LeaveKernel, FlagOfNewProgram,
       PStartTerminal0, StartTerminal0
  <2>2. handler = "none" /\ Running' /\ eflags' \in [Pids -> BOOLEAN]
    BY <1>0, <2>1, StaysRunning DEF IntrInv
  <2>3. \A p \in Pids : status[p] = 1 => eflags'[p] = TRUE
    <3>1. \A p \in Pids : status[p] = 1 => p # cpu
      BY <2>1, NullIsNoPid DEF Running
    <3> QED BY <2>1, <3>1 DEF IntrInv, ProgramsInterruptible
  <2> QED BY ZenonT(40), <1>0, <2>1, <2>2, <2>3, CallI
<1>3. ASSUME UserMode, Running PROVE handler = "none" /\ boot = 6 /\ Running'
  BY SMTT(20), <1>0, <1>3 DEF UserMode, PInv
<1>4. ASSUME Unseen PROVE boot' = boot /\ UNCHANGED <<ready, irr, isr, waiting, handler>>
  BY <1>4 DEF Unseen
<1>5. ASSUME UserMode, Running, Unseen, EnterKernel, IF_flag' = TRUE PROVE IntrInv'
  BY ZenonT(40), <1>0, <1>3, <1>4, <1>5, FramePushed, CallI
<1>6. ASSUME UserMode, Running, EnterKernel, cpu' = cpu, LeaveKernel(FALSE)
      PROVE  IF_flag' = TRUE
  BY SMTT(20), <1>3, <1>6, FramePushed DEF LeaveKernel
<1>7. ASSUME UserMode, Running, EnterKernel, NEW flag, NEW how, NEW s, HaltWith(flag, how, s),
             LeaveKernel(parent[Top(cur_term_id)] = NULL)
      PROVE  IF_flag' = TRUE
  <2>1. CASE parent[Top(cur_term_id)] = NULL
    BY <1>7, <2>1 DEF LeaveKernel, FlagOfNewProgram
  <2>2. CASE parent[Top(cur_term_id)] # NULL
    <3>1. eflags'[cpu'] = TRUE
      BY ZenonT(40), <1>3, <1>7, <2>2, ReturnI, FramePushed
    <3> QED BY <1>7, <2>2, <3>1 DEF LeaveKernel
  <2> QED BY ZenonT(40), <2>1, <2>2
<1>8. CASE SystemCall
  <2>1. UserMode /\ EnterKernel /\ Unseen
    BY <1>8 DEF SystemCall
  <2>2. CASE PExecute /\ LeaveKernel(TRUE)
    BY <1>5, <2>1, <2>2 DEF PExecute, Execute, LeaveKernel, FlagOfNewProgram
  <2>3. ASSUME NEW s \in Statuses, PHalt(s), LeaveKernel(parent[Top(cur_term_id)] = NULL)
        PROVE  IntrInv'
    BY ZenonT(40), <1>5, <1>7, <2>1, <2>3 DEF PHalt, Halt
  <2>4. CASE PVidmap /\ LeaveKernel(FALSE)
    BY <1>5, <1>6, <2>1, <2>4 DEF PVidmap, Vidmap, regs
  <2>5. ASSUME NEW cmd \in {"NULL", "missing", "program"}, PExecuteRefused(cmd),
               LeaveKernel(FALSE)
        PROVE  IntrInv'
    BY <1>5, <1>6, <2>1, <2>5 DEF PExecuteRefused, ExecuteRefused, regs
  <2> QED BY ZenonT(40), <1>8, <2>2, <2>3, <2>4, <2>5 DEF SystemCall
<1>9. CASE UserFault
  <2>1. UserMode /\ EnterKernel /\ Unseen /\ Running
        /\ LeaveKernel(parent[Top(cur_term_id)] = NULL) /\ HaltWith(1, "exception", 0)
    BY <1>9 DEF UserFault, PageFault, PException, Exception
  <2> QED BY ZenonT(40), <1>5, <1>7, <2>1
<1>10. CASE HandleTrap
  <2>1. handler = "none" /\ Unseen /\ Running /\ HaltWith(1, "exception", 0)
        /\ UNCHANGED eflags /\ LeaveKernel(parent[Top(cur_term_id)] = NULL)
    BY <1>10 DEF HandleTrap, PException, Exception
  <2>2. boot = 6 /\ Running' /\ eflags' \in [Pids -> BOOLEAN]
    BY <1>0, <2>1 DEF PInv, IntrInv
  <2>3. IF_flag' = TRUE
    <3>1. CASE parent[Top(cur_term_id)] = NULL
      BY <2>1, <3>1 DEF LeaveKernel, FlagOfNewProgram
    <3>2. CASE parent[Top(cur_term_id)] # NULL
      BY ZenonT(40), <2>1, <3>2, ReturnI DEF LeaveKernel
    <3> QED BY <3>1, <3>2
  <2>4. \A p \in Pids : status[p] = 1 /\ status'[p] = 1 /\ p # cpu' => p # cpu
    <3>1. CASE parent[Top(cur_term_id)] = NULL
      BY <2>1, <3>1, RelaunchEnds
    <3>2. CASE parent[Top(cur_term_id)] # NULL
      <4>1. status'[cpu] = 0
        BY ZenonT(40), <2>1, <3>2, ReturnI
      <4> QED BY <4>1
    <3> QED BY <3>1, <3>2
  <2>5. \A p \in Pids : status[p] = 1 /\ status'[p] = 1 /\ p # cpu' => eflags'[p] = TRUE
    BY <2>1, <2>4 DEF IntrInv, ProgramsInterruptible
  <2> QED BY ZenonT(40), <1>0, <1>4, <2>1, <2>2, <2>3, <2>5, CallI
<1>11. CASE UserAccess
  <2>1. UNCHANGED <<ready, irr, isr, waiting, handler, IF_flag, eflags, boot, trapped, cpu,
                    status>>
    BY <1>11 DEF UserAccess, Access, ivars, vars, pcbs, regs
  <2> QED BY <2>1, FramesQuiet, ZenonT(30)
          DEF IntrInv, NothingInService, RightHandler, NoEdgeLost, Running
<1>12. CASE EnterTrap
  <2>1. UserMode /\ Running /\ EnterKernel
        /\ UNCHANGED <<ready, irr, isr, waiting, handler, IF_flag, boot, cpu, status>>
    BY <1>12 DEF EnterTrap, ivars, vars, pcbs, regs
  <2>2. IF_flag = TRUE
    BY SMTT(20), <1>3, <2>1 DEF IntrInv, ProgramsInterruptible
  <2> QED BY ZenonT(40), <1>0, <1>3, <2>1, <2>2, FramePushed, CallI
<1>13. CASE \E d \in Devices : RaiseLine(d) \/ AcceptLine(d)
  BY <1>13, RaiseI, AcceptI
<1>14. ASSUME handler # "none" PROVE Running' /\ Running
  BY <1>0, <1>14 DEF IntrInv
<1>15. CASE PitInterrupt
  <2>1. waiting' = waiting \ {PIT_IRQ}
    BY <1>15 DEF PitInterrupt, IntrInv, PIT_IRQ, KEYBOARD_PIC, RTC_PIC
  <2>2. IF_flag' = TRUE
    BY <1>15, TickI DEF PitInterrupt, PPit
  <2> QED BY <1>0, <1>14, <1>15, <2>1, <2>2, HandlerI
          DEF PitInterrupt, EoiBeforeSwitch, Devices
<1>16. ASSUME handler # "none", cpu' = cpu, UNCHANGED eflags, LeaveKernel(FALSE)
       PROVE  IF_flag' = TRUE
  <2>1. cpu \in Pids /\ status[cpu] = 1
    BY <1>14, <1>16, RunningFacts, TopFacts
  <2>2. eflags[cpu] = TRUE
    BY <1>16, <2>1 DEF IntrInv, ProgramsInterruptible
  <2> QED BY <1>16, <2>2 DEF LeaveKernel
<1>17. CASE KeyboardInterrupt
  <2>1. handler = "Keyboard" /\ cpu' = cpu /\ UNCHANGED eflags /\ LeaveKernel(FALSE)
    BY ZenonT(40), <1>17 DEF KeyboardInterrupt, keyboard_handler, PSwitchTerminal, SwitchTerminal,
       vars, regs
  <2>2. IF_flag' = TRUE /\ Running'
    BY <1>14, <1>16, <2>1
  <2> QED BY <1>0, <1>17, <2>1, <2>2, HandlerI DEF KeyboardInterrupt, keyboard_handler,
          HandlerDone, Devices, PIT_IRQ, KEYBOARD_PIC, RTC_PIC
<1>18. CASE RtcInterrupt
  <2>1. handler = "RTC" /\ cpu' = cpu /\ UNCHANGED eflags /\ LeaveKernel(FALSE)
    BY <1>18 DEF RtcInterrupt, rtc_handler, vars, regs
  <2>2. IF_flag' = TRUE /\ Running'
    BY <1>14, <1>16, <2>1
  <2> QED BY <1>0, <1>18, <2>1, <2>2, HandlerI DEF RtcInterrupt, rtc_handler, HandlerDone,
          Devices, PIT_IRQ, KEYBOARD_PIC, RTC_PIC
<1>19. CASE UNCHANGED mvars
  <2>1. UNCHANGED <<ready, irr, isr, waiting, handler, IF_flag, eflags, boot, trapped, cpu,
                    status>>
    BY <1>19 DEF mvars, ivars, vars, pcbs, regs
  <2> QED BY <2>1, FramesQuiet, ZenonT(30)
          DEF IntrInv, NothingInService, RightHandler, NoEdgeLost, Running
<1> QED BY <1>1, <1>2, <1>8, <1>9, <1>10, <1>11, <1>12, <1>13, <1>15, <1>17, <1>18, <1>19
        DEF MNext

LEMMA InterruptInvariance ==
    ASSUME EarlyExecute = FALSE
    PROVE  MSpec => []IntrInv
<1>1. MInit => IntrInv
  BY InitIntrInv
<1>2. MInv /\ MInv' /\ IntrInv /\ [MNext]_mvars => IntrInv'
  BY NextIntrInv, ZenonT(30) DEF MInv
<1> QED BY <1>1, <1>2, MachineInvariance, PTL DEF MSpec

(* Whichever way a handler is left, by iret, into a new shell or into      *)
(* another process, its EOI has been sent (send_eoi), and the gates of     *)
(* idt_init, the vectors of i8259_init and the EOIs belong together.       *)
THEOREM EveryInterruptIsAcknowledged ==
    ASSUME EarlyExecute = FALSE
    PROVE  MSpec => []ServiceInStep
<1>1. IntrInv => ServiceInStep
  BY DEF IntrInv, ServiceInStep
<1> QED BY <1>1, InterruptInvariance, PTL

(* The keyboard and the clock are never left waiting for a handler that    *)
(* will not come: keyboard_handler and rtc_handler read before the EOI.    *)
THEOREM EdgesAreKept ==
    ASSUME EarlyExecute = FALSE
    PROVE  MSpec => []NoEdgeLost
<1>1. IntrInv => NoEdgeLost
  BY DEF IntrInv
<1> QED BY <1>1, InterruptInvariance, PTL

(* Every program runs with interrupts on and is left, by every gate, with  *)
(* a frame that turns them on again: the flag context_switch pushes for a  *)
(* new program is all that the kernel itself has to set.                   *)
THEOREM ProgramsAreInterruptible ==
    ASSUME EarlyExecute = FALSE
    PROVE  MSpec => []ProgramsInterruptible
<1>1. IntrInv => ProgramsInterruptible
  BY DEF IntrInv
<1> QED BY <1>1, InterruptInvariance, PTL
============================================================================

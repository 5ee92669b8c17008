------------------------------- MODULE Machine -------------------------------
(***************************************************************************)
(* Processes, their address spaces and the interrupts that drive them, put *)
(* together: entry() of student-distrib/kernel.c brings the machine up,    *)
(* and from then on programs run with interrupts on, a timer interrupt     *)
(* that is raised, accepted and acknowledged is what runs pit_handler, and *)
(* system calls and exceptions enter through the gates of idt.c.           *)
(***************************************************************************)
EXTENDS Paging, Interrupts

VARIABLES
    boot,       \* how far entry() has come
    trapped,    \* processes that have entered a trap gate and not yet
                \* executed the cli at the start of the exception's wrapper
    eflags      \* the interrupt flag in the frame that each process's next
                \* iret will load: pushed on its kernel stack by the last gate

mvars == <<vars, pvars, ivars, boot, trapped, eflags>>

MInit ==
    /\ Init /\ PagingInit /\ InterruptsInit
    /\ boot = 0
    /\ trapped = {}
    /\ eflags = [p \in Pids |-> FALSE]
----------------------------------------------------------------------------
Step(n) == boot = n /\ boot' = n + 1 /\ UNCHANGED <<vars, image, trapped, eflags>>

EnableIrq(irq) ==
    /\ enable_irq(irq)
    /\ UNCHANGED <<mmu, ready, irr, isr, waiting, rtc_on, IF_flag, handler>>

(* entry, from init_paging to enable_irq(0), with interrupts off.  The     *)
(* initialisation of the other modules' state is in their initial states.  *)
Entry ==
    \/ Step(0) /\ mmu' = init_paging /\ UNCHANGED ivars
    \/ Step(1) /\ i8259_init /\ UNCHANGED mmu
    \/ Step(2) /\ EnableIrq(KEYBOARD_PIC)
    \/ Step(3) /\ rtc_init /\ UNCHANGED mmu
    \/ Step(4) /\ EnableIrq(RTC_PIC)
    \/ Step(5) /\ EnableIrq(PIT_IRQ)

Booted == boot = 6

\* Mutant: EFLAGS are pushed as they are in the kernel.
FlagsAsInKernel == FALSE

(* The interrupt flag context_switch gives a new program: it is set in the *)
(* EFLAGS iret will load, whatever the kernel runs with.                   *)
FlagOfNewProgram == TRUE

(* A gate pushes the flag, with the rest of EFLAGS, on the kernel stack of *)
(* the process it interrupts: tss.esp0's, or, inside a trap gate, the same *)
(* stack further down.                                                     *)
EnterKernel == eflags' = [eflags EXCEPT ![esp0] = IF_flag]

(* iret: a program that has just been loaded starts with the flag pushed   *)
(* for it, any other process continues with the flag of its own frame.     *)
LeaveKernel(launched) ==
    IF_flag' = IF launched THEN FlagOfNewProgram ELSE eflags'[cpu']

(* What the devices and controllers do not see of a system call.           *)
Unseen == UNCHANGED <<masked, ready, irr, isr, waiting, rtc_on, handler, boot>>

StartFirstShell ==
    /\ Booted
    /\ PStartTerminal0
    /\ LeaveKernel(TRUE)
    /\ Unseen /\ UNCHANGED <<trapped, eflags>>
----------------------------------------------------------------------------
(* A program executes its own code.                                        *)
UserMode == handler = "none" /\ cpu \notin trapped

(* INT 0x80 through an interrupt gate: the call runs with interrupts off.  *)
SystemCall ==
    /\ UserMode /\ EnterKernel
    /\ \/ PExecute /\ LeaveKernel(TRUE)
       \/ \E s \in Statuses : PHalt(s) /\ LeaveKernel(parent[Top(cur_term_id)] = NULL)
       \/ PVidmap /\ LeaveKernel(FALSE)
       \/ \E cmd \in {"NULL", "missing", "program"} :
             PExecuteRefused(cmd) /\ LeaveKernel(FALSE)
    /\ Unseen /\ UNCHANGED trapped

UserAccess ==
    /\ UserMode
    /\ \E v \in Directory : Access(v)
    /\ UNCHANGED <<ivars, boot, trapped, eflags>>

(* A page fault, through an interrupt gate.                                *)
UserFault ==
    /\ UserMode /\ EnterKernel
    /\ \E v \in Directory : PageFault(v)
    /\ LeaveKernel(parent[Top(cur_term_id)] = NULL)
    /\ Unseen /\ UNCHANGED trapped

(* INTO and BOUND enter through the trap gates, which leave the flag set:  *)
(* an interrupt may be accepted before the wrapper's cli ...               *)
EnterTrap ==
    /\ UserMode /\ Running
    /\ BaseMayFault \/ parent[Top(cur_term_id)] # NULL
    /\ \E v \in {Overflow, Bound_Range_Exceeded} : idt(v).trap
    /\ trapped' = trapped \cup {cpu}
    /\ EnterKernel
    /\ UNCHANGED <<vars, pvars, ivars, boot>>

(* ... and exception_handler runs after it.                                *)
HandleTrap ==
    /\ handler = "none" /\ cpu \in trapped
    /\ PException
    /\ trapped' = trapped \ {cpu}
    /\ UNCHANGED eflags
    /\ LeaveKernel(parent[Top(cur_term_id)] = NULL)
    /\ Unseen
----------------------------------------------------------------------------
RaiseLine(d) == Raise(d) /\ UNCHANGED <<vars, pvars, boot, trapped, eflags>>

AcceptLine(d) == Accept(d) /\ EnterKernel /\ UNCHANGED <<vars, pvars, boot, trapped>>

(* Does pit_handler enter a new shell instead of returning to a frame?     *)
TickLaunches ==
    prog_counter # 0 /\ term_prog_counter[NextTerminal(cur_term_id)] = 0

\* Mutant: the EOI is sent after switch_process, so not when it enters a shell.
EoiAfterSwitch == IF TickLaunches THEN isr ELSE send_eoi(PIT_IRQ, isr)

(* pit_handler sends its EOI before it calls switch_process.               *)
EoiBeforeSwitch == send_eoi(PIT_IRQ, isr)

PitInterrupt ==
    /\ handler = "PIT"
    /\ PPit
    /\ handler' = "none" /\ isr' = EoiBeforeSwitch
    /\ UNCHANGED <<masked, ready, irr, waiting, rtc_on, boot, trapped, eflags>>
    /\ LeaveKernel(TickLaunches)

(* A key: Alt+Fn changes the displayed terminal, any other key nothing     *)
(* that is modelled here.                                                  *)
KeyboardInterrupt ==
    /\ keyboard_handler
    /\ \/ \E t \in Terminals : PSwitchTerminal(t)
       \/ UNCHANGED <<vars, pvars>>
    /\ UNCHANGED <<boot, trapped, eflags>>
    /\ LeaveKernel(FALSE)

RtcInterrupt ==
    /\ rtc_handler
    /\ UNCHANGED <<vars, pvars, boot, trapped, eflags>>
    /\ LeaveKernel(FALSE)
----------------------------------------------------------------------------
MNext ==
    \/ Entry \/ StartFirstShell
    \/ SystemCall \/ UserAccess \/ UserFault \/ EnterTrap \/ HandleTrap
    \/ \E d \in Devices : RaiseLine(d) \/ AcceptLine(d)
    \/ PitInterrupt \/ KeyboardInterrupt \/ RtcInterrupt

MSpec == MInit /\ [][MNext]_mvars

(* The boot code and handlers run to their end, the timer keeps ticking,   *)
(* and the processor takes an interrupt it is continuously offered.        *)
MFairSpec ==
    /\ MSpec
    /\ WF_mvars(Entry) /\ WF_mvars(StartFirstShell)
    /\ WF_mvars(RaiseLine(PIT_IRQ)) /\ WF_mvars(AcceptLine(PIT_IRQ))
    /\ WF_mvars(PitInterrupt) /\ WF_mvars(KeyboardInterrupt) /\ WF_mvars(RtcInterrupt)
----------------------------------------------------------------------------
(* No program runs with interrupts off, whichever gate, system call, halt, *)
(* fault or timer switch it is entered or continued through: the flag is   *)
(* on while a program runs, and every live process that is not running, or *)
(* that a handler interrupts, has left a frame that will set it.           *)
ProgramsInterruptible ==
    /\ Running /\ handler = "none" => IF_flag
    /\ \A p \in Pids : status[p] = 1 /\ (p = cpu => handler # "none") => eflags[p]

(* Only the program that is running ends: a fault taken through a trap     *)
(* gate, even with a switch to another terminal before its wrapper's cli,  *)
(* ends the program that faulted.                                          *)
FaultEndsFaulter ==
    [][\A p \in Pids : status[p] = 1 /\ status'[p] = 0 => p = cpu]_mvars
============================================================================

------------------------------ MODULE Process ------------------------------
(***************************************************************************)
(* Processes, their scheduling over the terminals and the machine context  *)
(* that follows them: student-distrib/process.c, scheduling.c,             *)
(* system_call.c (halt, execute, open, close, vidmap), exceptions.c and    *)
(* the part of paging.c these call.                                        *)
(*                                                                         *)
(* A system call enters through an interrupt gate, so it runs with         *)
(* interrupts off and is one action here; the timer and keyboard           *)
(* interrupts fall between actions.  (The two waits that turn interrupts   *)
(* on inside a call change no variable of this module.)                    *)
(***************************************************************************)
EXTENDS Integers, FiniteSets

CONSTANTS
    MAX_TERMINAL_NUM,       \* terminals, each with a stack of programs
    MAX_PROG_NUM_PER_TERM,  \* programs in one terminal
    MAX_PID,                \* process control blocks are 0 .. MAX_PID
    MAX_PROGRAM_COUNT,      \* programs in all terminals
    FILE_LIMIT,             \* descriptors of a process are 0 .. FILE_LIMIT - 1
    Statuses,               \* the values programs pass to halt
    EarlyExecute,           \* may a program call execute before every
                            \* terminal has been given its first shell?
    BaseMayFault            \* may the shell at the bottom of a terminal fault?

ASSUME SizesAssumption ==
    /\ MAX_TERMINAL_NUM \in Nat \ {0}
    /\ MAX_PROG_NUM_PER_TERM \in Nat \ {0}
    /\ MAX_PID \in Nat
    /\ MAX_PROGRAM_COUNT \in Nat
    /\ FILE_LIMIT \in Nat /\ FILE_LIMIT >= 2

(* What the #defines of keyboard.h, system_call.h and process.h satisfy:   *)
(* every terminal can have a shell, every program can have a PCB.          *)
ASSUME CapacityAssumption ==
    MAX_TERMINAL_NUM <= MAX_PROGRAM_COUNT /\ MAX_PROGRAM_COUNT <= MAX_PID + 1

ASSUME EnvironmentAssumption ==
    /\ Statuses \subseteq 0 .. 255
    /\ EarlyExecute \in BOOLEAN
    /\ BaseMayFault \in BOOLEAN

Terminals == 0 .. MAX_TERMINAL_NUM - 1
Pids      == 0 .. MAX_PID
Slots     == 0 .. MAX_PROG_NUM_PER_TERM - 1
Fds       == 2 .. FILE_LIMIT - 1       \* 0 and 1 are always the terminal
NULL      == -1
EXP_ERROR == 256
PROG_LIMIT_REACHED == 1

VARIABLES
    cur_term_id,            \* the scheduled terminal
    active_term_idx,        \* the displayed terminal
    term_prog_counter,      \* terminals[t].term_prog_counter
    prog_pids,              \* terminals[t].prog_pids
    prog_counter,
    program_exception_flag,
    status,                 \* pcb->status: 1 while the program lives
    parent,                 \* pcb->parent_pcb_pointer, as a pid
    ebp,                    \* pcb->ebp and pcb->term_ebp, saved frames, each
    term_ebp,               \*   named by the pid whose kernel stack holds it
    video_mem_flag,
    open_fds,               \* pcb->file_array: the entries whose flags are set
    cpu,                    \* the process whose code the processor executes
    page,                   \* pid of the frame mapped at 128MB
    esp0,                   \* pid of the kernel stack tss.esp0 points to
    file_array,             \* pid of the PCB file_array points into
    vid_present,            \* is the user video page (132MB) present?
    vid_base,               \* its frame: 0 for VIDEO, t + 1 for t's backup
    ret                     \* what the last step returned from execute, and why

terms == <<cur_term_id, active_term_idx, term_prog_counter, prog_pids, prog_counter>>
pcbs  == <<status, parent, ebp, term_ebp, video_mem_flag, open_fds>>
regs  == <<cpu, page, esp0, file_array>>
vid   == <<vid_present, vid_base>>
vars  == <<terms, pcbs, regs, vid, program_exception_flag, ret>>

NoReturn == [how |-> "none", status |-> 0, val |-> 0]

(* The process on top of a terminal's stack is the one the terminal runs.  *)
Top(t) == prog_pids[t][term_prog_counter[t] - 1]

AllStarted == \A t \in Terminals : term_prog_counter[t] > 0

(* The page a terminal's output goes to: VIDEO if it is displayed, else    *)
(* the backup page of the terminal (change_prog_vid_mapping).              *)
ScreenPage(t) == IF t = active_term_idx THEN 0 ELSE t + 1
----------------------------------------------------------------------------
(* The state entry() leaves behind before it calls start_terminal0.  The   *)
(* boot stack is at 8MB, which is also the kernel stack of PCB 0.          *)
Init ==
    /\ cur_term_id = 0 /\ active_term_idx = 0
    /\ term_prog_counter = [t \in Terminals |-> 0]
    /\ prog_pids = [t \in Terminals |-> [i \in Slots |-> 0]]
    /\ prog_counter = 0
    /\ program_exception_flag = 0
    /\ status = [p \in Pids |-> 0]
    /\ parent = [p \in Pids |-> NULL]
    /\ ebp = [p \in Pids |-> NULL] /\ term_ebp = [p \in Pids |-> NULL]
    /\ video_mem_flag = [p \in Pids |-> 0]
    /\ open_fds = [p \in Pids |-> {}]
    /\ cpu = NULL /\ page = NULL /\ file_array = NULL /\ esp0 = 0
    /\ vid_present = FALSE /\ vid_base = 0
    /\ ret = NoReturn

(* Interrupts are on only once the first shell has been entered.           *)
Running == cpu # NULL
----------------------------------------------------------------------------
(* The limits checked by _execute.                                         *)
LimitReached(cnt, n) == cnt >= MAX_PROG_NUM_PER_TERM \/ n >= MAX_PROGRAM_COUNT

\* Mutant: the number of live programs is used as the next pid.
CountAsPid(p, st) == p = Cardinality({q \in Pids : st[q] = 1})

(* get_active_pcb: the lowest PCB that is not in use.                      *)
FirstFree(p, st) == st[p] = 0 /\ \A q \in Pids : q < p => st[q] # 0

FreePcb(n, st, p) == n <= MAX_PID /\ FirstFree(p, st)

Refuses(cnt, n, st) ==
    LimitReached(cnt, n) \/ \A p \in Pids : ~FreePcb(n, st, p)

\* Mutant: off by one in the parent's slot.
ParentOffByOne(t, cnt) == IF cnt = 0 THEN NULL ELSE prog_pids[t][cnt]

(* create_pcb: the program that calls execute is the parent.               *)
ParentOf(t, cnt) == IF cnt = 0 THEN NULL ELSE prog_pids[t][cnt - 1]

(* The successful half of _execute in terminal t: create_pcb,              *)
(* setup_paging, the ebp saved for halt, context_switch.  cnt, n, st, par  *)
(* and fds are t's counter, prog_counter, status, parent and open_fds as   *)
(* _execute finds them; it runs on the kernel stack esp0.                  *)
Launch(t, cnt, n, st, par, fds) ==
    \E p \in Pids :
        /\ FreePcb(n, st, p)
        /\ status' = [st EXCEPT ![p] = 1]
        /\ parent' = [par EXCEPT ![p] = ParentOf(t, cnt)]
        /\ open_fds' = [fds EXCEPT ![p] = {}]
        /\ ebp' = [ebp EXCEPT ![p] = esp0]
        /\ prog_counter' = n + 1
        /\ prog_pids' = [prog_pids EXCEPT ![t][cnt] = p]
        /\ term_prog_counter' = [term_prog_counter EXCEPT ![t] = cnt + 1]
        /\ cpu' = p /\ page' = p /\ esp0' = p /\ file_array' = p

(* start_terminal0, called by entry with interrupts off.                   *)
StartTerminal0 ==
    /\ ~Running
    /\ active_term_idx' = 0 /\ cur_term_id' = 0
    /\ Launch(0, term_prog_counter[0], prog_counter, status, parent, open_fds)
    /\ UNCHANGED <<term_ebp, video_mem_flag, vid, program_exception_flag, ret>>

(* What a refused _execute returns.                                        *)
RefusalValue(cmd) ==
    IF cmd # "NULL" /\ LimitReached(term_prog_counter[cur_term_id], prog_counter)
    THEN PROG_LIMIT_REACHED
    ELSE -1

(* _execute returns early on a NULL command, at a limit, for a file that   *)
(* is missing or not executable, and when no PCB is free.                  *)
ExecuteRefused(cmd) ==
    /\ Running
    /\ \/ cmd # "program"
       \/ Refuses(term_prog_counter[cur_term_id], prog_counter, status)
    /\ ret' = [how |-> "refused", status |-> 0, val |-> RefusalValue(cmd)]
    /\ UNCHANGED <<terms, pcbs, regs, vid, program_exception_flag>>

(* execute, for a command that names a program.                            *)
Execute ==
    /\ Running
    /\ EarlyExecute \/ AllStarted
    /\ ~Refuses(term_prog_counter[cur_term_id], prog_counter, status)
    /\ Launch(cur_term_id, term_prog_counter[cur_term_id], prog_counter,
              status, parent, open_fds)
    /\ ret' = NoReturn
    /\ UNCHANGED <<cur_term_id, active_term_idx, term_ebp, video_mem_flag, vid,
                   program_exception_flag>>
----------------------------------------------------------------------------
\* Mutant: the program of the displayed terminal is released.
ReleasedDisplayed(child) ==
    [status EXCEPT ![IF term_prog_counter[active_term_idx] > 0
                     THEN Top(active_term_idx) ELSE child] = 0]

(* halt, first half: the PCB is released and its files are closed.         *)
Released(child) == [status EXCEPT ![child] = 0]
Orphaned(child) == [parent EXCEPT ![child] = NULL]
FilesClosed     == [open_fds EXCEPT ![file_array] = {}]

\* Mutant: prog_counter is not decremented before the shell is started again.
RelaunchKeepsCount(child, flag) ==
    /\ Launch(cur_term_id, 0, prog_counter,
              Released(child), Orphaned(child), FilesClosed)
    /\ program_exception_flag' = flag
    /\ ret' = NoReturn
    /\ UNCHANGED <<video_mem_flag, vid>>

\* Mutant: the shell at the bottom is not started again.
RelaunchOmitted(child, flag) ==
    /\ status' = Released(child)
    /\ parent' = Orphaned(child)
    /\ open_fds' = FilesClosed
    /\ prog_counter' = prog_counter - 1
    /\ term_prog_counter' = [term_prog_counter EXCEPT ![cur_term_id] = 0]
    /\ program_exception_flag' = flag
    /\ ret' = NoReturn
    /\ UNCHANGED <<prog_pids, ebp, regs, video_mem_flag, vid>>

(* halt of the program at the bottom of the terminal: a new shell takes    *)
(* its place.  The jump into the new shell skips the rest of halt.         *)
Relaunch(child, flag) ==
    /\ Launch(cur_term_id, 0, prog_counter - 1,
              Released(child), Orphaned(child), FilesClosed)
    /\ program_exception_flag' = flag
    /\ ret' = NoReturn
    /\ UNCHANGED <<video_mem_flag, vid>>

(* The value jump_to_exec_ret hands to the parent.                         *)
ExitValue(flag, s) == IF flag = 1 THEN EXP_ERROR ELSE s

\* Mutant: the flag stays raised after the exception has been reported.
FlagKept(flag) == flag

(* program_exception_flag after halt has returned to a parent.             *)
FlagAfterReturn(flag) == IF flag = 1 THEN 0 ELSE flag

\* Mutant: tss.esp0 is computed before the counter is decremented.
BelowTooEarly(t) == Top(t)

(* The program below child on the stack, once the counter has been         *)
(* decremented; jump_to_exec_ret loads its kernel stack.                   *)
Below(t) == prog_pids[t][term_prog_counter[t] - 2]

(* halt of any other program: back into the parent's execute, through the  *)
(* frame saved in the child's PCB.                                         *)
ReturnToParent(child, flag, how, s) ==
    /\ status' = Released(child)
    /\ parent' = Orphaned(child)
    /\ open_fds' = FilesClosed
    /\ vid_present' = FALSE
    /\ video_mem_flag' = [video_mem_flag EXCEPT ![child] = 0]
    /\ prog_counter' = prog_counter - 1
    /\ term_prog_counter' = [term_prog_counter EXCEPT ![cur_term_id] = @ - 1]
    /\ file_array' = parent[child]
    /\ page' = parent[child]
    /\ esp0' = Below(cur_term_id)
    /\ cpu' = ebp[child]
    /\ program_exception_flag' = FlagAfterReturn(flag)
    /\ ret' = [how |-> how, status |-> s, val |-> ExitValue(flag, s)]
    /\ UNCHANGED <<prog_pids, ebp, vid_base>>

HaltWith(flag, how, s) ==
    LET child == Top(cur_term_id) IN
    /\ IF parent[child] = NULL
       THEN Relaunch(child, flag)
       ELSE ReturnToParent(child, flag, how, s)
    /\ UNCHANGED <<cur_term_id, active_term_idx, term_ebp>>

Halt(s) == Running /\ HaltWith(program_exception_flag, "halt", s)

(* exception_handler: halt(0) with program_exception_flag raised.          *)
Exception ==
    /\ Running
    /\ prog_counter # 0
    /\ BaseMayFault \/ parent[Top(cur_term_id)] # NULL
    /\ HaltWith(1, "exception", 0)
----------------------------------------------------------------------------
(* open and close, as far as they take and release descriptors.            *)
Open ==
    /\ Running
    /\ \E fd \in Fds \ open_fds[file_array] :
          /\ \A lower \in Fds : lower < fd => lower \in open_fds[file_array]
          /\ open_fds' = [open_fds EXCEPT ![file_array] = @ \cup {fd}]
    /\ ret' = NoReturn
    /\ UNCHANGED <<terms, status, parent, ebp, term_ebp, video_mem_flag, regs, vid,
                   program_exception_flag>>

Close(fd) ==
    /\ Running
    /\ fd \in open_fds[file_array]
    /\ open_fds' = [open_fds EXCEPT ![file_array] = @ \ {fd}]
    /\ ret' = NoReturn
    /\ UNCHANGED <<terms, status, parent, ebp, term_ebp, video_mem_flag, regs, vid,
                   program_exception_flag>>

(* vidmap, for a pointer inside the program page.                          *)
Vidmap ==
    /\ Running
    /\ vid_present' = TRUE
    /\ video_mem_flag' = [video_mem_flag EXCEPT ![Top(cur_term_id)] = 1]
    /\ ret' = NoReturn
    /\ UNCHANGED <<terms, status, parent, ebp, term_ebp, open_fds, regs, vid_base,
                   program_exception_flag>>
----------------------------------------------------------------------------
\* Mutant: the context is saved in the PCB that is about to be resumed.
SaveInNext(prev, term) == IF term_prog_counter[term] = 0 THEN Top(prev) ELSE Top(term)

(* The PCB switch_process saves the interrupted context in.                *)
SaveSlot(prev, term) == Top(prev)

\* Mutant: the last terminal is never scheduled.
NextTerminalShort(t) == (t + 1) % (MAX_TERMINAL_NUM - 1)

NextTerminal(t) == (t + 1) % MAX_TERMINAL_NUM

(* switch_process, for a terminal that has no program yet.  If execute     *)
(* refuses, switch_process returns and the interrupted process goes on.    *)
StartShell(term) ==
    /\ IF Refuses(0, prog_counter, status)
       THEN UNCHANGED <<term_prog_counter, prog_pids, prog_counter, status, parent,
                        ebp, open_fds, regs>>
       ELSE Launch(term, 0, prog_counter, status, parent, open_fds)
    /\ UNCHANGED vid

\* Mutant: off by one in the backup page.
VidBaseNext(term) == IF term = active_term_idx THEN 0 ELSE term + 2

\* Mutant: the real video memory is mapped for every terminal.
VidBaseReal(term) == 0

(* change_prog_vid_mapping, called for a process that has asked for it.    *)
VidBaseFor(term) == ScreenPage(term)

\* Mutant: file_array is left pointing to the previous process.
ResumeKeepsFileArray(term) ==
    LET new == Top(term) IN
    /\ page' = new /\ esp0' = new
    /\ cpu' = IF term_ebp'[new] # NULL THEN term_ebp'[new] ELSE cpu
    /\ UNCHANGED <<file_array, vid, term_prog_counter, prog_pids, prog_counter, status,
                   parent, ebp, open_fds>>

\* Mutant: the video page is given its frame but not made present again.
ResumeLeavesVideoOff(term) ==
    LET new == Top(term) IN
    /\ page' = new /\ esp0' = new /\ file_array' = new
    /\ cpu' = IF term_ebp'[new] # NULL THEN term_ebp'[new] ELSE cpu
    /\ vid_present' = vid_present
    /\ vid_base' = IF video_mem_flag[new] = 1 THEN VidBaseFor(term) ELSE vid_base
    /\ UNCHANGED <<term_prog_counter, prog_pids, prog_counter, status, parent, ebp,
                   open_fds>>

(* switch_process, for a terminal that has one: its context is loaded and  *)
(* the frame it saved last is returned through.                            *)
Resume(term) ==
    LET new == Top(term) IN
    /\ page' = new /\ esp0' = new /\ file_array' = new
    /\ cpu' = IF term_ebp'[new] # NULL THEN term_ebp'[new] ELSE cpu
    /\ IF video_mem_flag[new] = 1
       THEN vid_present' = TRUE /\ vid_base' = VidBaseFor(term)
       ELSE UNCHANGED vid
    /\ UNCHANGED <<term_prog_counter, prog_pids, prog_counter, status, parent, ebp,
                   open_fds>>

SwitchProcess(prev, term) ==
    /\ cur_term_id' = term
    /\ term_ebp' = [term_ebp EXCEPT ![SaveSlot(prev, term)] = esp0]
    /\ IF term_prog_counter[term] = 0 THEN StartShell(term) ELSE Resume(term)

(* pit_handler                                                             *)
Pit ==
    /\ Running
    /\ IF prog_counter = 0
       THEN UNCHANGED <<terms, pcbs, regs, vid>>
       ELSE /\ SwitchProcess(cur_term_id, NextTerminal(cur_term_id))
            /\ UNCHANGED <<active_term_idx, video_mem_flag>>
    /\ ret' = NoReturn
    /\ UNCHANGED program_exception_flag

(* switch_terminal, called by keyboard_handler for Alt+F1 .. Alt+F3.       *)
SwitchTerminal(t) ==
    /\ Running
    /\ active_term_idx' = t
    /\ ret' = NoReturn
    /\ UNCHANGED <<cur_term_id, term_prog_counter, prog_pids, prog_counter, pcbs,
                   regs, vid, program_exception_flag>>
----------------------------------------------------------------------------
Next ==
    \/ StartTerminal0
    \/ \E cmd \in {"NULL", "missing", "program"} : ExecuteRefused(cmd)
    \/ Execute
    \/ \E s \in Statuses : Halt(s)
    \/ Exception
    \/ Open
    \/ \E fd \in Fds : Close(fd)
    \/ Vidmap
    \/ Pit
    \/ \E t \in Terminals : SwitchTerminal(t)

Spec == Init /\ [][Next]_vars

(* The boot code runs to its end and the timer keeps ticking.              *)
FairSpec == Spec /\ WF_vars(StartTerminal0) /\ WF_vars(Pit)
----------------------------------------------------------------------------
(* Counters stay within the limits of _execute and every pid kept in a     *)
(* terminal, a PCB or a register names a PCB.                              *)
TypeOK ==
    /\ cur_term_id \in Terminals /\ active_term_idx \in Terminals
    /\ term_prog_counter \in [Terminals -> 0 .. MAX_PROG_NUM_PER_TERM]
    /\ prog_pids \in [Terminals -> [Slots -> Pids]]
    /\ prog_counter \in 0 .. MAX_PROGRAM_COUNT
    /\ program_exception_flag \in {0, 1}
    /\ status \in [Pids -> {0, 1}]
    /\ parent \in [Pids -> Pids \cup {NULL}]
    /\ ebp \in [Pids -> Pids \cup {NULL}]
    /\ term_ebp \in [Pids -> Pids \cup {NULL}]
    /\ video_mem_flag \in [Pids -> {0, 1}]
    /\ open_fds \in [Pids -> SUBSET Fds]
    /\ cpu \in Pids \cup {NULL} /\ page \in Pids \cup {NULL}
    /\ esp0 \in Pids /\ file_array \in Pids \cup {NULL}
    /\ vid_present \in BOOLEAN /\ vid_base \in 0 .. MAX_TERMINAL_NUM
    /\ ret \in [how : {"none", "refused", "halt", "exception"},
                status : 0 .. 255, val : {-1, EXP_ERROR} \cup 0 .. 255]

Live == {p \in Pids : status[p] = 1}

(* The programs of a terminal, from the bottom of its stack to the top.    *)
Stack(t) == {prog_pids[t][i] : i \in 0 .. term_prog_counter[t] - 1}

(* No PCB (and so no kernel stack and no program page) is shared: the      *)
(* slots in use, over all terminals, hold distinct pids, and exactly the   *)
(* pids that get_active_pcb will not hand out again.                       *)
PcbsExclusive ==
    /\ \A t, u \in Terminals : \A i, j \in Slots :
          /\ i < term_prog_counter[t] /\ j < term_prog_counter[u]
          /\ prog_pids[t][i] = prog_pids[u][j]
          => t = u /\ i = j
    /\ Live = UNION {Stack(t) : t \in Terminals}

(* The global and the per-terminal program counts, which halt, create_pcb  *)
(* and the limits keep separately, describe the same set of programs.      *)
CountersAgree ==
    prog_counter = Cardinality(Live)

(* Each program's parent is the program below it in the same terminal, and *)
(* the frame halt will return through is the parent's own execute call, on *)
(* the parent's kernel stack; only the shell at the bottom has no parent.  *)
ParentChain ==
    \A t \in Terminals : \A i \in Slots : i < term_prog_counter[t] =>
        LET p == prog_pids[t][i] IN
        IF i = 0 THEN parent[p] = NULL
                 ELSE parent[p] = prog_pids[t][i - 1] /\ ebp[p] = parent[p]

(* Whenever a user program can run or be interrupted, the machine context  *)
(* belongs to one process, the top of the scheduled terminal: its code     *)
(* executes, its page is mapped, its kernel stack takes the next entry,    *)
(* its descriptors are used.                                               *)
ContextCoherent ==
    Running => /\ term_prog_counter[cur_term_id] > 0
               /\ cpu = Top(cur_term_id) /\ page = cpu
               /\ esp0 = cpu /\ file_array = cpu

(* The top program of every terminal that waits for its turn has saved its *)
(* own context: the frame restore_ebp will use is on its own kernel stack, *)
(* though create_pcb never clears the term_ebp left by an earlier program. *)
SavedContexts ==
    \A t \in Terminals :
        t # cur_term_id /\ term_prog_counter[t] > 0 => term_ebp[Top(t)] = Top(t)

(* Until every terminal has its shell, the terminals are started one per   *)
(* tick and in order, one program each, so that execute cannot refuse the  *)
(* shell that switch_process starts.                                       *)
BootOrder ==
    /\ ~Running => /\ cur_term_id = 0 /\ prog_counter = 0
                   /\ \A t \in Terminals : term_prog_counter[t] = 0
    /\ Running /\ ~AllStarted =>
          /\ prog_counter = cur_term_id + 1
          /\ \A t \in Terminals : term_prog_counter[t] = IF t <= cur_term_id THEN 1 ELSE 0

(* The inductive invariant behind the safety properties above.             *)
IInv == /\ TypeOK /\ PcbsExclusive /\ CountersAgree /\ ParentChain
        /\ ContextCoherent /\ SavedContexts /\ BootOrder

(* A value returned by execute after halt is the value given to halt, and  *)
(* a program that dies by an exception, and only that, is reported as such. *)
HaltStatusDelivered ==
    /\ ret.how = "halt" => ret.val = ret.status
    /\ ret.how = "exception" => ret.val = EXP_ERROR

(* While a program that has called vidmap runs, its video page is the      *)
(* screen of its terminal: "active terminal maps to real video memory page; *)
(* inactive terminal maps to backup page" (change_prog_vid_mapping).        *)
VideoPageIsOwnScreen ==
    Running /\ video_mem_flag[cpu] = 1 => vid_base = ScreenPage(cur_term_id)

(* A terminal that has a shell keeps one: halt never empties a terminal.   *)
TerminalsStayAlive ==
    [][\A t \in Terminals : term_prog_counter[t] > 0 => term_prog_counter'[t] > 0]_vars

(* Descriptors are private: a step changes only those of the process that  *)
(* ran before it or of the one it creates, and a new program has none.     *)
DescriptorsPrivate ==
    [][\A p \in Pids :
          /\ open_fds'[p] # open_fds[p] => p \in {cpu, cpu'}
          /\ status[p] = 0 /\ status'[p] = 1 => open_fds'[p] = {}]_vars

(* A timer tick hands a program that called vidmap its page, on its own    *)
(* terminal's screen.                                                      *)
TickMapsVideo ==
    [][cur_term_id' # cur_term_id /\ video_mem_flag[cpu'] = 1 /\ status[cpu'] = 1
       => vid_present' /\ vid_base' = ScreenPage(cur_term_id')]_vars

(* halt unmaps the video page whichever program the caller was, also when  *)
(* the parent it returns to has called vidmap and still draws: a program   *)
(* that stays on top of its terminal is given the page back, on its own    *)
(* screen, again and again, by the switches of the timer.                  *)
VideoComesBack ==
    \A p \in Pids :
        <>[](\E t \in Terminals : term_prog_counter[t] > 0 /\ Top(t) = p
                                  /\ video_mem_flag[p] = 1)
        => []<>(cpu = p /\ vid_present /\ vid_base = ScreenPage(cur_term_id))

(* Round robin: every terminal is given a shell, and its top program runs  *)
(* again and again, whatever the other terminals execute.                  *)
EveryTerminalRuns ==
    \A t \in Terminals :
        []<>(cur_term_id = t /\ term_prog_counter[t] > 0 /\ cpu = Top(t))
============================================================================

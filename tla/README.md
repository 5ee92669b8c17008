# A TLA+ model of the kernel in `student-distrib/`

The repository is a small x86 kernel: three terminals, each with a stack of
user programs, scheduled round robin by the PIT, with a keyboard, a screen, a
real-time clock and a read-only file system behind ten system calls, and the
user programs that run on it. These modules model its state machines and
routines, TLC checks them on small instances, and TLAPS proves the process,
scheduling, paging, interrupt, line-input and clock invariants for every size.

## 1. The system

| Part | State | Operations | Talks to |
|---|---|---|---|
| processes (`process.c`, `system_call.c`) | PCBs (status, parent, saved `ebp`, descriptors, `video_mem_flag`), `prog_counter`, `program_exception_flag` | `execute`, `halt`, `vidmap`, `open`, `close` | scheduler, paging, file system |
| scheduler (`scheduling.c`) | `terminals[t]` (program stack, counters), `cur_term_id`, `active_term_idx`, saved `term_ebp` | `pit_handler`, `switch_process`, `switch_terminal`, `start_terminal0` | everything that runs |
| exceptions (`exceptions.c`) | the exception flag | `exception_handler`, which calls `halt` | processes, screen |
| paging (`paging.c`) | page directory, user video table, cached translations, program frames | `init_paging`, `setup_paging`, the video page's mapping | processes, scheduler, loader |
| interrupts (`i8259.c`, `idt.c`, the linkage files) | masks, requests, lines in service, gates, the interrupt flag | `i8259_init`, `enable_irq`, `send_eoi`, entry and `iret` | every handler |
| boot (`kernel.c`) | how far `entry` has come | `entry` | paging, interrupts, scheduler |
| keyboard (`keyboard.c`) | modifier flags; per terminal `keyboard_buf`, `buf_index`, `TERMINAL_READ_FLAG` | `keyboard_handler`, `scancode_handler`, `terminal_read` | screen, scheduler |
| screen (`lib.c`, part of `paging.c`) | video memory, a backup page and a cursor per terminal, the hardware cursor | `putc`, `putc_direct`, `scroll`, `scroll_direct`, `clear`, `backspace`, page copies | keyboard, `terminal_write`, display switch |
| clock (`rtc.c`) | `rtc_counter_global`, `rtc_exe_flag`, a ratio per descriptor | `rtc_handler`, `rtc_open/read/write/close` | scheduler |
| file system (`file_system.c`) | the image (constant), descriptors | `read_dentry_by_name`, `read_data`, `file_*`, `directory_*`, `check_validity`, `program_loader`, `parse_command` | processes |
| routines (`lib.c`, `ece391support.c`) | memory, the direction flag | `memset`, `memcpy`, `memmove`, `str*`, `itoa`, `printf` | everything |
| user programs (`syscalls/`, `fish/`) | their buffers and positions | `cat`, `ls`, `grep`, `pingpong`, the shell, `syserr`, `fish` | file system, clock |

**What runs concurrently.** System calls and interrupt handlers enter through
interrupt gates, so they run with interrupts off and are single actions here.
There are three exceptions. `terminal_read` and `rtc_read` execute `sti` and
spin: they are split into several actions at those points, and keys, clock and
timer interrupts and the programs of other terminals fall between them.
Overflow and bound exceptions enter through trap gates: a timer interrupt may
fall between the fault and the `cli` of the handler's wrapper (`EnterTrap` and
`HandleTrap` in `Machine`). Between two system calls a timer tick may switch to
another terminal.

**What is hard to test** is listed, line by line, as the hazards of
`PROJECT.json`: contexts saved in the wrong place or resumed stale, counters and
stacks that drift apart over execute/halt/fault/relaunch, translations and
frames that belong to another program, an interrupt that is never acknowledged,
a line torn in the `sti` window, output around a display switch, one clock flag
for all readers, descriptors reused, lines cut by a buffer, and the edges of
buffers, screens, files and numbers.

## 2. Modules

| Module | Models | Role |
|---|---|---|
| `Process` | `process.c`, `scheduling.c`, `halt`/`execute`/`open`/`close`/`vidmap`, `exceptions.c` | component |
| `ProcessProofs`, `ProcessActionProofs` | | TLAPS proofs about `Process`: invariants; what a step may never do |
| `Paging` | `paging.c`, the loading of a program's frame | `Process` with its page tables and translations |
| `Interrupts` | `i8259.c`, `idt.c`, the interrupt linkage | component |
| `Machine` | `entry` of `kernel.c`, system call and exception entry | composes `Paging` and `Interrupts`, implements `Process` |
| `MachineProofs`, `MachineInterruptProofs` | | TLAPS proofs about `Paging` and `Machine`; about `Interrupts` in `Machine` |
| `LineInput` | | what reading a line promises (abstract) |
| `Terminal` | `keyboard_handler`, `scancode_handler`, `terminal_read` | component, implements `LineInput` |
| `TerminalProofs` | | TLAPS proofs about `Terminal`, the refinement included |
| `VirtualScreens` | | one screen per terminal, one cursor (abstract) |
| `Display` | screen output of `lib.c`, `terminal_write`, display switch | component, implements `VirtualScreens` |
| `Console` | a key's effect on buffer and screen together | composes `Terminal` and `Display` |
| `Rtc` | `rtc.c` | component |
| `RtcProofs` | | TLAPS proofs about `Rtc` |
| `FileStreams` | | independent streams and whole executables (abstract) |
| `FileSystem` | `file_system.c`, descriptors, the loading half of `execute` | component, implements `FileStreams` |
| `Commands` | the shell's line, `parse_command`, `getargs`, the emulator's `execute` and `getargs` | operators |
| `UserCalls`, `Utilities`, `SysErr`, `Fish` | `cat`, `ls`, `grep`, `pingpong`, the shell; `syserr`; `fish` with `blink.S` | user programs on `FileSystem` |
| `Lib`, `LibCalls` | routines of `lib.c` and `ece391support.c`, and calls of them with reference definitions | operators |
| `Programs` | | one program of `UserCalls` at a time, on `FileSystem` and `Lib` |
| `MC*` | | instances for TLC |

Variables and operators keep the names of the C code. Where the code has no
variable the module says so: `cpu` in `Process` is the process whose code
executes, `pc` is the place in a spinning call, `delivered` and `ret` record
what the last call gave its caller, `woken` and `unread` in `Rtc` are history
variables.

How code corresponds to the less obvious definitions:

- **Process.** A kernel stack, a program page and a PCB are named by the pid
  they belong to; a saved frame is the pid of the stack that holds it. `Launch`
  is the successful half of `_execute` (`create_pcb`, paging, the frame saved
  for `halt`, `context_switch`). It is shared by `Execute`, by the relaunch of a
  bottom shell in `halt` and by the first shell of a terminal in
  `switch_process`, and takes the tables as the caller has changed them.
  `Resume` jumps through `term_ebp`, whatever it holds: that it belongs to the
  resumed program is a property (`SavedContexts`), not an assumption. PCBs are
  reused as the code does it, without clearing `term_ebp` and `video_mem_flag`.
- **Paging.** Each action is one of `Process` conjoined with the calls it makes
  into `paging.c`. Physical addresses are page numbers; the directory has the
  entries the code sets and one that stands for all others. A program's access
  (`Access`) puts a translation into the cache, where it stays until
  `flush_tlb`; `image` says whose program each frame holds, and the loader
  writes through whatever translation is in force.
- **Interrupts, Machine.** What the controllers and devices do on their own
  (`Raise`, `Deliverable`, `Accept`) is hardware, marked external. Handlers are
  entered through the gate of the vector the controllers were programmed with;
  that this is the right handler is a property. A device raises its line only
  after `i8259_init`, since whether the firmware has read an earlier key is not
  in the code. `eflags` is the interrupt flag in the frame each process's next
  `iret` loads: every gate pushes it (`EnterKernel`), every way out of the kernel
  loads that of the process it continues (`LeaveKernel`), and a new program gets
  the one `context_switch` pushes. Interrupts are accepted here only while a
  program runs; the `sti`
  windows of `terminal_read` and `rtc_read` are in `Terminal` and `Rtc`. `open`
  and `close`, which concern neither mappings nor interrupts, are left to
  `Process`.
- **Terminal.** Characters are ASCII codes and the scancode tables are the
  program's, because the handler compares characters and scancodes with each
  other (`IsSwitchKey`).
- **Display.** Video memory is one array with the backup pages after it, so a
  write past a page would land in the next one. `ScrollDirect` reads below the
  last row as the code does.
- **Console.** A key's effect on the buffer and on the screen is one step.
  `CNext` leaves out the two callers of `clear()`, `halt` of a bottom shell and
  `exception_handler`: they clear the displayed screen whoever they run for, and
  `CHaltSpec`, which has them, is where `EchoMatchesLine` fails (section 6).
- **Rtc.** `elapsed` only counts clock interrupts since the last tick, which
  `Quanta` bounds (below).
- **FileSystem.** `read_data` tests for the end of the file after it has copied
  a byte, as the code does; arithmetic on positions is modulo `WORD`. A file
  shorter than the magic number leaves part of `magic_buf` uninitialised: the
  comparison may then go either way.
- **User programs.** A step is a system call of `FileSystem` and the computation
  up to the next; `st` holds the place and the local variables. `grep`'s array is
  not initialised: for each file its bytes are all NUL, all a letter or all a
  newline. A behaviour of
  `Programs` is one program; `task` says which, and `"any"` is a program that
  makes file calls in any order.
- **Lib.** The string instructions obey a direction flag that calls leave for
  each other; memory is a function from addresses to bytes.

## 3. Runs

| Run | Instance | Result |
|---|---|---|
| `processes` | 3 terminals, 2 programs each, 4 PCBs, 4 programs in all, any fault | holds, 395,863 states |
| `nested` | 2 terminals, stacks of 3, one free descriptor, bottom shells do not fault | holds, 2.6 million states |
| `machine` | 2 terminals, 2 programs each, 3 PCBs, 3 programs in all, 3 devices, from `entry()` on | holds, 851,738 states |
| `lines` | 2 terminals, 3-character buffer, 10 keys | holds, 160,992 states |
| `screens` | 2 terminals, 2x2 screens in 5-cell pages | holds, 37,944 states |
| `echo` | 2 terminals, typing at one, 2x2 screens, 3-character buffer, 7 keys, program output | holds, 313,164 states |
| `clock` | 3 terminals, 2 readers, 6-bit counter, maximum 64 Hz, 8 or 9 interrupts a quantum | holds, 513,920 states |
| `programs` | 6 entries, 2-byte blocks, 4-byte buffers, 43 programs with their arguments, 364 typed lines | holds, 67,131 states |
| `stale_exception_flag`, `video_page_screen`, `echo_halt`, `clock_stolen` | small | violated, see section 6 |

What they show:

- **processes.** PCBs are exclusive (`PcbsExclusive`) and the three ways of
  counting programs agree (`CountersAgree`); code, page, kernel stack and
  descriptors belong to the top program of the scheduled terminal
  (`ContextCoherent`), and waiting terminals have their own context saved
  (`SavedContexts`). A tick maps the video page of the terminal it schedules
  (`TickMapsVideo`), no terminal loses its last program (`TerminalsStayAlive`),
  and every terminal runs again and again (`EveryTerminalRuns`). `halt` of a child
  takes the video page away from a parent that has called `vidmap`; a program
  that stays on top of its terminal gets it back, again and again
  (`VideoComesBack`).
- **nested.** The parent link and the frame `halt` uses are those of the caller
  of `execute` (`ParentChain`), the value of `halt`, or 256 for a fault, reaches
  the parent (`HaltStatusDelivered`), and descriptors stay private
  (`DescriptorsPrivate`), through stacks of three.
- **machine.** While a program runs, the page tables and every cached
  translation give it its own frame, its video page and nothing else
  (`TranslationsCurrent`), and the frame of a live program is never loaded over
  (`FramesIntact`). Each line enters its own handler, alone and with interrupts
  off, and no line stays in service when a handler is left, also into a new
  shell or another process (`ServiceInStep`). A keyboard or clock that waits to
  be read has a request under way (`NoEdgeLost`), programs run with interrupts
  on and every waiting process has left a frame that turns them on
  (`ProgramsInterruptible`), only the running program can end, also with a
  timer interrupt inside a trap gate (`FaultEndsFaulter`), and every terminal
  still runs again and again when ticks are requests that must be raised,
  accepted and acknowledged (`EveryTerminalRuns`).
- **lines.** `terminal_read` and the keyboard implement `LineInput`
  (`ImplementsLineInput`); no key of the `sti` window changes a finished line
  (`LineComplete`); the copy stays in the caller's buffer (`ReadFitsBuffer`); an
  entered line is returned (`EnteredLineReturns`).
- **screens.** `Display` implements `VirtualScreens`, with the displayed
  screen's cursor as the hardware cursor (`ImplementsScreens`); `backspace`,
  which skips empty cells, never meets one before the cursor
  (`NoGapBeforeCursor`).
- **echo.** What stands before the cursor is the line `terminal_read` will
  return (`EchoMatchesLine`), character by character, with display switches in
  the middle of lines, prompts and keys typed ahead before them, a tab of two
  cells, and lines that wrap and scroll.
- **clock.** No division by zero (`RTypeOK`), one return per process and
  interrupt (`TickUsedOnce`), every read returns (`ReadsReturn`).
- **programs.** Open descriptors are independent streams, and `execute` loads
  whole executables only (`ImplementsStreams`); positions stay in the file
  (`FTypeOK`). What the programs read fits their buffers (`ReadsFit`). `cat`
  prints the file, `ls` every name, `grep` the lines that hold the pattern,
  although its buffer cuts lines in two, and the ball of `pingpong` stays between
  the walls (`UtilitiesExact`). Of `grep` this is said for files without NULs; a
  line longer than its buffer counts as pieces of the buffer's size, and if the
  byte behind the buffer was a newline, the file may be cut at one more place. A typed line reaches the program as its name and its
  argument, through the shell, `parse_command` and `getargs`, and with single
  spaces the emulator passes on the same (`ArgumentsDelivered`). `syserr`'s tests pass
  (`SysErrPasses`), `fish` shows the frames of its files in turn
  (`FishShowsFrames`), the library routines compute what their comments say
  (`RoutinesExact`), and the programs that should end do (`ProgramsEnd`).

**Bounds.** They are the smallest at which the cases differ. In `processes` the
limits keep the relation of the `#define`s (4 = 2 + 2 as 6 = 4 + 2): once every
terminal has its shell, a full stack means that the global limit is reached too,
so the per-terminal test never decides alone. The proofs cover every other
relation. PCBs are reused by other terminals. In `nested` a program has both a
parent and a child. `machine` has one program more than terminals, which moves
between them and so reuses frames, translations and PCBs; its bottom shells do
not fault, which `processes` covers. The 3-character buffer holds a full line, a
line `read` cuts, and a TAB that fits only partly. A 2x2 screen wraps and
scrolls after two and four characters, and a page has one cell below the screen,
like the machine's 48; a line of `echo` has up to two characters, begins in
either column and scrolls its own screen. In `echo` somebody types at one
terminal (`Interactive`), whose program writes and reads; the program of the
other writes one character (`MaxOutput`), at any time, and may be displayed in
the middle of a line. Ctrl+L is not among its keys: that it empties
the line is in `lines`, that it clears the screen in `screens`. The 6-bit counter
of `clock` wraps through negative values. Files have a length that ends in a
block, at its end, and 0, and the buffers of `cat` and `grep` end inside lines
and at their ends, and are shorter than one line. Words of `Lib` have 8 bits, so negative numbers, the largest
and hexadecimal padding are all there. Shifted characters differ only in the
table used; Caps Lock stands for them.

**Fairness.** `Process`: boot code runs to its end and the timer keeps
ticking (weak fairness of `StartTerminal0` and `Pit`; nothing else is fair, so a
program may loop for ever). `Machine` splits this: boot code and handlers run to
their end, the timer raises its line again and again, and the processor takes an
interrupt it is offered without pause (weak fairness of each); no program step,
key or clock interrupt need come. `Terminal` and `Rtc`: the timer and the clock
never stop (weak), and a process that is scheduled again and again executes its
loop in some of its quanta (strong fairness of the reader's own steps: a
quantum is 10 ms, a loop a few instructions). Keys are not fair. `Programs`: a
program that is meant to end takes its next step; that it gets the processor
is `EveryTerminalRuns`, and that a read of the clock returns, which `fish` and
`pingpong` wait for, is `ReadsReturn`.

`Quanta` is how many clock interrupts come between two timer interrupts.
`set_rtc_freq(3)` runs the clock at 8192 Hz and `init_pit` the timer at about
100 Hz, both periodic, so it is 81 or 82. The divisor of `rtc_read`,
`ratio / 3`, is 85 for a descriptor on which no frequency was set (2 Hz) and 170
at 1 Hz: a reader that has a turn every third quantum finds no multiple in some
turns. The run keeps these relations (8 or 9 interrupts, divisors 10 and 21,
three terminals) and shows that a later turn has one. Clock interrupts that are
lost while a long system call keeps interrupts off are not modelled.

`programs` ends when its program has, so it is the one run in which a state
without a successor is no error.

## 4. Proofs

| Theorem | States |
|---|---|
| `ProcessProofs!Invariance` | `Spec => []IInv` |
| `ProcessProofs!TypeCorrect` | `Spec => []TypeOK` |
| `ProcessProofs!NoPcbShared` | `Spec => []PcbsExclusive` |
| `ProcessProofs!HaltReturnsToParent` | `Spec => []ParentChain` |
| `ProcessProofs!ContextIsCoherent` | `Spec => []ContextCoherent` |
| `ProcessProofs!ContextsAreSaved` | `Spec => []SavedContexts` |
| `ProcessActionProofs!CountsAgree` | `Spec => []CountersAgree` |
| `ProcessActionProofs!NoTerminalDies` | `Spec => TerminalsStayAlive` |
| `ProcessActionProofs!TicksMapVideo` | `Spec => TickMapsVideo` |
| `ProcessActionProofs!DescriptorsArePrivate` | `Spec => DescriptorsPrivate` |
| `ProcessActionProofs!StatusesAreDelivered` | `Spec => []HaltStatusDelivered` |
| `MachineProofs!MachineImplementsProcess` | `MSpec => Spec` |
| `MachineProofs!TranslationsAreCurrent` | `MSpec => []TranslationsCurrent` |
| `MachineProofs!FramesAreIntact` | `MSpec => []FramesIntact` |
| `MachineProofs!FaultsEndTheirProgram` | `MSpec => FaultEndsFaulter` |
| `MachineInterruptProofs!EveryInterruptIsAcknowledged` | `MSpec => []ServiceInStep` |
| `MachineInterruptProofs!EdgesAreKept` | `MSpec => []NoEdgeLost` |
| `MachineInterruptProofs!ProgramsAreInterruptible` | `MSpec => []ProgramsInterruptible` |
| `TerminalProofs!TerminalsImplementLineInput` | `TSpec => ImplementsLineInput` |
| `TerminalProofs!BufferNeverOverrun` | `TSpec => []TTypeOK` |
| `TerminalProofs!LinesAreComplete` | `TSpec => []LineComplete` |
| `TerminalProofs!ReadsFitBuffers` | `TSpec => []ReadFitsBuffer` |
| `RtcProofs!RtcTypeCorrect` | `RSpec => []RTypeOK` |
| `RtcProofs!TicksAreUsedOnce` | `RSpec => []TickUsedOnce` |

**Processes and the machine.** For every number of terminals, programs and PCBs.

*Assumptions.* `SizesAssumption` (the constants are naturals, positive where
needed), `CapacityAssumption` (a shell for every terminal fits the global limit,
and a PCB exists for every program; the `#define`s satisfy both),
`EnvironmentAssumption`, and `EarlyExecute = FALSE`: no program calls `execute`
before each terminal has had its first tick. Without it programs that fill the
global limit in the first two ticks make `switch_process` (`scheduling.c:102`)
return into the old process, with a terminal scheduled that has no program. On
the instance of `processes` TLC then refutes `IInv`, `ContextCoherent` and
`TickMapsVideo`. What that process does next is not
modelled (`Top` of an empty terminal has no value), so for the other theorems
the assumption marks where the model ends, and nothing is claimed beyond it.
`MachineImplementsProcess` does not need it. `StatusesAreDelivered` needs
`BaseMayFault = FALSE` instead: section 6 shows what a faulting bottom shell does.

*Argument for `Process`.* None of the invariants is inductive alone. A return
through `ebp[child]` lands in the right process only if the parent chain is
right. The chain survives `Launch` only if the new pid is in no other stack. That
needs the stacks to be exactly the live pids, and that a free PCB exists below
the limits needs the counter to be their number. `Resume` keeps the context
coherent only if contexts were saved, and the first shells cannot be refused only
because terminals are started in order, one program each. `IInv` is the
conjunction. The proof restates the stack parts over arbitrary tables
(`Stacked`, `Chained`), proves what a push and a pop do to them (`PushStacked`,
`PopStacked`, `PushChained`, `PopChained`), and uses these for every action
(`LaunchStep`, `ReturnStep`, `ResumeStep`, ...). The action properties follow from
`IInv` before and after the step: a program with a parent is not the last of its
terminal, a tick always finds a program to run (`StaysRunning`), and the program
that runs after a tick is the one whose video flag `switch_process` looked at,
because the context after the step is coherent. `StatusesAreDelivered` does not
use `IInv`: the exception flag is down between steps if only programs with a
parent fault.

*Argument for `Machine`.* Every action conjoins an action of `Process`, so the
machine implements it and inherits `IInv`. `PInv` adds that the tables map the
page the processes believe in, that the cache holds nothing else, and that the
frame of each live pid holds its program: a load is safe because the new pid is
free, which is `PcbsExclusive`. `MInv` adds where `entry` has come to and what
the gates, masks and vectors are by then; `IntrInv` adds who is in service in
each handler and that the frames of the live processes that do not run have the
interrupt flag on. For the flag a step has to be followed from the kernel stack
it leaves to the one it continues on: `ReturnI` for `halt`, where the parent's
frame is the one of its own `execute`, and `TickI` for a timer switch, where
`SavedContexts` says whose frame is resumed.

**Line input.** For any buffer size, tab width, set of scancodes and lengths of
reads, with `MAX_TERMINAL_NUM = 3` because the handler knows F1, F2 and F3.
`ReadsFitBuffers` also assumes that no program reads 0 bytes, where it is false
(section 6). `TInv` is `TTypeOK` and `LineComplete`, which need each other: a key
keeps room for the newline only while a line is read, and a line stays complete
only because keys reach a line while its flag is up, which is in the loop. The
refinement maps a line to the first `buf_index` cells of the buffer (`LineText`).
`PutText` shows that storing at `buf_index` appends, and each kind of key
and each part of `terminal_read` is then one action of `LineInput`.

**Clock.** For any number of readers, width of the counter, frequencies and
quanta. `RInv` adds that a flag that is up is unread by every process: only
`rtc_handler` raises it, and it does so for everybody. `Ratios` and `Divisors`
bound the quotients that `rtc_open`, `rtc_write` and `rtc_read` compute.

*Only model-checked.* Liveness (out of the prover's reach), the refinements of
`VirtualScreens` and `FileStreams`, and everything about `Display`, `Console`,
the file system, the user programs and the library routines: they write texts
and copy files by folds and recursive definitions, and what these compute for
every input needs induction over data.

## 5. Not modelled

- Saving and restoring registers at the entry of a handler or system call, the
  multiboot checks, the descriptor tables of `boot.S` and `x86_desc.S`: straight
  lines of assembly, whose effect is that a handler returns where it came from.
- `disable_irq`, which has no caller; `set_handler` and `sigreturn`, which
  return -1.
- `counter`, `hello`, `testprint` and `sigtest`, which only print or call what is
  refused; the emulator but for `execute` and `getargs`, which is calls of Linux.
- Tests (`tests.c`).
- Attribute bytes of the screen, and what user programs draw through the video
  page; `fish` is modelled up to the characters it puts there.

## 6. Where the code and its comments disagree

Four disagreements need several actors and have a run (details and quotations
are the findings of `PROJECT.json`):

- a faulting bottom shell leaves the exception flag up, and the next program
  that halts is reported with 256 (`stale_exception_flag`);
- the user video page may show another terminal's screen until the next tick
  (`video_page_screen`);
- the halt of a background shell, or a fault of a background program, clears the
  displayed terminal under the line being typed (`echo_halt`);
- a returning `rtc_read` takes a clock interrupt away from another process that
  was waiting for it (`clock_stolen`).

The models also keep these, which a single step shows: `_execute` returns 1 at a
limit; `halt` of a child unmaps its parent's video page; `;`, `<` and `=` have
the codes of F1 to F3; `terminal_read` of 0 bytes stores a newline before the
buffer (the runs read at least 2); `rtc_read` may use an interrupt from before
the call; frequency 0 is a divide error; `read_data` reports one byte too few at
an invalid block; `open` keeps the descriptor of an entry of unknown type;
`directory_read` ignores `nbytes`; `memmove` of an overlapping region leaves the
direction flag set; `printf` reads past a `%` at the end of its format; `grep`
looks at a byte it has not initialised, takes a line longer than its buffer in
pieces, and loses what stands after a NUL when it moves a line down;
`mp1_ioctl_sync` always shows the off
character (`FishShowsFrames` excepts the extra character after a sync). The headers
of `open` (`system_call.c:247`) and `directory_read` (`file_system.c:374`) say "0 if
successful" where the code, and the model, return the descriptor and the length
of the name.

## 7. What could follow

- The `sti` windows of `terminal_read` and `rtc_read` inside `Machine`, so that
  one run has keys, clock and timer interrupts in every spinning call at once.
- Bottom shells that fault in the `machine` run, which has `BaseMayFault = FALSE`.
- What happens after a first shell is refused (`EarlyExecute = TRUE`).

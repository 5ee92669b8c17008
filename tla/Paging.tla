------------------------------- MODULE Paging -------------------------------
(***************************************************************************)
(* The page directory, the page tables and the translations the processor  *)
(* caches, as student-distrib/paging.c maintains them for the processes of *)
(* Process, and the contents of the program frames, which program_loader   *)
(* writes through those translations.  Each action is an action of Process *)
(* together with the calls into paging.c (and the loader) it makes.        *)
(***************************************************************************)
EXTENDS Process

VARIABLES
    mmu,    \* the directory, the tables and the cached translations
    image   \* image[p]: the process whose program is in the frame of pid p

pvars == <<mmu, image>>

KERNEL_ENTRY == 1
OtherEntry == 2                     \* stands for every entry left alone
PROGRAM_DIRECTORY_INDEX == 32
PROG_VID_ENTRY == 33
UserEntries == {PROGRAM_DIRECTORY_INDEX, PROG_VID_ENTRY}
Directory == {0, KERNEL_ENTRY, OtherEntry} \cup UserEntries

(* Physical addresses are numbers of 4KB pages, as in the entries.         *)
VideoPage  == 184                   \* VIDEO >> SHIFT_4K
FRAME_SIZE == 1024                  \* a 4MB page

NotPresent == [present |-> 0, u_s |-> 0, page_size |-> 0, addr |-> 0]

flush_tlb == [v \in UserEntries |-> NULL]
----------------------------------------------------------------------------
(* The directory as init_directory, init_table_0 and init_prog_vid leave   *)
(* it.  An entry that points to a page table has page_size 0 and no        *)
(* address here: the entry says which table it is.                         *)
init_directory ==
    [i \in Directory |->
        IF i = KERNEL_ENTRY
        THEN [present |-> 1, u_s |-> 0, page_size |-> 1, addr |-> FRAME_SIZE]
        ELSE NotPresent]

init_table_0(dir) == [dir EXCEPT ![0].present = 1]

init_prog_vid(dir) == [dir EXCEPT ![PROG_VID_ENTRY].u_s = 1]

(* The tables entry finds: static data, paging off.                        *)
PagingInit ==
    /\ mmu = [dir   |-> [i \in Directory |-> NotPresent],
              video |-> [present |-> 0, addr |-> 0],
              on    |-> FALSE,
              tlb   |-> flush_tlb]
    /\ image = [p \in Pids |-> NULL]

(* init_paging, with load_page_directory and enable_paging at its end      *)
init_paging ==
    [dir   |-> init_prog_vid(init_table_0(init_directory)),
     video |-> [present |-> 0, addr |-> VideoPage],
     on    |-> TRUE,
     tlb   |-> flush_tlb]
----------------------------------------------------------------------------
\* Mutant: the frames are 4KB apart.
FrameTooClose(pid) == pid + 2 * FRAME_SIZE

(* physical_addr >> SHIFT_4K in enable_program_page                        *)
FrameOf(pid) == pid * FRAME_SIZE + 2 * FRAME_SIZE

enable_program_page(dir, pid) ==
    [dir EXCEPT ![PROGRAM_DIRECTORY_INDEX] =
        [present |-> 1, u_s |-> 1, page_size |-> 1, addr |-> FrameOf(pid)]]

\* Mutant: the program page is changed and the old translation is kept.
setup_paging_unflushed(m, pid) == [m EXCEPT !.dir = enable_program_page(@, pid)]

setup_paging(m, pid) ==
    [m EXCEPT !.dir = enable_program_page(@, pid), !.tlb = flush_tlb]

(* enable_prog_vid_page and disable_prog_vid_page                          *)
set_prog_vid_page(m, present) ==
    [m EXCEPT !.dir[PROG_VID_ENTRY].present = present,
              !.video.present = present,
              !.tlb = flush_tlb]

change_prog_vid_mapping(m, term) ==
    [m EXCEPT !.video.addr = VideoPage + (IF term = active_term_idx THEN 0 ELSE term + 1),
              !.tlb = flush_tlb]
----------------------------------------------------------------------------
(* The processor's walk of the tables for a user access under directory    *)
(* entry v, to its first 4KB page: a page number, or NULL for a page fault. *)
Walk(m, v) ==
    LET e == m.dir[v] IN
    IF e.present = 0 \/ e.u_s = 0 THEN NULL
    ELSE IF e.page_size = 1 THEN e.addr
    ELSE IF m.video.present = 1 THEN m.video.addr ELSE NULL

(* A cached translation is used without a walk.                            *)
Translate(m, v) ==
    IF v \in UserEntries /\ m.tlb[v] # NULL THEN m.tlb[v] ELSE Walk(m, v)

(* An access leaves its translation in the cache.                          *)
Accessed(m, v) == [m EXCEPT !.tlb[v] = Translate(m, v)]

(* program_loader writes pid's program at 128MB, through the translation   *)
(* in force: the frames it reaches hold that program now.                  *)
program_loader(m, pid) ==
    [q \in Pids |->
        IF Translate(m, PROGRAM_DIRECTORY_INDEX) \in FrameOf(q) .. FrameOf(q) + FRAME_SIZE - 1
        THEN pid ELSE image[q]]

(* The paging half of _execute once create_pcb has chosen pid.             *)
LoadProcess(pid) ==
    LET m == setup_paging(mmu, pid) IN
    /\ image' = program_loader(m, pid)
    /\ mmu' = Accessed(m, PROGRAM_DIRECTORY_INDEX)

(* The paging half of halt for the program child.                          *)
HaltPaging(child) ==
    IF parent[child] = NULL
    THEN LoadProcess(cpu')
    ELSE /\ mmu' = setup_paging(set_prog_vid_page(mmu, 0), parent[child])
         /\ UNCHANGED image

(* The paging half of switch_process, for a terminal that has a program.   *)
SwitchPaging(term) ==
    LET new == Top(term)
        m   == setup_paging(mmu, new) IN
    /\ mmu' = IF video_mem_flag[new] = 1
              THEN change_prog_vid_mapping(set_prog_vid_page(m, 1), term)
              ELSE m
    /\ UNCHANGED image
----------------------------------------------------------------------------
PStartTerminal0 == mmu.on /\ StartTerminal0 /\ LoadProcess(cpu')

PExecute == Execute /\ LoadProcess(cpu')

PHalt(s) == Halt(s) /\ HaltPaging(Top(cur_term_id))

PException == Exception /\ HaltPaging(Top(cur_term_id))

PVidmap == Vidmap /\ mmu' = set_prog_vid_page(mmu, 1) /\ UNCHANGED image

(* pit_handler calls switch_process, which loads a shell or resumes.       *)
PPit ==
    LET term == NextTerminal(cur_term_id) IN
    /\ Pit
    /\ IF prog_counter = 0 THEN UNCHANGED pvars
       ELSE IF term_prog_counter[term] > 0 THEN SwitchPaging(term)
       ELSE IF Refuses(0, prog_counter, status) THEN UNCHANGED pvars
       ELSE LoadProcess(cpu')

(* An execute that returns early.  (open and close, which are in Process,  *)
(* have nothing to do with the mappings.)                                  *)
PExecuteRefused(cmd) == ExecuteRefused(cmd) /\ UNCHANGED pvars

PSwitchTerminal(t) == SwitchTerminal(t) /\ UNCHANGED pvars

(* The running program reads, writes or fetches at a page it may use ...   *)
Access(v) ==
    /\ Running
    /\ Translate(mmu, v) # NULL
    /\ mmu' = Accessed(mmu, v)
    /\ UNCHANGED <<vars, image>>

(* ... or at one it may not, and exception_handler ends it.                *)
PageFault(v) == Translate(mmu, v) = NULL /\ PException
----------------------------------------------------------------------------
(* What Process says is mapped, as page numbers.                           *)
Mapped(v) ==
    IF v = PROGRAM_DIRECTORY_INDEX THEN FrameOf(cpu)
    ELSE IF v = PROG_VID_ENTRY /\ vid_present THEN VideoPage + vid_base
    ELSE NULL

(* While a program runs, the tables give it its own frame and, if it is    *)
(* mapped, the video page of the last mapping change, and nothing else,    *)
(* and no cached translation is older than the last change of the tables.  *)
TranslationsCurrent ==
    Running => /\ \A v \in Directory : Walk(mmu, v) = Mapped(v)
               /\ \A v \in UserEntries : mmu.tlb[v] \in {NULL, Mapped(v)}

(* A program's frame holds that program for as long as it lives: no        *)
(* execute, in any terminal, loads its program over another one.           *)
FramesIntact == \A p \in Pids : status[p] = 1 => image[p] = p
============================================================================

---------------------------- MODULE MachineProofs ----------------------------
(***************************************************************************)
(* Address spaces, for every number of terminals, programs and PCBs: the   *)
(* tables and the cached translations always give a running program its    *)
(* own frame and its own video page, and no program is loaded over a live  *)
(* one.  The argument rests on the invariant of ProcessProofs.             *)
(***************************************************************************)
EXTENDS Machine, ProcessProofs

Entries == [present : {0, 1}, u_s : {0, 1}, page_size : {0, 1}, addr : Nat]
Mmus == [dir : [Directory -> Entries], video : [present : {0, 1}, addr : Nat],
         on : BOOLEAN, tlb : [UserEntries -> Nat \cup {NULL}]]

(* The tables once init_paging has run, with the video page present or     *)
(* not (vp) and its frame (vb): only entries 32 and 33 are for programs.   *)
Base(m, vp, vb) ==
    /\ m \in Mmus /\ m.on = TRUE
    /\ m.dir[0].u_s = 0 /\ m.dir[KERNEL_ENTRY].u_s = 0 /\ m.dir[OtherEntry].present = 0
    /\ m.dir[PROG_VID_ENTRY].u_s = 1 /\ m.dir[PROG_VID_ENTRY].page_size = 0
    /\ m.dir[PROG_VID_ENTRY].present = (IF vp THEN 1 ELSE 0)
    /\ m.video.present = (IF vp THEN 1 ELSE 0)
    /\ m.video.addr = VideoPage + vb

MappedIn(v, p, vp, vb) ==
    IF v = PROGRAM_DIRECTORY_INDEX THEN FrameOf(p)
    ELSE IF v = PROG_VID_ENTRY /\ vp THEN VideoPage + vb
    ELSE NULL

(* ... and with the program page of p, and no older translation cached.    *)
Good(m, p, vp, vb) ==
    /\ Base(m, vp, vb)
    /\ m.dir[PROGRAM_DIRECTORY_INDEX] =
          [present |-> 1, u_s |-> 1, page_size |-> 1, addr |-> FrameOf(p)]
    /\ \A v \in UserEntries : m.tlb[v] \in {NULL, MappedIn(v, p, vp, vb)}

(* The inductive invariant: Good while a program runs; before that, no     *)
(* program has asked for anything and nothing but entry changes the tables.*)
PInv ==
    /\ boot \in 0 .. 6
    /\ Running => boot = 6 /\ Good(mmu, cpu, vid_present, vid_base)
    /\ ~Running => /\ vid_present = FALSE /\ vid_base = 0
                   /\ mmu.on = TRUE => Base(mmu, FALSE, 0)
    /\ image \in [Pids -> Pids \cup {NULL}]
    /\ FramesIntact
----------------------------------------------------------------------------
LEMMA FrameNat == ASSUME NEW p \in Pids PROVE FrameOf(p) \in Nat
BY SizesAssumption DEF FrameOf, FRAME_SIZE, Pids

(* flush_tlb leaves nothing behind.                                        *)
LEMMA Flushed ==
    /\ flush_tlb \in [UserEntries -> Nat \cup {NULL}]
    /\ \A v \in UserEntries : flush_tlb[v] = NULL
BY DEF flush_tlb

(* setup_paging: the program page is p's and nothing older is cached.      *)
LEMMA SetupGood ==
    ASSUME NEW m, NEW vp \in BOOLEAN, NEW vb \in Nat, NEW p \in Pids, Base(m, vp, vb)
    PROVE  Good(setup_paging(m, p), p, vp, vb)
<1> DEFINE e == [present |-> 1, u_s |-> 1, page_size |-> 1, addr |-> FrameOf(p)]
           n == setup_paging(m, p)
<1>1. e \in Entries
  BY FrameNat DEF Entries
<1>2. m \in Mmus /\ m.dir \in [Directory -> Entries]
  BY DEF Base, Mmus
<1>3. /\ n.dir = [m.dir EXCEPT ![PROGRAM_DIRECTORY_INDEX] = e]
      /\ n.tlb = flush_tlb /\ n.video = m.video /\ n.on = m.on
      /\ n \in [dir : {n.dir}, video : {m.video}, on : {m.on}, tlb : {flush_tlb}]
  BY ZenonT(40), <1>2 DEF setup_paging, enable_program_page, Mmus
<1>4. n.dir \in [Directory -> Entries] /\ n.dir[PROGRAM_DIRECTORY_INDEX] = e
      /\ \A i \in Directory : i # PROGRAM_DIRECTORY_INDEX => n.dir[i] = m.dir[i]
  BY <1>1, <1>2, <1>3 DEF Directory, UserEntries
<1>5. n \in Mmus
  BY <1>2, <1>3, <1>4, Flushed DEF Mmus
<1>6. Base(n, vp, vb)
  BY <1>3, <1>4, <1>5 DEF Base, Directory, UserEntries, PROGRAM_DIRECTORY_INDEX,
     PROG_VID_ENTRY, KERNEL_ENTRY, OtherEntry
<1> QED BY <1>3, <1>4, <1>6, Flushed DEF Good

(* enable_prog_vid_page and disable_prog_vid_page, on tables that may or   *)
(* may not have a program page yet.                                        *)
LEMMA VideoPageSet ==
    ASSUME NEW m, NEW vp \in BOOLEAN, NEW vb \in Nat, NEW x \in {0, 1}, Base(m, vp, vb)
    PROVE  LET n == set_prog_vid_page(m, x)
           IN  /\ Base(n, x = 1, vb)
               /\ n.dir[PROGRAM_DIRECTORY_INDEX] = m.dir[PROGRAM_DIRECTORY_INDEX]
               /\ n.tlb = flush_tlb
<1> DEFINE n == set_prog_vid_page(m, x)
           e == [m.dir[PROG_VID_ENTRY] EXCEPT !.present = x]
           f == [m.video EXCEPT !.present = x]
<1>1. m \in Mmus /\ m.dir \in [Directory -> Entries] /\ m.dir[PROG_VID_ENTRY] \in Entries
      /\ m.video \in [present : {0, 1}, addr : Nat]
  BY DEF Base, Mmus, Directory, UserEntries
<1>2. /\ e \in Entries /\ e.present = x
      /\ e.u_s = m.dir[PROG_VID_ENTRY].u_s /\ e.page_size = m.dir[PROG_VID_ENTRY].page_size
  BY <1>1 DEF Entries
<1>3. f \in [present : {0, 1}, addr : Nat] /\ f.present = x /\ f.addr = m.video.addr
  BY <1>1
<1>4. /\ n.dir = [m.dir EXCEPT ![PROG_VID_ENTRY] = e]
      /\ n.tlb = flush_tlb /\ n.video = f /\ n.on = m.on
      /\ n \in [dir : {n.dir}, video : {f}, on : {m.on}, tlb : {flush_tlb}]
  BY ZenonT(40), <1>1 DEF set_prog_vid_page, Mmus
<1>5. n.dir \in [Directory -> Entries] /\ n.dir[PROG_VID_ENTRY] = e
      /\ \A i \in Directory : i # PROG_VID_ENTRY => n.dir[i] = m.dir[i]
  BY <1>1, <1>2, <1>4 DEF Directory, UserEntries
<1>6. n \in Mmus
  BY <1>1, <1>3, <1>4, <1>5, Flushed DEF Mmus
<1>7. Base(n, x = 1, vb)
  BY <1>2, <1>3, <1>4, <1>5, <1>6 DEF Base, Directory, UserEntries, PROGRAM_DIRECTORY_INDEX,
     PROG_VID_ENTRY, KERNEL_ENTRY, OtherEntry
<1> QED BY <1>4, <1>5, <1>7 DEF Directory, UserEntries, PROGRAM_DIRECTORY_INDEX, PROG_VID_ENTRY

LEMMA VideoPageGood ==
    ASSUME NEW m, NEW p \in Pids, NEW vp \in BOOLEAN, NEW vb \in Nat, Good(m, p, vp, vb)
    PROVE  Good(set_prog_vid_page(m, 1), p, TRUE, vb)
<1>1. Base(m, vp, vb)
  BY DEF Good
<1>2. (1 = 1) = TRUE
  OBVIOUS
<1>3. LET n == set_prog_vid_page(m, 1)
      IN  /\ Base(n, TRUE, vb)
          /\ n.dir[PROGRAM_DIRECTORY_INDEX] = m.dir[PROGRAM_DIRECTORY_INDEX]
          /\ n.tlb = flush_tlb
  BY ZenonT(40), <1>1, <1>2, VideoPageSet
<1> QED BY ZenonT(40), <1>3, Flushed DEF Good

(* change_prog_vid_mapping: the frame of terminal t's screen.              *)
LEMMA MappingGood ==
    ASSUME NEW m, NEW p \in Pids, NEW vp \in BOOLEAN, NEW vb \in Nat, NEW t \in Terminals,
           Good(m, p, vp, vb)
    PROVE  Good(change_prog_vid_mapping(m, t), p, vp, ScreenPage(t))
<1> DEFINE n == change_prog_vid_mapping(m, t)
           a == VideoPage + (IF t = active_term_idx THEN 0 ELSE t + 1)
           f == [m.video EXCEPT !.addr = a]
<1>1. m \in Mmus /\ m.dir \in [Directory -> Entries]
      /\ m.video \in [present : {0, 1}, addr : Nat]
  BY DEF Good, Base, Mmus
<1>2. a \in Nat /\ a = VideoPage + ScreenPage(t)
  BY SizesAssumption DEF VideoPage, Terminals, ScreenPage
<1>3. f \in [present : {0, 1}, addr : Nat] /\ f.addr = a /\ f.present = m.video.present
  BY <1>1, <1>2
<1>4. /\ n.dir = m.dir /\ n.tlb = flush_tlb /\ n.video = f /\ n.on = m.on
      /\ n \in [dir : {m.dir}, video : {f}, on : {m.on}, tlb : {flush_tlb}]
  BY ZenonT(40), <1>1 DEF change_prog_vid_mapping, Mmus
<1>5. n \in Mmus
  BY <1>1, <1>3, <1>4, Flushed DEF Mmus
<1>6. Base(n, vp, ScreenPage(t))
  BY <1>2, <1>3, <1>4, <1>5 DEF Base, Good
<1> QED BY <1>4, <1>6, Flushed DEF Good

(* The processor's walk finds what the kernel means to be mapped.          *)
LEMMA WalkMapped ==
    ASSUME NEW m, NEW p \in Pids, NEW vp \in BOOLEAN, NEW vb \in Nat, Good(m, p, vp, vb),
           NEW v \in Directory
    PROVE  Walk(m, v) = MappedIn(v, p, vp, vb)
BY DEF Good, Base, Walk, MappedIn, Directory, UserEntries, PROGRAM_DIRECTORY_INDEX,
       PROG_VID_ENTRY, KERNEL_ENTRY, OtherEntry

(* An access caches a current translation; there is none for an entry that *)
(* is not for programs.                                                    *)
LEMMA AccessGood ==
    ASSUME NEW m, NEW p \in Pids, NEW vp \in BOOLEAN, NEW vb \in Nat, Good(m, p, vp, vb),
           NEW v \in Directory, Translate(m, v) # NULL
    PROVE  Good(Accessed(m, v), p, vp, vb) /\ Translate(m, v) = MappedIn(v, p, vp, vb)
<1> DEFINE n == Accessed(m, v)
           x == Translate(m, v)
<1>1. m \in Mmus /\ m.tlb \in [UserEntries -> Nat \cup {NULL}] /\ m.dir \in [Directory -> Entries]
  BY DEF Good, Base, Mmus
<1>2. Walk(m, v) = MappedIn(v, p, vp, vb)
  BY WalkMapped
<1>3. v \in UserEntries /\ x = MappedIn(v, p, vp, vb)
  BY <1>2 DEF Translate, MappedIn, UserEntries, Good
<1>4. x \in Nat
  BY <1>3, FrameNat DEF MappedIn, VideoPage
<1>5. /\ n.dir = m.dir /\ n.tlb = [m.tlb EXCEPT ![v] = x] /\ n.video = m.video /\ n.on = m.on
      /\ n \in [dir : {m.dir}, video : {m.video}, on : {m.on}, tlb : {n.tlb}]
  BY <1>1 DEF Accessed, Mmus
<1>6. n.tlb \in [UserEntries -> Nat \cup {NULL}] /\ n.tlb[v] = x
      /\ \A u \in UserEntries : u # v => n.tlb[u] = m.tlb[u]
  BY <1>1, <1>3, <1>4, <1>5
<1>7. n \in Mmus
  BY <1>1, <1>5, <1>6 DEF Mmus
<1>8. Base(n, vp, vb)
  BY <1>5, <1>7 DEF Base, Good
<1> QED BY <1>3, <1>5, <1>6, <1>8 DEF Good

(* The paging half of _execute: p's program is in p's frame and in no      *)
(* other.                                                                  *)
LEMMA LoadStep ==
    ASSUME NEW p \in Pids, NEW vp \in BOOLEAN, NEW vb \in Nat, Base(mmu, vp, vb),
           image \in [Pids -> Pids \cup {NULL}], LoadProcess(p)
    PROVE  /\ Good(mmu', p, vp, vb)
           /\ image' = [image EXCEPT ![p] = p]
<1> DEFINE m == setup_paging(mmu, p)
           v == PROGRAM_DIRECTORY_INDEX
<1>1. Good(m, p, vp, vb)
  BY SetupGood
<1>2. v \in Directory /\ v \in UserEntries /\ MappedIn(v, p, vp, vb) = FrameOf(p)
      /\ FrameOf(p) \in Nat
  BY FrameNat DEF Directory, UserEntries, MappedIn
<1>3. Walk(m, v) = FrameOf(p) /\ m.tlb[v] \in {NULL, FrameOf(p)}
  BY <1>1, <1>2, WalkMapped DEF Good
<1>4. Translate(m, v) = FrameOf(p) /\ Translate(m, v) # NULL
  BY <1>2, <1>3 DEF Translate, NULL
<1>5. Good(mmu', p, vp, vb)
  BY <1>1, <1>2, <1>4, AccessGood DEF LoadProcess
<1>6. \A q \in Pids : FrameOf(p) \in FrameOf(q) .. FrameOf(q) + FRAME_SIZE - 1 <=> q = p
  BY SizesAssumption DEF FrameOf, FRAME_SIZE, Pids
<1>7. image' = [q \in Pids |-> IF q = p THEN p ELSE image[q]]
  BY <1>4, <1>6 DEF LoadProcess, program_loader
<1> QED BY ZenonT(40), <1>5, <1>7
----------------------------------------------------------------------------
(* A step that touches neither the tables nor what they have to agree with.*)
LEMMA QuietP ==
    ASSUME PInv, UNCHANGED <<mmu, image, status, cpu, vid_present, vid_base, boot>>
    PROVE  PInv'
BY ZenonT(40) DEF PInv, Running, FramesIntact

(* A program that is loaded is in its frame; the others keep theirs.       *)
LEMMA LaunchP ==
    ASSUME SInv, PInv, NEW t, NEW cnt, NEW n, NEW st \in [Pids -> {0, 1}], NEW par, NEW fds,
           \A q \in Pids : st[q] = 1 => status[q] = 1,
           Base(mmu, vid_present, vid_base), boot = 6, boot' = 6, UNCHANGED vid,
           Launch(t, cnt, n, st, par, fds), LoadProcess(cpu')
    PROVE  PInv'
<1>1. PICK p \in Pids : status' = [st EXCEPT ![p] = 1] /\ cpu' = p
  BY ZenonT(40) DEF Launch
<1>2. LoadProcess(p)
  BY <1>1 DEF LoadProcess
<1>3. /\ vid_present \in BOOLEAN /\ vid_base \in Nat
      /\ vid_present' = vid_present /\ vid_base' = vid_base
  BY SizesAssumption DEF SInv, TypeOK, vid
<1>4. image \in [Pids -> Pids \cup {NULL}] /\ \A q \in Pids : status[q] = 1 => image[q] = q
  BY DEF PInv, FramesIntact
<1>5. Good(mmu', p, vid_present, vid_base) /\ image' = [image EXCEPT ![p] = p]
  BY <1>2, <1>3, <1>4, LoadStep
<1>6. image' \in [Pids -> Pids \cup {NULL}] /\ FramesIntact'
  BY <1>1, <1>4, <1>5 DEF FramesIntact
<1>7. Running' /\ Good(mmu', cpu', vid_present', vid_base')
  BY <1>1, <1>3, <1>5, NullIsNoPid DEF Running
<1> QED BY <1>6, <1>7 DEF PInv

LEMMA RunningP ==
    ASSUME SInv, PInv, Running
    PROVE  /\ boot = 6 /\ Good(mmu, cpu, vid_present, vid_base)
           /\ Base(mmu, vid_present, vid_base)
           /\ cpu \in Pids /\ vid_present \in BOOLEAN /\ vid_base \in Nat
           /\ status \in [Pids -> {0, 1}] /\ video_mem_flag \in [Pids -> {0, 1}]
<1>1. boot = 6 /\ Good(mmu, cpu, vid_present, vid_base) /\ Base(mmu, vid_present, vid_base)
  BY DEF PInv, Good
<1>2. cpu \in Pids
  BY RunningFacts
<1> QED BY <1>1, <1>2, SizesAssumption DEF SInv, TypeOK

LEMMA StartP ==
    ASSUME SInv, PInv, PStartTerminal0, boot = 6, boot' = 6
    PROVE  PInv'
<1>1. mmu.on /\ StartTerminal0 /\ LoadProcess(cpu') /\ ~Running
  BY DEF PStartTerminal0, StartTerminal0
<1>2. vid_present = FALSE /\ vid_base = 0 /\ (mmu.on = TRUE => Base(mmu, FALSE, 0))
  BY ZenonT(40), <1>1 DEF PInv
<1>3. mmu.on = TRUE
  BY <1>1
<1>4. Base(mmu, vid_present, vid_base)
  BY ZenonT(40), <1>2, <1>3
<1>5. status \in [Pids -> {0, 1}]
  BY DEF SInv, TypeOK
<1> QED BY <1>1, <1>4, <1>5, LaunchP DEF StartTerminal0

LEMMA ExecuteP ==
    ASSUME SInv, PInv, PExecute, boot' = boot
    PROVE  PInv'
<1>1. Running /\ UNCHANGED vid /\ LoadProcess(cpu')
      /\ Launch(cur_term_id, term_prog_counter[cur_term_id], prog_counter,
                status, parent, open_fds)
  BY DEF PExecute, Execute
<1> QED BY <1>1, RunningP, LaunchP

LEMMA HaltP ==
    ASSUME SInv, PInv, Running, NEW flag, NEW how, NEW s, HaltWith(flag, how, s),
           HaltPaging(Top(cur_term_id)), boot' = boot
    PROVE  PInv'
<1> DEFINE child == Top(cur_term_id)
           st    == [status EXCEPT ![child] = 0]
<1>1. /\ boot = 6 /\ Good(mmu, cpu, vid_present, vid_base) /\ Base(mmu, vid_present, vid_base)
      /\ cpu = child /\ child \in Pids /\ vid_present \in BOOLEAN /\ vid_base \in Nat
      /\ status \in [Pids -> {0, 1}]
  BY RunningP, RunningFacts
<1>2. st \in [Pids -> {0, 1}] /\ \A q \in Pids : st[q] = 1 => status[q] = 1
  BY <1>1
<1>3. CASE parent[child] = NULL
  <2>1. Launch(cur_term_id, 0, prog_counter - 1, st, Orphaned(child), FilesClosed)
        /\ UNCHANGED vid /\ LoadProcess(cpu')
    BY <1>3 DEF HaltWith, Relaunch, HaltPaging, Released, vid
  <2> QED BY ZenonT(40), <1>1, <1>2, <2>1, LaunchP
<1>4. CASE parent[child] # NULL
  <2>1. /\ status' = st /\ vid_present' = FALSE /\ vid_base' = vid_base
        /\ cpu' = ebp[child] /\ image' = image
        /\ mmu' = setup_paging(set_prog_vid_page(mmu, 0), parent[child])
    BY <1>4 DEF HaltWith, ReturnToParent, HaltPaging, Released
  <2>2. parent[child] \in Pids /\ ebp[child] = parent[child]
    BY <1>4, ParentFacts
  <2>3. Base(set_prog_vid_page(mmu, 0), 0 = 1, vid_base)
    BY <1>1, VideoPageSet
  <2>4. (0 = 1) = FALSE
    OBVIOUS
  <2>5. Good(mmu', parent[child], FALSE, vid_base)
    BY ZenonT(40), <1>1, <2>1, <2>2, <2>3, <2>4, SetupGood
  <2>6. Running' /\ Good(mmu', cpu', vid_present', vid_base')
    BY ZenonT(40), <2>1, <2>2, <2>5, NullIsNoPid DEF Running
  <2>7. image' \in [Pids -> Pids \cup {NULL}] /\ FramesIntact'
    BY <1>2, <2>1 DEF PInv, FramesIntact
  <2> QED BY <1>1, <2>6, <2>7 DEF PInv
<1> QED BY <1>3, <1>4

LEMMA VidmapP ==
    ASSUME SInv, PInv, PVidmap, boot' = boot
    PROVE  PInv'
<1>1. Running /\ vid_present' = TRUE /\ mmu' = set_prog_vid_page(mmu, 1)
      /\ UNCHANGED <<vid_base, cpu, status, image>>
  BY DEF PVidmap, Vidmap, regs
<1>2. Good(mmu', cpu', vid_present', vid_base')
  BY ZenonT(40), <1>1, RunningP, VideoPageGood
<1> QED BY ZenonT(40), <1>1, <1>2, RunningP DEF PInv, Running, FramesIntact

LEMMA PitP ==
    ASSUME SInv, PInv, PPit, SInv', boot' = boot
    PROVE  PInv'
<1> DEFINE term == NextTerminal(cur_term_id)
           new  == Top(term)
<1>1. Pit /\ Running /\ prog_counter # 0 /\ term \in Terminals
      /\ term_prog_counter[term] \in Nat
  <2>1. Pit /\ Running
    BY DEF PPit, Pit
  <2>2. cur_term_id \in Terminals /\ prog_counter > 0
    BY <2>1, RunningFacts
  <2>3. term \in Terminals
    BY <2>2, NextTerminalValue, SizesAssumption DEF Terminals
  <2> QED BY <2>1, <2>2, <2>3, SizesAssumption DEF SInv, TypeOK
<1>2. SwitchProcess(cur_term_id, term)
  BY <1>1 DEF Pit
<1>3. CASE term_prog_counter[term] = 0
  <2>1. ~Refuses(0, prog_counter, status)
    BY <1>1, <1>3, ShellFits
  <2>2. Launch(term, 0, prog_counter, status, parent, open_fds) /\ UNCHANGED vid
        /\ LoadProcess(cpu')
    BY <1>1, <1>2, <1>3, <2>1 DEF SwitchProcess, StartShell, PPit
  <2> QED BY <1>1, <2>2, RunningP, LaunchP
<1>4. CASE term_prog_counter[term] > 0
  <2>1. SwitchPaging(term) /\ Resume(term)
    BY <1>1, <1>2, <1>4 DEF PPit, SwitchProcess
  <2>2. new \in Pids
    BY <1>1, <1>4, TopFacts
  <2>3. cpu' = new /\ status' = status /\ image' = image
    <3>1. term_ebp'[new] = new
      BY <1>1, <1>2, <1>4, SaveStep
    <3> QED BY <2>1, <2>2, <3>1, NullIsNoPid DEF Resume, SwitchPaging
  <2>4. Good(setup_paging(mmu, new), new, vid_present, vid_base)
    BY <1>1, <2>2, RunningP, SetupGood
  <2>5. Good(mmu', cpu', vid_present', vid_base')
    <3>1. CASE video_mem_flag[new] = 1
      <4>1. Good(set_prog_vid_page(setup_paging(mmu, new), 1), new, TRUE, vid_base)
        BY ZenonT(40), <1>1, <2>2, <2>4, RunningP, VideoPageGood
      <4>2. mmu' = change_prog_vid_mapping(set_prog_vid_page(setup_paging(mmu, new), 1), term)
            /\ vid_present' = TRUE /\ vid_base' = ScreenPage(term)
        BY <2>1, <3>1 DEF SwitchPaging, Resume, VidBaseFor
      <4> QED BY ZenonT(40), <1>1, <2>2, <2>3, <4>1, <4>2, RunningP, MappingGood
    <3>2. CASE video_mem_flag[new] # 1
      BY <2>1, <2>3, <2>4, <3>2 DEF SwitchPaging, Resume, vid
    <3> QED BY <3>1, <3>2
  <2> QED BY ZenonT(40), <1>1, <2>2, <2>3, <2>5, RunningP, NullIsNoPid DEF PInv, Running, FramesIntact
<1> QED BY <1>1, <1>3, <1>4

LEMMA AccessP ==
    ASSUME SInv, PInv, NEW v \in Directory, Access(v), boot' = boot
    PROVE  PInv'
<1>1. Running /\ Translate(mmu, v) # NULL /\ mmu' = Accessed(mmu, v)
      /\ UNCHANGED <<cpu, status, vid_present, vid_base, image>>
  BY DEF Access, vars, pcbs, regs, vid
<1>2. Good(mmu', cpu', vid_present', vid_base')
  BY <1>1, RunningP, AccessGood
<1> QED BY ZenonT(40), <1>1, <1>2, RunningP DEF PInv, Running, FramesIntact

(* entry: init_paging is the first call that matters here.                 *)
LEMMA EntryP ==
    ASSUME PInv, Entry
    PROVE  PInv'
<1>1. boot \in 0 .. 5 /\ boot' = boot + 1 /\ UNCHANGED <<vars, image>>
  BY DEF Entry, Step
<1>2. ~Running /\ UNCHANGED <<cpu, status, vid_present, vid_base>>
  BY <1>1 DEF PInv, vars, pcbs, regs, vid
<1>3. mmu' = init_paging \/ mmu' = mmu
  BY DEF Entry, EnableIrq
<1>4. Base(init_paging, FALSE, 0)
  <2> DEFINE d == init_prog_vid(init_table_0(init_directory))
             c == init_table_0(init_directory)
  <2>1. init_directory \in [Directory -> Entries]
    <3>1. NotPresent \in Entries
      BY DEF NotPresent, Entries
    <3>2. [present |-> 1, u_s |-> 0, page_size |-> 1, addr |-> FRAME_SIZE] \in Entries
      BY DEF Entries, FRAME_SIZE
    <3> QED BY <3>1, <3>2 DEF init_directory
  <2>2. /\ c \in [Directory -> Entries] /\ c[0].u_s = 0
        /\ \A i \in Directory : i # 0 => c[i] = init_directory[i]
    BY <2>1 DEF init_table_0, Entries, init_directory, Directory, NotPresent, KERNEL_ENTRY
  <2>3. /\ d \in [Directory -> Entries]
        /\ \A i \in Directory : i # PROG_VID_ENTRY => d[i] = c[i]
        /\ d[PROG_VID_ENTRY] = [c[PROG_VID_ENTRY] EXCEPT !.u_s = 1]
    BY <2>2 DEF init_prog_vid, Entries, Directory, UserEntries
  <2>4. /\ d[0].u_s = 0 /\ d[KERNEL_ENTRY].u_s = 0 /\ d[OtherEntry].present = 0
        /\ d[PROG_VID_ENTRY].u_s = 1 /\ d[PROG_VID_ENTRY].page_size = 0
        /\ d[PROG_VID_ENTRY].present = 0
    BY <2>2, <2>3 DEF init_directory, Directory, UserEntries, NotPresent, KERNEL_ENTRY,
       OtherEntry, PROG_VID_ENTRY, PROGRAM_DIRECTORY_INDEX, FRAME_SIZE
  <2>5. init_paging \in Mmus
    <3>1. [present |-> 0, addr |-> VideoPage] \in [present : {0, 1}, addr : Nat]
      BY DEF VideoPage
    <3> QED BY <2>3, <3>1, Flushed, ZenonT(30) DEF init_paging, Mmus
  <2> QED BY <2>4, <2>5 DEF init_paging, Base, VideoPage
<1>5. mmu'.on = TRUE => Base(mmu', FALSE, 0)
  BY ZenonT(40), <1>2, <1>3, <1>4 DEF PInv
<1>6. boot' \in 0 .. 6
  BY <1>1
<1>7. ~Running' /\ vid_present' = FALSE /\ vid_base' = 0
  BY <1>2, ZenonT(30) DEF PInv, Running
<1>8. image' \in [Pids -> Pids \cup {NULL}] /\ FramesIntact'
  BY <1>1, <1>2, ZenonT(30) DEF PInv, FramesIntact
<1> QED BY <1>5, <1>6, <1>7, <1>8, ZenonT(30) DEF PInv
----------------------------------------------------------------------------
MInv == SInv /\ PInv

LEMMA InitMInv == MInit => MInv
<1> SUFFICES ASSUME MInit PROVE MInv
  OBVIOUS
<1>1. SInv
  BY InitSInv DEF MInit
<1>2. ~Running /\ boot = 0 /\ vid_present = FALSE /\ vid_base = 0 /\ mmu.on = FALSE
  BY DEF MInit, Init, Running, PagingInit
<1>3. image \in [Pids -> Pids \cup {NULL}] /\ FramesIntact
  BY DEF MInit, Init, PagingInit, FramesIntact
<1>4. boot \in 0 .. 6
  BY <1>2
<1> QED BY <1>1, <1>2, <1>3, <1>4, ZenonT(30) DEF MInv, PInv

(* A step of the machine is a step of Process or leaves its variables.     *)
LEMMA ProcessStep == ASSUME MNext PROVE [Next]_vars
<1>1. CASE Entry
  BY <1>1 DEF Entry, Step
<1>2. CASE StartFirstShell
  BY <1>2 DEF StartFirstShell, PStartTerminal0, Next
<1>3. CASE SystemCall
  BY ZenonT(40), <1>3 DEF SystemCall, PExecute, PHalt, PVidmap, PExecuteRefused, Next
<1>4. CASE UserAccess
  BY <1>4 DEF UserAccess, Access
<1>5. CASE UserFault
  BY <1>5 DEF UserFault, PageFault, PException, Next
<1>6. CASE EnterTrap
  BY <1>6 DEF EnterTrap
<1>7. CASE HandleTrap
  BY <1>7 DEF HandleTrap, PException, Next
<1>8. CASE \E d \in Devices : RaiseLine(d) \/ AcceptLine(d)
  BY <1>8 DEF RaiseLine, AcceptLine
<1>9. CASE PitInterrupt
  BY <1>9 DEF PitInterrupt, PPit, Next
<1>10. CASE KeyboardInterrupt
  BY <1>10 DEF KeyboardInterrupt, PSwitchTerminal, Next
<1>11. CASE RtcInterrupt
  BY <1>11 DEF RtcInterrupt
<1> QED BY <1>1, <1>2, <1>3, <1>4, <1>5, <1>6, <1>7, <1>8, <1>9, <1>10, <1>11 DEF MNext

LEMMA NextMInv ==
    ASSUME EarlyExecute = FALSE, MInv, [MNext]_mvars
    PROVE  MInv'
<1>1. CASE MNext
  <2>1. SInv /\ PInv /\ SInv'
    BY <1>1, ProcessStep, NextSInv DEF MInv
  <2> SUFFICES PInv'
    BY <2>1 DEF MInv
  <2>2. CASE Entry
    BY <2>1, <2>2, EntryP
  <2>3. CASE StartFirstShell
    BY <2>1, <2>3, StartP DEF StartFirstShell, Booted, Unseen
  <2>4. CASE SystemCall
    <3>1. boot' = boot
      BY <2>4 DEF SystemCall, Unseen
    <3>2. CASE PExecute
      BY <2>1, <3>1, <3>2, ExecuteP
    <3>3. ASSUME NEW s \in Statuses, PHalt(s) PROVE PInv'
      BY <2>1, <3>1, <3>3, HaltP DEF PHalt, Halt
    <3>4. CASE PVidmap
      BY <2>1, <3>1, <3>4, VidmapP
    <3>5. ASSUME NEW cmd \in {"NULL", "missing", "program"}, PExecuteRefused(cmd)
          PROVE  PInv'
      <4>1. UNCHANGED <<mmu, image, status, cpu, vid_present, vid_base>>
        BY <3>5 DEF PExecuteRefused, pvars, ExecuteRefused, pcbs, regs, vid
      <4> QED BY <2>1, <3>1, <4>1, QuietP
    <3> QED BY ZenonT(40), <2>4, <3>2, <3>3, <3>4, <3>5 DEF SystemCall
  <2>5. CASE UserAccess
    BY <2>1, <2>5, AccessP DEF UserAccess
  <2>6. ASSUME PException, boot' = boot PROVE PInv'
    BY <2>1, <2>6, HaltP DEF PException, Exception
  <2>7. CASE UserFault
    BY <2>6, <2>7 DEF UserFault, PageFault, Unseen
  <2>8. CASE HandleTrap
    BY <2>6, <2>8 DEF HandleTrap, Unseen
  <2>9. ASSUME UNCHANGED <<vars, pvars, boot>> PROVE PInv'
    <3>1. UNCHANGED <<mmu, image, status, cpu, vid_present, vid_base, boot>>
      BY <2>9 DEF pvars, vars, pcbs, regs, vid
    <3> QED BY <2>1, <3>1, QuietP
  <2>10. CASE EnterTrap
    BY <2>9, <2>10 DEF EnterTrap
  <2>11. CASE \E d \in Devices : RaiseLine(d) \/ AcceptLine(d)
    BY <2>9, <2>11 DEF RaiseLine, AcceptLine
  <2>12. CASE PitInterrupt
    BY <2>1, <2>12, PitP DEF PitInterrupt
  <2>13. CASE KeyboardInterrupt
    <3>1. ASSUME NEW t \in Terminals, PSwitchTerminal(t) PROVE PInv'
      <4>1. UNCHANGED <<mmu, image, status, cpu, vid_present, vid_base, boot>>
        BY <2>13, <3>1 DEF PSwitchTerminal, SwitchTerminal, pvars, pcbs, regs, vid,
           KeyboardInterrupt
      <4> QED BY <2>1, <4>1, QuietP
    <3> QED BY <2>9, <2>13, <3>1 DEF KeyboardInterrupt
  <2>14. CASE RtcInterrupt
    BY <2>9, <2>14 DEF RtcInterrupt
  <2> QED BY <1>1, <2>2, <2>3, <2>4, <2>5, <2>7, <2>8, <2>10, <2>11, <2>12, <2>13,
             <2>14 DEF MNext
<1>2. CASE UNCHANGED mvars
  <2>1. UNCHANGED vars /\ SInv
    BY <1>2 DEF mvars, MInv
  <2>2. SInv'
    BY <2>1, NextSInv
  <2>3. UNCHANGED <<mmu, image, status, cpu, vid_present, vid_base, boot>>
    BY <1>2 DEF mvars, pvars, vars, pcbs, regs, vid
  <2> QED BY <2>2, <2>3, QuietP DEF MInv
<1> QED BY <1>1, <1>2

LEMMA MachineInvariance ==
    ASSUME EarlyExecute = FALSE
    PROVE  MSpec => []MInv
<1>1. MInit => MInv
  BY InitMInv
<1>2. MInv /\ [MNext]_mvars => MInv'
  BY NextMInv, ZenonT(30)
<1> QED BY <1>1, <1>2, PTL DEF MSpec

(* Putting paging, the controllers and the gates around the processes adds *)
(* no behaviour to them: what is proved of Process holds in the machine.   *)
THEOREM MachineImplementsProcess == MSpec => Spec
<1>1. MInit => Init
  BY DEF MInit
<1>2. [MNext]_mvars => [Next]_vars
  <2>1. CASE MNext
    BY <2>1, ProcessStep
  <2>2. CASE UNCHANGED mvars
    BY <2>2 DEF mvars
  <2> QED BY <2>1, <2>2, ZenonT(30)
<1> QED BY <1>1, <1>2, PTL DEF MSpec, Spec

(* Whatever is loaded, scheduled or mapped, the tables and the cached      *)
(* translations (paging.c) give the running program its own frame and the  *)
(* video page of the last mapping, and nothing else.                       *)
THEOREM TranslationsAreCurrent ==
    ASSUME EarlyExecute = FALSE
    PROVE  MSpec => []TranslationsCurrent
<1>1. MInv => TranslationsCurrent
  <2> SUFFICES ASSUME MInv, Running
               PROVE  /\ \A v \in Directory : Walk(mmu, v) = Mapped(v)
                      /\ \A v \in UserEntries : mmu.tlb[v] \in {NULL, Mapped(v)}
    BY DEF TranslationsCurrent
  <2>1. /\ Good(mmu, cpu, vid_present, vid_base)
        /\ cpu \in Pids /\ vid_present \in BOOLEAN /\ vid_base \in Nat
    BY RunningP DEF MInv
  <2>2. \A v \in Directory : Mapped(v) = MappedIn(v, cpu, vid_present, vid_base)
    BY ZenonT(30) DEF Mapped, MappedIn
  <2>3. UserEntries \subseteq Directory
    BY DEF Directory
  <2>4. \A v \in Directory : Walk(mmu, v) = Mapped(v)
    BY <2>1, <2>2, WalkMapped, ZenonT(30)
  <2>5. \A v \in UserEntries : mmu.tlb[v] \in {NULL, Mapped(v)}
    BY <2>1, <2>2, <2>3, ZenonT(30) DEF Good
  <2> QED BY <2>4, <2>5
<1> QED BY <1>1, MachineInvariance, PTL

(* program_loader never writes over the program of a live process.         *)
THEOREM FramesAreIntact ==
    ASSUME EarlyExecute = FALSE
    PROVE  MSpec => []FramesIntact
<1>1. MInv => FramesIntact
  BY DEF MInv, PInv
<1> QED BY <1>1, MachineInvariance, PTL
----------------------------------------------------------------------------
(* halt and exception_handler release the PCB of the running program, and  *)
(* nothing else releases one.                                              *)
LEMMA OnlyRunningEnds ==
    ASSUME SInv, [Next]_vars, NEW p \in Pids, status[p] = 1, status'[p] = 0
    PROVE  p = cpu
<1>1. status \in [Pids -> {0, 1}]
  BY SMTT(20) DEF SInv, TypeOK
<1>2. ASSUME NEW t, NEW cnt, NEW n, NEW par, NEW fds,
             Launch(t, cnt, n, status, par, fds)
      PROVE  FALSE
  BY SMTT(20), <1>1, <1>2 DEF Launch
<1>3. ASSUME Running, NEW flag, NEW how, NEW s, HaltWith(flag, how, s) PROVE p = cpu
  <2> DEFINE child == Top(cur_term_id)
             st    == [status EXCEPT ![child] = 0]
  <2>1. cpu = child /\ child \in Pids
    BY <1>3, RunningFacts
  <2>2. p # child => st[p] = 1
    BY <1>1, <2>1
  <2>3. CASE Relaunch(child, flag)
    <3>1. PICK q \in Pids : status' = [st EXCEPT ![q] = 1]
      BY ZenonT(40), <2>3 DEF Relaunch, Released, Launch
    <3> QED BY SMTT(20), <1>1, <2>1, <2>2, <3>1
  <2>4. CASE ReturnToParent(child, flag, how, s)
    BY SMTT(20), <2>1, <2>2, <2>4 DEF ReturnToParent, Released
  <2> QED BY <1>3, <2>3, <2>4 DEF HaltWith
<1>4. ASSUME status' = status PROVE FALSE
  BY SMTT(20), <1>4
<1>5. CASE StartTerminal0
  BY SMTT(20), <1>2, <1>5 DEF StartTerminal0
<1>6. CASE Execute
  BY <1>2, <1>6 DEF Execute
<1>7. CASE \E s \in Statuses : Halt(s)
  BY <1>3, <1>7 DEF Halt
<1>8. CASE Exception
  BY <1>3, <1>8 DEF Exception
<1>9. CASE Pit
  BY SMTT(20), <1>2, <1>4, <1>9 DEF Pit, SwitchProcess, StartShell, Resume, pcbs
<1>10. CASE \E cmd \in {"NULL", "missing", "program"} : ExecuteRefused(cmd)
  BY <1>4, <1>10 DEF ExecuteRefused, pcbs
<1>11. CASE Open \/ (\E fd \in Fds : Close(fd)) \/ Vidmap
  BY <1>4, <1>11 DEF Open, Close, Vidmap
<1>12. CASE \E t \in Terminals : SwitchTerminal(t)
  BY <1>4, <1>12 DEF SwitchTerminal, pcbs
<1>13. CASE UNCHANGED vars
  BY <1>4, <1>13 DEF vars, pcbs
<1> QED BY SMTT(20), <1>5, <1>6, <1>7, <1>8, <1>9, <1>10, <1>11, <1>12, <1>13 DEF Next

(* A fault, a halt or an interrupt in between ends no program but the one  *)
(* that was running, in every interleaving of the gates of idt.c.          *)
THEOREM FaultsEndTheirProgram ==
    ASSUME EarlyExecute = FALSE
    PROVE  MSpec => FaultEndsFaulter
<1>1. MInv /\ [MNext]_mvars
      => [\A p \in Pids : status[p] = 1 /\ status'[p] = 0 => p = cpu]_mvars
  <2> SUFFICES ASSUME MInv, MNext, NEW p \in Pids, status[p] = 1, status'[p] = 0
               PROVE  p = cpu
    BY ZenonT(30)
  <2>1. SInv /\ [Next]_vars
    BY ProcessStep DEF MInv
  <2> QED BY <2>1, OnlyRunningEnds
<1> QED BY <1>1, MachineInvariance, PTL DEF MSpec, FaultEndsFaulter
============================================================================

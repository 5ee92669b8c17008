--------------------------- MODULE ProcessProofs ---------------------------
(***************************************************************************)
(* Proofs about Process, for every number of terminals, programs and PCBs  *)
(* that satisfies the assumptions of that module.                          *)
(***************************************************************************)
EXTENDS Process, FiniteSetTheorems, WellFoundedInduction, TLAPS

Counters == [Terminals -> 0 .. MAX_PROG_NUM_PER_TERM]
PidTables == [Terminals -> [Slots -> Pids]]
StatusTables == [Pids -> {0, 1}]
PidFields == [Pids -> Pids \cup {NULL}]

(* The stacks hold distinct pids, and exactly the pids in use.             *)
Stacked(tc, pp, st) ==
    /\ \A t \in Terminals : \A i \in Slots : i < tc[t] => st[pp[t][i]] = 1
    /\ \A p \in Pids : st[p] = 1 =>
          \E t \in Terminals : \E i \in Slots : i < tc[t] /\ pp[t][i] = p
    /\ \A t, u \in Terminals : \A i, j \in Slots :
          i < tc[t] /\ j < tc[u] /\ pp[t][i] = pp[u][j] => t = u /\ i = j

(* Parents and saved execute frames follow the stacks.                     *)
Chained(tc, pp, par, eb) ==
    \A t \in Terminals : \A i \in Slots : i < tc[t] =>
        IF i = 0 THEN par[pp[t][i]] = NULL
                 ELSE par[pp[t][i]] = pp[t][i - 1] /\ eb[pp[t][i]] = pp[t][i - 1]

LiveIn(st) == {p \in Pids : st[p] = 1}

(* What execute and halt leave for a caller, as TypeOK types it.           *)
Returns == [how : {"none", "refused", "halt", "exception"},
            status : 0 .. 255, val : {-1, EXP_ERROR} \cup 0 .. 255]

(* The steps below give the SMT solver thirty seconds. *)
USE SMTT(30)
----------------------------------------------------------------------------
(* A PCB that is free is found: some free pid is the lowest one.           *)
LEMMA LowestFreePid ==
    ASSUME NEW st \in StatusTables, NEW q \in Pids, st[q] = 0
    PROVE  \E p \in Pids : FirstFree(p, st)
<1> DEFINE T == {p \in Pids : st[p] = 0}
           R == OpToRel(<, Nat)
<1>1. T \subseteq Nat /\ T # {}
  BY SizesAssumption DEF Pids
<1>2. IsWellFoundedOn(R, Nat)
  BY NatLessThanWellFounded, ZenonT(30)
<1>3. \E x \in T : \A y \in T : ~(<<y, x>> \in R)
  <2> HIDE DEF T, R
  <2> QED BY <1>1, <1>2, WFMin, ZenonT(30)
<1>4. PICK x \in T : \A y \in T : ~(<<y, x>> \in R)
  BY <1>3, ZenonT(30)
<1>5. \A y \in T : ~(y < x)
  BY <1>4, <1>1, ZenonT(30) DEF OpToRel
<1>6. \A y \in Pids : y < x => st[y] # 0
  BY <1>5
<1> QED BY <1>6 DEF FirstFree

(* Fewer live programs than PCBs leave a PCB free.                         *)
LEMMA FreePcbExists ==
    ASSUME NEW st \in StatusTables, NEW n \in Nat,
           n = Cardinality(LiveIn(st)), n < MAX_PROGRAM_COUNT
    PROVE  \E p \in Pids : FreePcb(n, st, p)
<1>1. n <= MAX_PID
  BY SizesAssumption, CapacityAssumption
<1>2. \E q \in Pids : st[q] = 0
  <2> SUFFICES ASSUME \A q \in Pids : st[q] # 0 PROVE FALSE
    OBVIOUS
  <2>1. LiveIn(st) = Pids
    BY DEF LiveIn, StatusTables
  <2>2. Cardinality(Pids) = MAX_PID + 1
    BY FS_Interval, SizesAssumption DEF Pids
  <2> QED BY <1>1, <2>1, <2>2, SizesAssumption
<1>3. \E p \in Pids : FirstFree(p, st)
  BY <1>2, LowestFreePid
<1> QED BY <1>1, <1>3 DEF FreePcb

(* The set of live programs is finite and grows and shrinks by one.        *)
LEMMA LiveCount ==
    ASSUME NEW st \in StatusTables, NEW p \in Pids
    PROVE  /\ Cardinality(LiveIn(st)) \in Nat
           /\ st[p] = 0 => Cardinality(LiveIn([st EXCEPT ![p] = 1]))
                            = Cardinality(LiveIn(st)) + 1
           /\ st[p] = 1 => Cardinality(LiveIn([st EXCEPT ![p] = 0]))
                            = Cardinality(LiveIn(st)) - 1
<1>1. IsFiniteSet(Pids)
  BY FS_Interval, SizesAssumption DEF Pids
<1>2. IsFiniteSet(LiveIn(st))
  BY <1>1, FS_Subset DEF LiveIn
<1>3. Cardinality(LiveIn(st)) \in Nat
  BY <1>2, FS_CardinalityType
<1>4. ASSUME st[p] = 0
      PROVE  Cardinality(LiveIn([st EXCEPT ![p] = 1])) = Cardinality(LiveIn(st)) + 1
  <2>1. LiveIn([st EXCEPT ![p] = 1]) = LiveIn(st) \cup {p} /\ p \notin LiveIn(st)
    BY <1>4 DEF LiveIn, StatusTables
  <2> QED BY <2>1, <1>2, FS_AddElement, ZenonT(30)
<1>5. ASSUME st[p] = 1
      PROVE  Cardinality(LiveIn([st EXCEPT ![p] = 0])) = Cardinality(LiveIn(st)) - 1
  <2>1. LiveIn([st EXCEPT ![p] = 0]) = LiveIn(st) \ {p} /\ p \in LiveIn(st)
    BY <1>5 DEF LiveIn, StatusTables
  <2> QED BY <2>1, <1>2, FS_RemoveElement, ZenonT(30)
<1> QED BY <1>3, <1>4, <1>5
----------------------------------------------------------------------------
(* What writing one slot of prog_pids does.                                *)
LEMMA SlotUpdate ==
    ASSUME NEW pp \in PidTables, NEW t \in Terminals, NEW k \in Slots, NEW p \in Pids
    PROVE  /\ [pp EXCEPT ![t][k] = p] \in PidTables
           /\ \A u \in Terminals : \A j \in Slots :
                 [pp EXCEPT ![t][k] = p][u][j] = IF u = t /\ j = k THEN p ELSE pp[u][j]
BY DEF PidTables

(* create_pcb keeps the stacks in order.                                   *)
LEMMA PushStacked ==
    ASSUME NEW tc \in Counters, NEW pp \in PidTables, NEW st \in StatusTables,
           NEW t \in Terminals, NEW p \in Pids, Stacked(tc, pp, st),
           tc[t] < MAX_PROG_NUM_PER_TERM, st[p] = 0
    PROVE  Stacked([tc EXCEPT ![t] = tc[t] + 1],
                   [pp EXCEPT ![t][tc[t]] = p], [st EXCEPT ![p] = 1])
<1> DEFINE tc2 == [tc EXCEPT ![t] = tc[t] + 1]
           pp2 == [pp EXCEPT ![t][tc[t]] = p]
           st2 == [st EXCEPT ![p] = 1]
<1>0. tc[t] \in Slots
  BY SizesAssumption DEF Counters, Slots
<1>1. \A u \in Terminals : \A i \in Slots : i < tc2[u] =>
         \/ u = t /\ i = tc[t] /\ pp2[u][i] = p
         \/ i < tc[u] /\ pp2[u][i] = pp[u][i] /\ st[pp[u][i]] = 1 /\ pp[u][i] # p
  <2> SUFFICES ASSUME NEW u \in Terminals, NEW i \in Slots, i < tc2[u],
                      ~(u = t /\ i = tc[t])
               PROVE  i < tc[u] /\ pp2[u][i] = pp[u][i] /\ st[pp[u][i]] = 1
    BY <1>0 DEF PidTables
  <2>1. i < tc[u]
    BY <1>0 DEF Counters, Slots
  <2>2. pp2[u][i] = pp[u][i]
    BY <1>0 DEF PidTables
  <2> QED BY <2>1, <2>2 DEF Stacked
<1>2. \A u \in Terminals : \A i \in Slots : i < tc2[u] => st2[pp2[u][i]] = 1
  BY <1>1 DEF StatusTables, PidTables
<1>3. \A q \in Pids : st2[q] = 1 =>
         \E u \in Terminals : \E i \in Slots : i < tc2[u] /\ pp2[u][i] = q
  <2> SUFFICES ASSUME NEW q \in Pids, st2[q] = 1
               PROVE  \E u \in Terminals : \E i \in Slots : i < tc2[u] /\ pp2[u][i] = q
    OBVIOUS
  <2>1. CASE q = p
    <3>1. tc2[t] = tc[t] + 1 /\ tc[t] \in Nat
      BY SizesAssumption DEF Counters
    <3>2. pp2[t][tc[t]] = q
      BY <2>1, <1>0 DEF PidTables
    <3> QED BY <3>1, <3>2, <1>0
  <2>2. CASE q # p
    <3>1. PICK u \in Terminals : \E i \in Slots : i < tc[u] /\ pp[u][i] = q
      BY <2>2 DEF Stacked, StatusTables
    <3>2. PICK i \in Slots : i < tc[u] /\ pp[u][i] = q
      BY <3>1
    <3>3. i < tc2[u] /\ pp2[u][i] = q
      BY <3>2, <1>0 DEF Counters, PidTables, Slots
    <3> QED BY <3>3
  <2> QED BY <2>1, <2>2
<1>4. \A u, v \in Terminals : \A i, j \in Slots :
         i < tc2[u] /\ j < tc2[v] /\ pp2[u][i] = pp2[v][j] => u = v /\ i = j
  BY <1>1 DEF Stacked
<1> QED BY <1>2, <1>3, <1>4 DEF Stacked

(* halt keeps the stacks in order: the top program leaves.                 *)
LEMMA PopStacked ==
    ASSUME NEW tc \in Counters, NEW pp \in PidTables, NEW st \in StatusTables,
           NEW t \in Terminals, Stacked(tc, pp, st), tc[t] > 0
    PROVE  Stacked([tc EXCEPT ![t] = tc[t] - 1], pp,
                   [st EXCEPT ![pp[t][tc[t] - 1]] = 0])
<1> DEFINE tc2 == [tc EXCEPT ![t] = tc[t] - 1]
           p   == pp[t][tc[t] - 1]
           st2 == [st EXCEPT ![p] = 0]
<1>0. tc[t] - 1 \in Slots /\ p \in Pids
  BY SizesAssumption DEF Counters, Slots, PidTables
<1>1. \A u \in Terminals : \A i \in Slots :
         i < tc2[u] => i < tc[u] /\ ~(u = t /\ i = tc[t] - 1)
  BY <1>0 DEF Counters, Slots
<1>2. \A u \in Terminals : \A i \in Slots : i < tc2[u] => pp[u][i] # p
  BY <1>0, <1>1 DEF Stacked, Counters, Slots
<1>3. \A u \in Terminals : \A i \in Slots : i < tc2[u] => st2[pp[u][i]] = 1
  BY <1>1, <1>2 DEF Stacked, StatusTables, PidTables
<1>4. \A q \in Pids : st2[q] = 1 =>
         \E u \in Terminals : \E i \in Slots : i < tc2[u] /\ pp[u][i] = q
  <2> SUFFICES ASSUME NEW q \in Pids, st2[q] = 1
               PROVE  \E u \in Terminals : \E i \in Slots : i < tc2[u] /\ pp[u][i] = q
    OBVIOUS
  <2>1. q # p /\ st[q] = 1
    BY <1>0 DEF StatusTables
  <2>2. PICK u \in Terminals, i \in Slots : i < tc[u] /\ pp[u][i] = q
    BY <2>1 DEF Stacked
  <2>3. i < tc2[u]
    BY <2>1, <2>2 DEF Counters, Slots
  <2> QED BY <2>2, <2>3
<1>5. \A u, v \in Terminals : \A i, j \in Slots :
         i < tc2[u] /\ j < tc2[v] /\ pp[u][i] = pp[v][j] => u = v /\ i = j
  BY <1>1 DEF Stacked
<1> QED BY <1>3, <1>4, <1>5 DEF Stacked
----------------------------------------------------------------------------
(* create_pcb and the ebp saved by _execute extend the parent chain.       *)
LEMMA PushChained ==
    ASSUME NEW tc \in Counters, NEW pp \in PidTables, NEW st \in StatusTables,
           NEW par \in PidFields, NEW eb \in PidFields,
           NEW t \in Terminals, NEW p \in Pids, NEW par1 \in Pids \cup {NULL},
           NEW eb1 \in Pids, Stacked(tc, pp, st), Chained(tc, pp, par, eb),
           tc[t] < MAX_PROG_NUM_PER_TERM, st[p] = 0,
           IF tc[t] = 0 THEN par1 = NULL
                        ELSE par1 = pp[t][tc[t] - 1] /\ eb1 = pp[t][tc[t] - 1]
    PROVE  Chained([tc EXCEPT ![t] = tc[t] + 1], [pp EXCEPT ![t][tc[t]] = p],
                   [par EXCEPT ![p] = par1], [eb EXCEPT ![p] = eb1])
<1> DEFINE tc2 == [tc EXCEPT ![t] = tc[t] + 1]
           pp2 == [pp EXCEPT ![t][tc[t]] = p]
           par2 == [par EXCEPT ![p] = par1]
           eb2 == [eb EXCEPT ![p] = eb1]
<1>0. tc[t] \in Slots
  BY SizesAssumption DEF Counters, Slots
<1> SUFFICES ASSUME NEW u \in Terminals, NEW i \in Slots, i < tc2[u]
             PROVE  IF i = 0 THEN par2[pp2[u][i]] = NULL
                    ELSE /\ par2[pp2[u][i]] = pp2[u][i - 1]
                         /\ eb2[pp2[u][i]] = pp2[u][i - 1]
  BY DEF Chained
<1>1. CASE u = t /\ i = tc[t]
  <2>1. pp2[u][i] = p /\ par2[p] = par1 /\ eb2[p] = eb1
    BY <1>0, <1>1 DEF PidTables, PidFields
  <2>2. i # 0 => i - 1 \in Slots /\ i - 1 # tc[t]
    BY <1>1, SizesAssumption DEF Slots
  <2>3. i # 0 => pp2[u][i - 1] = pp[t][tc[t] - 1]
    BY <1>0, <1>1, <2>2, SlotUpdate
  <2> QED BY <1>1, <2>1, <2>3
<1>2. CASE ~(u = t /\ i = tc[t])
  <2>1. i < tc[u] /\ pp2[u][i] = pp[u][i]
    BY <1>0, <1>2 DEF PidTables, Counters, Slots
  <2>2. pp[u][i] # p /\ pp[u][i] \in Pids
    BY <2>1 DEF Stacked, PidTables
  <2>3. par2[pp[u][i]] = par[pp[u][i]] /\ eb2[pp[u][i]] = eb[pp[u][i]]
    BY <2>2 DEF PidFields
  <2>4. i # 0 => i - 1 \in Slots /\ ~(u = t /\ i - 1 = tc[t])
    BY <2>1, SizesAssumption DEF Slots, Counters
  <2>5. i # 0 => pp2[u][i - 1] = pp[u][i - 1]
    BY <1>0, <2>4, SlotUpdate
  <2> QED BY <2>1, <2>3, <2>5 DEF Chained
<1> QED BY <1>1, <1>2

(* halt shortens the parent chain.                                         *)
LEMMA PopChained ==
    ASSUME NEW tc \in Counters, NEW pp \in PidTables, NEW st \in StatusTables,
           NEW par \in PidFields, NEW eb \in PidFields, NEW t \in Terminals,
           Stacked(tc, pp, st), Chained(tc, pp, par, eb), tc[t] > 0
    PROVE  Chained([tc EXCEPT ![t] = tc[t] - 1], pp,
                   [par EXCEPT ![pp[t][tc[t] - 1]] = NULL], eb)
<1> DEFINE tc2 == [tc EXCEPT ![t] = tc[t] - 1]
           p   == pp[t][tc[t] - 1]
<1>0. tc[t] - 1 \in Slots /\ p \in Pids
  BY SizesAssumption DEF Counters, Slots, PidTables
<1> SUFFICES ASSUME NEW u \in Terminals, NEW i \in Slots, i < tc2[u]
             PROVE  /\ i < tc[u]
                    /\ [par EXCEPT ![p] = NULL][pp[u][i]] = par[pp[u][i]]
  BY DEF Chained
<1>1. i < tc[u] /\ ~(u = t /\ i = tc[t] - 1)
  BY <1>0 DEF Counters, Slots
<1>2. tc[t] - 1 < tc[t]
  BY DEF Counters
<1>3. pp[u][i] # p /\ pp[u][i] \in Pids
  BY <1>0, <1>1, <1>2 DEF Stacked, PidTables
<1> QED BY <1>1, <1>3 DEF PidFields
----------------------------------------------------------------------------
(* The properties of Process, in terms of the two predicates above.        *)
LEMMA ExclusiveIsStacked ==
    ASSUME TypeOK
    PROVE  PcbsExclusive <=> Stacked(term_prog_counter, prog_pids, status)
<1>1. \A t \in Terminals : \A p : p \in Stack(t) <=>
         \E i \in Slots : i < term_prog_counter[t] /\ prog_pids[t][i] = p
  <2> SUFFICES ASSUME NEW t \in Terminals
               PROVE  \A p : p \in Stack(t) <=>
                         \E i \in Slots : i < term_prog_counter[t] /\ prog_pids[t][i] = p
    OBVIOUS
  <2>1. term_prog_counter[t] \in 0 .. MAX_PROG_NUM_PER_TERM
    BY DEF TypeOK
  <2>2. \A i : i \in 0 .. term_prog_counter[t] - 1
                <=> i \in Slots /\ i < term_prog_counter[t]
    BY <2>1, SizesAssumption DEF Slots
  <2> QED BY <2>2 DEF Stack
<1>2. \A t \in Terminals : \A i \in Slots : prog_pids[t][i] \in Pids
  BY DEF TypeOK
<1>3. Live = UNION {Stack(t) : t \in Terminals} <=>
         \A p \in Pids : status[p] = 1 <=>
             \E t \in Terminals : \E i \in Slots :
                 i < term_prog_counter[t] /\ prog_pids[t][i] = p
  BY <1>1, <1>2 DEF Live
<1> QED BY <1>2, <1>3 DEF PcbsExclusive, Stacked

(* ParentChain says that parents and saved frames follow the stacks.       *)
LEMMA ParentChainIsChained ==
    ASSUME TypeOK
    PROVE  ParentChain <=> Chained(term_prog_counter, prog_pids, parent, ebp)
BY DEF ParentChain, Chained, TypeOK

(* The invariant in the form the step lemmas use.                          *)
SInv == /\ TypeOK
        /\ Stacked(term_prog_counter, prog_pids, status)
        /\ Chained(term_prog_counter, prog_pids, parent, ebp)
        /\ CountersAgree /\ ContextCoherent /\ SavedContexts /\ BootOrder

(* The two forms of the invariant are the same.                            *)
LEMMA SInvIsIInv == SInv <=> IInv
BY ExclusiveIsStacked, ParentChainIsChained DEF SInv, IInv

(* The state in which entry() calls start_terminal0 satisfies the invariant.*)
LEMMA InitSInv == Init => SInv
<1> SUFFICES ASSUME Init PROVE SInv
  OBVIOUS
<1>1. TypeOK
  <2>1. 0 \in Terminals /\ 0 \in Pids /\ 0 \in 0 .. MAX_PROG_NUM_PER_TERM
        /\ 0 \in 0 .. MAX_PROGRAM_COUNT /\ 0 \in 0 .. MAX_TERMINAL_NUM
    BY SizesAssumption DEF Terminals, Pids
  <2>2. ret \in [how : {"none", "refused", "halt", "exception"},
                 status : 0 .. 255, val : {-1, EXP_ERROR} \cup 0 .. 255]
    BY DEF Init, NoReturn
  <2> QED BY <2>1, <2>2, ZenonT(30) DEF Init, TypeOK
<1>2. Stacked(term_prog_counter, prog_pids, status)
  BY DEF Init, Stacked, Slots
<1>3. Chained(term_prog_counter, prog_pids, parent, ebp)
  BY DEF Init, Chained, Slots
<1>4. CountersAgree
  <2>1. Live = {}
    BY DEF Init, Live
  <2> QED BY <2>1, FS_EmptySet DEF CountersAgree, Init
<1>5. ContextCoherent /\ SavedContexts /\ BootOrder
  BY DEF Init, ContextCoherent, SavedContexts, BootOrder, Running, NULL
<1> QED BY <1>1, <1>2, <1>3, <1>4, <1>5 DEF SInv
----------------------------------------------------------------------------
(* A NULL parent pointer is no process.                                    *)
LEMMA NullIsNoPid == NULL \notin Pids
BY SizesAssumption DEF NULL, Pids

(* What a successful execute leaves behind: variables of their types, the  *)
(* new process on top of terminal t and owner of the context ...           *)
LaunchedTypes ==
    /\ term_prog_counter' \in Counters /\ prog_pids' \in PidTables
    /\ prog_counter' \in 0 .. MAX_PROGRAM_COUNT
    /\ status' \in StatusTables /\ parent' \in PidFields
    /\ ebp' \in PidFields /\ open_fds' \in [Pids -> SUBSET Fds]
    /\ cpu' \in Pids /\ page' \in Pids /\ esp0' \in Pids /\ file_array' \in Pids

LaunchedOnTop(t, cnt) ==
    /\ term_prog_counter' = [term_prog_counter EXCEPT ![t] = cnt + 1]
    /\ term_prog_counter'[t] = cnt + 1
    /\ \A u \in Terminals \ {t} : /\ term_prog_counter'[u] = term_prog_counter[u]
                                  /\ prog_pids'[u] = prog_pids[u]
    /\ prog_pids'[t][cnt] = cpu'
    /\ cpu' # NULL /\ page' = cpu' /\ esp0' = cpu' /\ file_array' = cpu'

(* ... and stacks, parents and counter in order.                           *)
LaunchedInOrder(n) ==
    /\ Stacked(term_prog_counter', prog_pids', status')
    /\ Chained(term_prog_counter', prog_pids', parent', ebp')
    /\ prog_counter' = n + 1 /\ prog_counter' = Cardinality(LiveIn(status'))

(* A successful execute in terminal t, started from counters tc and        *)
(* tables st and par that are in order: the new process is on top of t,    *)
(* owns the context, and everything is in order again.                     *)
LEMMA LaunchStep ==
    ASSUME TypeOK, NEW t \in Terminals, NEW cnt \in 0 .. MAX_PROG_NUM_PER_TERM,
           NEW n \in Nat, NEW st \in StatusTables, NEW par \in PidFields,
           NEW fds \in [Pids -> SUBSET Fds],
           Stacked([term_prog_counter EXCEPT ![t] = cnt], prog_pids, st),
           Chained([term_prog_counter EXCEPT ![t] = cnt], prog_pids, par, ebp),
           n = Cardinality(LiveIn(st)), ~LimitReached(cnt, n),
           cnt > 0 => esp0 = prog_pids[t][cnt - 1],
           Launch(t, cnt, n, st, par, fds)
    PROVE  LaunchedTypes /\ LaunchedOnTop(t, cnt) /\ LaunchedInOrder(n)
<1> DEFINE tc == [term_prog_counter EXCEPT ![t] = cnt]
<1>1. PICK p \in Pids :
        /\ FreePcb(n, st, p)
        /\ status' = [st EXCEPT ![p] = 1]
        /\ parent' = [par EXCEPT ![p] = ParentOf(t, cnt)]
        /\ open_fds' = [fds EXCEPT ![p] = {}]
        /\ ebp' = [ebp EXCEPT ![p] = esp0]
        /\ prog_counter' = n + 1
        /\ prog_pids' = [prog_pids EXCEPT ![t][cnt] = p]
        /\ term_prog_counter' = [term_prog_counter EXCEPT ![t] = cnt + 1]
        /\ cpu' = p /\ page' = p /\ esp0' = p /\ file_array' = p
  BY ZenonT(30) DEF Launch
<1>2. st[p] = 0
  BY <1>1 DEF FreePcb, FirstFree
<1>3. cnt < MAX_PROG_NUM_PER_TERM /\ n < MAX_PROGRAM_COUNT
  BY SizesAssumption DEF LimitReached
<1>4. cnt \in Slots
  BY <1>3, SizesAssumption DEF Slots
<1>5. /\ term_prog_counter \in Counters /\ prog_pids \in PidTables
      /\ ebp \in PidFields /\ esp0 \in Pids
  BY DEF TypeOK, Counters, PidTables, PidFields
<1>6. tc \in Counters /\ tc[t] = cnt
  BY <1>5 DEF Counters
<1>7. [tc EXCEPT ![t] = tc[t] + 1] = term_prog_counter'
  BY <1>1, <1>5, <1>6 DEF Counters
<1>8. term_prog_counter' \in Counters
  <2>1. cnt + 1 \in 0 .. MAX_PROG_NUM_PER_TERM
    BY <1>3, SizesAssumption
  <2> QED BY <1>1, <1>5, <2>1 DEF Counters
<1>9. prog_pids' = [prog_pids EXCEPT ![t][tc[t]] = p]
  BY <1>1, <1>6, ZenonT(30)
<1>10. prog_pids' \in PidTables /\ prog_pids'[t][cnt] = p
       /\ \A u \in Terminals \ {t} : prog_pids'[u] = prog_pids[u]
  BY <1>1, <1>4, <1>5 DEF PidTables
<1>11. ParentOf(t, cnt) \in Pids \cup {NULL}
       /\ IF cnt = 0 THEN ParentOf(t, cnt) = NULL
                     ELSE ParentOf(t, cnt) = prog_pids[t][cnt - 1]
  <2>1. cnt # 0 => cnt - 1 \in Slots
    BY <1>3, SizesAssumption DEF Slots
  <2> QED BY <2>1, <1>5 DEF ParentOf, PidTables
<1>12. Stacked(term_prog_counter', prog_pids', status')
  <2>1. Stacked([tc EXCEPT ![t] = tc[t] + 1], [prog_pids EXCEPT ![t][tc[t]] = p],
                [st EXCEPT ![p] = 1])
    <3> HIDE DEF tc
    <3> QED BY <1>2, <1>3, <1>5, <1>6, PushStacked, ZenonT(30) DEF tc
  <2> QED BY <2>1, <1>1, <1>7, <1>9, ZenonT(30)
<1>13. Chained(term_prog_counter', prog_pids', parent', ebp')
  <2>1. Chained([tc EXCEPT ![t] = tc[t] + 1], [prog_pids EXCEPT ![t][tc[t]] = p],
                [par EXCEPT ![p] = ParentOf(t, cnt)], [ebp EXCEPT ![p] = esp0])
    <3>1. IF tc[t] = 0 THEN ParentOf(t, cnt) = NULL
          ELSE ParentOf(t, cnt) = prog_pids[t][tc[t] - 1] /\ esp0 = prog_pids[t][tc[t] - 1]
      BY <1>6, <1>11
    <3>2. Stacked(tc, prog_pids, st) /\ Chained(tc, prog_pids, par, ebp)
      OBVIOUS
    <3>3. tc[t] < MAX_PROG_NUM_PER_TERM
      BY <1>3, <1>6
    <3> HIDE DEF tc
    <3> QED BY <3>1, <3>2, <3>3, <1>2, <1>5, <1>6, <1>11, PushChained, ZenonT(30)
  <2> QED BY <2>1, <1>1, <1>7, <1>9, ZenonT(30)
<1>14. prog_counter' = Cardinality(LiveIn(status'))
  BY <1>1, <1>2, LiveCount, ZenonT(30)
<1>15. status' \in StatusTables /\ parent' \in PidFields
       /\ ebp' \in PidFields /\ open_fds' \in [Pids -> SUBSET Fds]
  BY <1>1, <1>5, <1>11 DEF StatusTables, PidFields
<1>16. prog_counter' \in 0 .. MAX_PROGRAM_COUNT
  BY <1>1, <1>3, SizesAssumption
<1>17. term_prog_counter'[t] = cnt + 1
       /\ \A u \in Terminals \ {t} : term_prog_counter'[u] = term_prog_counter[u]
  BY <1>1, <1>5 DEF Counters
<1>18. LaunchedTypes
  BY <1>1, <1>8, <1>10, <1>15, <1>16 DEF LaunchedTypes
<1>19. LaunchedOnTop(t, cnt)
  BY <1>1, <1>10, <1>17, NullIsNoPid DEF LaunchedOnTop
<1>20. LaunchedInOrder(n)
  BY <1>1, <1>12, <1>13, <1>14 DEF LaunchedInOrder
<1> QED BY <1>18, <1>19, <1>20
----------------------------------------------------------------------------
(* Facts about the tops of the stacks.                                     *)
LEMMA TopFacts ==
    ASSUME SInv, NEW t \in Terminals, term_prog_counter[t] > 0
    PROVE  /\ term_prog_counter[t] - 1 \in Slots
           /\ Top(t) \in Pids /\ status[Top(t)] = 1
           /\ \A u \in Terminals :
                 u # t /\ term_prog_counter[u] > 0 => Top(u) # Top(t)
<1>1. \A u \in Terminals : term_prog_counter[u] > 0 =>
         /\ term_prog_counter[u] - 1 \in Slots
         /\ term_prog_counter[u] - 1 < term_prog_counter[u]
  <2> SUFFICES ASSUME NEW u \in Terminals, term_prog_counter[u] > 0
               PROVE  /\ term_prog_counter[u] - 1 \in Slots
                      /\ term_prog_counter[u] - 1 < term_prog_counter[u]
    OBVIOUS
  <2>1. term_prog_counter[u] \in 0 .. MAX_PROG_NUM_PER_TERM
    BY DEF SInv, TypeOK
  <2> QED BY <2>1, SizesAssumption DEF Slots
<1>2. Top(t) \in Pids
  BY <1>1 DEF SInv, TypeOK, Top
<1>3. status[Top(t)] = 1
  BY <1>1 DEF SInv, Stacked, Top
<1>4. \A u \in Terminals : u # t /\ term_prog_counter[u] > 0 => Top(u) # Top(t)
  BY <1>1 DEF SInv, Stacked, Top
<1> QED BY <1>1, <1>2, <1>3, <1>4

(* While a program runs, it is the top of the scheduled terminal.          *)
LEMMA RunningFacts ==
    ASSUME SInv, Running
    PROVE  /\ cur_term_id \in Terminals /\ term_prog_counter[cur_term_id] > 0
           /\ cpu = Top(cur_term_id) /\ cpu \in Pids
           /\ page = cpu /\ esp0 = cpu /\ file_array = cpu
           /\ prog_counter > 0
<1>1. cur_term_id \in Terminals /\ term_prog_counter[cur_term_id] > 0
      /\ cpu = Top(cur_term_id) /\ page = cpu /\ esp0 = cpu /\ file_array = cpu
  BY DEF SInv, TypeOK, ContextCoherent
<1>2. cpu \in Pids /\ status[cpu] = 1
  BY <1>1, TopFacts
<1>3. IsFiniteSet(Live) /\ Live # {}
  <2>1. IsFiniteSet(Pids)
    BY FS_Interval, SizesAssumption DEF Pids
  <2> QED BY <2>1, <1>2, FS_Subset DEF Live
<1>4. Cardinality(Live) \in Nat /\ Cardinality(Live) # 0
  BY <1>3, FS_CardinalityType, FS_EmptySet
<1>5. prog_counter > 0
  BY <1>4 DEF SInv, CountersAgree
<1> QED BY <1>1, <1>2, <1>5

(* pit_handler's remainder is the next terminal, or terminal 0.            *)
LEMMA NextTerminalValue ==
    ASSUME NEW t \in Terminals
    PROVE  NextTerminal(t) = IF t + 1 = MAX_TERMINAL_NUM THEN 0 ELSE t + 1
<1>1. t + 1 \in 1 .. MAX_TERMINAL_NUM
  BY SizesAssumption DEF Terminals
<1>2. CASE t + 1 = MAX_TERMINAL_NUM
  BY <1>2, SizesAssumption DEF NextTerminal
<1>3. CASE t + 1 < MAX_TERMINAL_NUM
  BY <1>1, <1>3, SizesAssumption DEF NextTerminal
<1> QED BY <1>1, <1>2, <1>3, SizesAssumption

(* A step that completes no execute call leaves a well-typed result.       *)
LEMMA NoReturnTyped == NoReturn \in Returns
<1>1. 0 \in 0 .. 255
  OBVIOUS
<1> QED BY <1>1, ZenonT(30) DEF NoReturn, Returns

(* A step that leaves stacks, chains, saved frames and registers alone.    *)
LEMMA QuietStep ==
    ASSUME SInv, TypeOK',
           UNCHANGED <<cur_term_id, term_prog_counter, prog_pids, prog_counter,
                       status, parent, ebp, term_ebp, regs>>
    PROVE  SInv'
BY DEF SInv, CountersAgree, Live, ContextCoherent, SavedContexts, BootOrder, Running,
       AllStarted, Top, regs
----------------------------------------------------------------------------
(* start_terminal0, which starts the first shell.                          *)
LEMMA StartTerminal0Step ==
    ASSUME SInv, StartTerminal0
    PROVE  SInv'
<1>1. /\ 0 \in Terminals /\ 0 \in 0 .. MAX_PROG_NUM_PER_TERM
      /\ cur_term_id' = 0 /\ prog_counter = 0
      /\ \A t \in Terminals : term_prog_counter[t] = 0
  BY SizesAssumption DEF SInv, BootOrder, StartTerminal0, Terminals
<1>2. [term_prog_counter EXCEPT ![0] = 0] = term_prog_counter
  BY <1>1 DEF SInv, TypeOK
<1>3. ~LimitReached(0, prog_counter)
  BY <1>1, SizesAssumption, CapacityAssumption DEF LimitReached
<1>4. Launch(0, 0, prog_counter, status, parent, open_fds)
  BY <1>1 DEF StartTerminal0
<1>5. /\ status \in StatusTables /\ parent \in PidFields
      /\ open_fds \in [Pids -> SUBSET Fds] /\ prog_counter \in Nat
      /\ prog_counter = Cardinality(LiveIn(status))
  BY SizesAssumption
  DEF SInv, TypeOK, StatusTables, PidFields, CountersAgree, Live, LiveIn
<1>6. LaunchedTypes /\ LaunchedOnTop(0, 0) /\ LaunchedInOrder(prog_counter)
  BY <1>1, <1>2, <1>3, <1>4, <1>5, LaunchStep DEF SInv
<1>7. TypeOK'
  BY <1>1, <1>6
  DEF SInv, TypeOK, StartTerminal0, LaunchedTypes, Counters, PidTables, StatusTables,
      PidFields, vid
<1>8. \A t \in Terminals : term_prog_counter'[t] = IF t <= 0 THEN 1 ELSE 0
  BY <1>1, <1>6 DEF LaunchedOnTop, Terminals
<1>9. ContextCoherent'
  BY <1>1, <1>6 DEF LaunchedOnTop, ContextCoherent, Top
<1>10. SavedContexts'
  BY <1>1, <1>8, SizesAssumption DEF SavedContexts, Terminals
<1>11. BootOrder'
  <2>1. Running' /\ prog_counter' = 0 + 1
    BY <1>1, <1>6 DEF LaunchedOnTop, LaunchedInOrder, Running
  <2> QED BY <1>1, <1>8, <2>1, ZenonT(30) DEF BootOrder
<1>12. CountersAgree'
  BY <1>6 DEF LaunchedInOrder, CountersAgree, Live, LiveIn
<1> QED BY <1>6, <1>7, <1>9, <1>10, <1>11, <1>12 DEF SInv, LaunchedInOrder

(* execute, for a command that names a program.                            *)
LEMMA ExecuteStep ==
    ASSUME SInv, Execute, EarlyExecute = FALSE
    PROVE  SInv'
<1> DEFINE t == cur_term_id
           cnt == term_prog_counter[t]
<1>1. /\ t \in Terminals /\ cnt > 0 /\ cpu = Top(t) /\ cpu \in Pids /\ esp0 = cpu
  BY RunningFacts DEF Execute
<1>2. [term_prog_counter EXCEPT ![t] = cnt] = term_prog_counter
      /\ cnt \in 0 .. MAX_PROG_NUM_PER_TERM
  BY <1>1 DEF SInv, TypeOK
<1>3. ~LimitReached(cnt, prog_counter)
  BY DEF Execute, Refuses
<1>4. Launch(t, cnt, prog_counter, status, parent, open_fds)
  BY DEF Execute
<1>5. /\ status \in StatusTables /\ parent \in PidFields
      /\ open_fds \in [Pids -> SUBSET Fds] /\ prog_counter \in Nat
      /\ prog_counter = Cardinality(LiveIn(status))
  BY SizesAssumption
  DEF SInv, TypeOK, StatusTables, PidFields, CountersAgree, Live, LiveIn
<1>6. LaunchedTypes /\ LaunchedOnTop(t, cnt) /\ LaunchedInOrder(prog_counter)
  <2>1. esp0 = prog_pids[t][cnt - 1]
    BY <1>1, ZenonT(30) DEF Top
  <2> HIDE DEF t, cnt
  <2> QED BY <1>1, <1>2, <1>3, <1>4, <1>5, <2>1, LaunchStep DEF SInv
<1>7. TypeOK'
  BY <1>6
  DEF SInv, TypeOK, Execute, LaunchedTypes, Counters, PidTables, StatusTables,
      PidFields, vid, NoReturn
<1>8. cur_term_id' = t /\ term_ebp' = term_ebp
  BY DEF Execute
<1>9. cnt \in Nat /\ cnt + 1 > 0 /\ (cnt + 1) - 1 = cnt
  BY <1>2, SizesAssumption
<1>10. term_prog_counter'[t] = cnt + 1
       /\ \A u \in Terminals \ {t} : term_prog_counter'[u] = term_prog_counter[u]
                                    /\ prog_pids'[u] = prog_pids[u]
  BY <1>6 DEF LaunchedOnTop
<1>11. ContextCoherent'
  <2> HIDE DEF t, cnt
  <2> QED BY <1>6, <1>8, <1>9, ZenonT(30) DEF LaunchedOnTop, ContextCoherent, Top
<1>12. SavedContexts'
  BY <1>8, <1>10 DEF SInv, SavedContexts, Top
<1>13. AllStarted'
  <2>1. AllStarted
    BY DEF Execute
  <2> QED BY <2>1, <1>9, <1>10 DEF AllStarted
<1>14. BootOrder'
  BY <1>6, <1>13 DEF BootOrder, Running, LaunchedOnTop
<1>15. CountersAgree'
  BY <1>6 DEF LaunchedInOrder, CountersAgree, Live, LiveIn
<1> QED BY <1>6, <1>7, <1>11, <1>12, <1>14, <1>15 DEF SInv, LaunchedInOrder
----------------------------------------------------------------------------
(* halt, of the shell at the bottom of its terminal.                       *)
LEMMA RelaunchStep ==
    ASSUME SInv, Running, NEW flag \in {0, 1}, parent[Top(cur_term_id)] = NULL,
           Relaunch(Top(cur_term_id), flag),
           UNCHANGED <<cur_term_id, active_term_idx, term_ebp>>
    PROVE  SInv'
<1> DEFINE t == cur_term_id
           tc == [term_prog_counter EXCEPT ![t] = 0]
           st == Released(Top(t))
           par == Orphaned(Top(t))
<1>1. t \in Terminals /\ term_prog_counter[t] > 0 /\ Top(t) \in Pids
      /\ file_array \in Pids /\ prog_counter > 0
  BY RunningFacts
<1>2. term_prog_counter[t] - 1 \in Slots /\ status[Top(t)] = 1
  BY <1>1, TopFacts
<1>3. term_prog_counter \in Counters /\ prog_pids \in PidTables
      /\ status \in StatusTables /\ parent \in PidFields /\ ebp \in PidFields
      /\ open_fds \in [Pids -> SUBSET Fds] /\ prog_counter \in Nat
      /\ prog_counter <= MAX_PROGRAM_COUNT
  BY SizesAssumption DEF SInv, TypeOK, Counters, PidTables, StatusTables, PidFields
<1>4. term_prog_counter[t] = 1
  <2> SUFFICES ASSUME term_prog_counter[t] # 1 PROVE FALSE
    OBVIOUS
  <2>1. term_prog_counter[t] \in Nat
    BY <1>1, <1>3 DEF Counters
  <2>2. term_prog_counter[t] - 1 # 0 /\ term_prog_counter[t] - 1 < term_prog_counter[t]
        /\ term_prog_counter[t] - 2 = (term_prog_counter[t] - 1) - 1
    BY <2>1
  <2>3. (term_prog_counter[t] - 1) - 1 \in Slots
    BY <1>2, <2>1, <1>1, SizesAssumption DEF Slots
  <2>4. parent[Top(t)] = prog_pids[t][(term_prog_counter[t] - 1) - 1]
    BY <1>1, <1>2, <2>2, ZenonT(30) DEF SInv, Chained, Top
  <2> QED BY <2>3, <2>4, <1>1, <1>3, NullIsNoPid DEF PidTables
<1>5. Stacked(tc, prog_pids, st) /\ Chained(tc, prog_pids, par, ebp)
  <2>1. Stacked([term_prog_counter EXCEPT ![t] = term_prog_counter[t] - 1], prog_pids,
                [status EXCEPT ![prog_pids[t][term_prog_counter[t] - 1]] = 0])
    BY <1>1, <1>3, PopStacked DEF SInv
  <2>2. Chained([term_prog_counter EXCEPT ![t] = term_prog_counter[t] - 1], prog_pids,
                [parent EXCEPT ![prog_pids[t][term_prog_counter[t] - 1]] = NULL], ebp)
    BY <1>1, <1>3, PopChained DEF SInv
  <2> QED BY <2>1, <2>2, <1>4 DEF Released, Orphaned, Top
<1>6. st \in StatusTables /\ par \in PidFields /\ FilesClosed \in [Pids -> SUBSET Fds]
  BY <1>1, <1>3 DEF Released, Orphaned, FilesClosed, StatusTables, PidFields
<1>7. prog_counter - 1 = Cardinality(LiveIn(st)) /\ prog_counter - 1 \in Nat
  <2>1. prog_counter = Cardinality(LiveIn(status))
    BY DEF SInv, CountersAgree, Live, LiveIn
  <2>2. Cardinality(LiveIn([status EXCEPT ![Top(t)] = 0])) = Cardinality(LiveIn(status)) - 1
    BY <1>1, <1>2, <1>3, LiveCount, ZenonT(30)
  <2> QED BY <2>1, <2>2, <1>1, <1>3 DEF Released
<1>8. ~LimitReached(0, prog_counter - 1) /\ 0 \in 0 .. MAX_PROG_NUM_PER_TERM
  BY <1>3, SizesAssumption DEF LimitReached
<1>9. Launch(t, 0, prog_counter - 1, st, par, FilesClosed)
  BY DEF Relaunch
<1>10. LaunchedTypes /\ LaunchedOnTop(t, 0) /\ LaunchedInOrder(prog_counter - 1)
  <2> HIDE DEF t, st, par
  <2> QED BY <1>1, <1>5, <1>6, <1>7, <1>8, <1>9, LaunchStep DEF SInv
<1>11. term_prog_counter' = term_prog_counter /\ prog_counter' = prog_counter
  <2>1. term_prog_counter' = [term_prog_counter EXCEPT ![t] = 1]
    BY <1>10 DEF LaunchedOnTop
  <2>2. prog_counter' = (prog_counter - 1) + 1
    BY <1>10 DEF LaunchedInOrder
  <2> QED BY <2>1, <2>2, <1>3, <1>4 DEF Counters
<1>12. TypeOK'
  BY <1>10
  DEF SInv, TypeOK, Relaunch, LaunchedTypes, Counters, PidTables, StatusTables,
      PidFields, vid, NoReturn
<1>13. ContextCoherent'
  <2>1. cur_term_id' = t /\ term_prog_counter'[t] = 1
    BY <1>4, <1>11, ZenonT(30)
  <2>2. page' = cpu' /\ esp0' = cpu' /\ file_array' = cpu' /\ prog_pids'[t][0] = cpu'
    BY <1>10, ZenonT(30) DEF LaunchedOnTop
  <2>3. 1 > 0 /\ 1 - 1 = 0
    OBVIOUS
  <2>4. term_prog_counter'[cur_term_id'] > 0
        /\ prog_pids'[cur_term_id'][term_prog_counter'[cur_term_id'] - 1] = cpu'
    BY <2>1, <2>2, <2>3, ZenonT(30)
  <2> QED BY <2>2, <2>4, ZenonT(30) DEF ContextCoherent, Top
<1>14. SavedContexts'
  <2>1. \A u \in Terminals \ {t} : prog_pids'[u] = prog_pids[u]
    BY <1>10 DEF LaunchedOnTop
  <2> QED BY <2>1, <1>11, ZenonT(30) DEF SInv, SavedContexts, Top
<1>15. BootOrder'
  <2>1. Running'
    BY <1>10 DEF Running, LaunchedOnTop
  <2> QED BY <2>1, <1>11 DEF SInv, BootOrder, AllStarted
<1>16. CountersAgree'
  BY <1>10 DEF LaunchedInOrder, CountersAgree, Live, LiveIn
<1> QED BY <1>10, <1>12, <1>13, <1>14, <1>15, <1>16 DEF SInv, LaunchedInOrder

(* halt, of any other program.                                             *)
LEMMA ReturnStep ==
    ASSUME SInv, Running, NEW flag \in {0, 1}, NEW s \in 0 .. 255,
           NEW how \in {"halt", "exception"}, parent[Top(cur_term_id)] # NULL,
           ReturnToParent(Top(cur_term_id), flag, how, s),
           UNCHANGED <<cur_term_id, active_term_idx, term_ebp>>
    PROVE  SInv'
<1> DEFINE t == cur_term_id
           n == term_prog_counter[t]
<1>1. t \in Terminals /\ n > 0 /\ Top(t) \in Pids
      /\ file_array \in Pids /\ prog_counter > 0
  BY RunningFacts
<1>2. n - 1 \in Slots /\ status[Top(t)] = 1
  BY <1>1, TopFacts
<1>3. term_prog_counter \in Counters /\ prog_pids \in PidTables
      /\ status \in StatusTables /\ parent \in PidFields /\ ebp \in PidFields
      /\ open_fds \in [Pids -> SUBSET Fds] /\ prog_counter \in Nat
      /\ prog_counter <= MAX_PROGRAM_COUNT
  BY SizesAssumption DEF SInv, TypeOK, Counters, PidTables, StatusTables, PidFields
<1>4. n \in Nat /\ n <= MAX_PROG_NUM_PER_TERM
  BY <1>1, <1>3, SizesAssumption DEF Counters
<1>5. n - 1 # 0
  BY <1>1, <1>2, <1>4, ZenonT(30) DEF SInv, Chained, Top
<1>6. /\ parent[Top(t)] = prog_pids[t][n - 2] /\ ebp[Top(t)] = prog_pids[t][n - 2]
      /\ n - 2 \in Slots /\ prog_pids[t][n - 2] \in Pids
  <2>1. n - 2 = (n - 1) - 1 /\ n - 1 < n
    BY <1>4
  <2>2. n - 2 \in Slots
    BY <1>1, <1>4, <1>5, SizesAssumption DEF Slots
  <2>3. parent[Top(t)] = prog_pids[t][(n - 1) - 1] /\ ebp[Top(t)] = prog_pids[t][(n - 1) - 1]
    BY <1>1, <1>2, <1>5, <2>1, ZenonT(30) DEF SInv, Chained, Top
  <2> QED BY <2>1, <2>2, <2>3, <1>1, <1>3 DEF PidTables
<1>7. term_prog_counter' = [term_prog_counter EXCEPT ![t] = n - 1]
      /\ term_prog_counter'[t] = n - 1 /\ n - 1 > 0
      /\ term_prog_counter' \in Counters
      /\ \A u \in Terminals \ {t} : term_prog_counter'[u] = term_prog_counter[u]
  <2>1. n - 1 \in 0 .. MAX_PROG_NUM_PER_TERM /\ n - 1 > 0
    BY <1>1, <1>4, <1>5, SizesAssumption
  <2> QED BY <2>1, <1>1, <1>3 DEF ReturnToParent, Counters
<1>8. Stacked(term_prog_counter', prog_pids', status')
  <2>1. Stacked([term_prog_counter EXCEPT ![t] = term_prog_counter[t] - 1], prog_pids,
                [status EXCEPT ![prog_pids[t][term_prog_counter[t] - 1]] = 0])
    BY <1>1, <1>3, PopStacked, ZenonT(30) DEF SInv
  <2> QED BY <2>1, <1>7, ZenonT(30) DEF ReturnToParent, Released, Top
<1>9. Chained(term_prog_counter', prog_pids', parent', ebp')
  <2>1. Chained([term_prog_counter EXCEPT ![t] = term_prog_counter[t] - 1], prog_pids,
                [parent EXCEPT ![prog_pids[t][term_prog_counter[t] - 1]] = NULL], ebp)
    BY <1>1, <1>3, PopChained DEF SInv
  <2> QED BY <2>1, <1>7, ZenonT(30) DEF ReturnToParent, Orphaned, Top
<1>10. prog_counter' = Cardinality(LiveIn(status')) /\ prog_counter' \in 0 .. MAX_PROGRAM_COUNT
  <2>1. prog_counter = Cardinality(LiveIn(status))
    BY ZenonT(30) DEF SInv, CountersAgree, Live, LiveIn
  <2>2. prog_counter' = prog_counter - 1 /\ status' = [status EXCEPT ![Top(t)] = 0]
    BY DEF ReturnToParent, Released
  <2>3. Cardinality(LiveIn([status EXCEPT ![Top(t)] = 0])) = Cardinality(LiveIn(status)) - 1
    BY <1>1, <1>2, <1>3, LiveCount, ZenonT(30)
  <2> QED BY <2>1, <2>2, <2>3, <1>1, <1>3, SizesAssumption
<1>11. /\ cpu' = prog_pids[t][n - 2] /\ page' = cpu' /\ esp0' = cpu'
       /\ file_array' = cpu' /\ cpu' \in Pids /\ prog_pids' = prog_pids
  BY <1>6 DEF ReturnToParent, Below
<1>12. ret' \in [how : {"none", "refused", "halt", "exception"},
                 status : 0 .. 255, val : {-1, EXP_ERROR} \cup 0 .. 255]
  <2>1. ExitValue(flag, s) \in {-1, EXP_ERROR} \cup 0 .. 255
    BY ZenonT(30) DEF ExitValue
  <2> QED BY <2>1, ZenonT(30) DEF ReturnToParent
<1>13. TypeOK'
  <2>1. /\ status' \in [Pids -> {0, 1}] /\ parent' \in [Pids -> Pids \cup {NULL}]
        /\ open_fds' \in [Pids -> SUBSET Fds] /\ video_mem_flag' \in [Pids -> {0, 1}]
    BY <1>1, <1>3, ZenonT(30)
    DEF ReturnToParent, Released, Orphaned, FilesClosed, StatusTables, PidFields,
        SInv, TypeOK
  <2>2. program_exception_flag' \in {0, 1} /\ vid_present' \in BOOLEAN
        /\ vid_base' = vid_base /\ ebp' = ebp
    BY ZenonT(30) DEF ReturnToParent, FlagAfterReturn
  <2> QED BY <1>7, <1>10, <1>11, <1>12, <2>1, <2>2, ZenonT(30) DEF SInv, TypeOK, Counters
<1>14. ContextCoherent'
  <2>1. (n - 1) - 1 = n - 2
    BY <1>4
  <2> QED BY <1>7, <1>11, <2>1 DEF ContextCoherent, Top
<1>15. SavedContexts'
  BY <1>7, <1>11, ZenonT(30) DEF SInv, SavedContexts, Top
<1>16. BootOrder'
  <2>1. AllStarted
    BY <1>1, <1>5 DEF SInv, BootOrder
  <2>2. AllStarted'
    BY <2>1, <1>7 DEF AllStarted
  <2> QED BY <2>2, <1>11, NullIsNoPid DEF BootOrder, Running
<1>17. CountersAgree'
  BY <1>10 DEF CountersAgree, Live, LiveIn
<1> QED BY <1>8, <1>9, <1>13, <1>14, <1>15, <1>16, <1>17 DEF SInv

(* halt, for either kind of program.                                       *)
LEMMA HaltWithStep ==
    ASSUME SInv, Running, NEW flag \in {0, 1}, NEW s \in 0 .. 255,
           NEW how \in {"halt", "exception"}, HaltWith(flag, how, s)
    PROVE  SInv'
<1>1. CASE parent[Top(cur_term_id)] = NULL
  BY <1>1, RelaunchStep, ZenonT(30) DEF HaltWith
<1>2. CASE parent[Top(cur_term_id)] # NULL
  BY <1>2, ReturnStep, ZenonT(30) DEF HaltWith
<1> QED BY <1>1, <1>2
----------------------------------------------------------------------------
(* The terminal the timer turns to has no program only while the shells    *)
(* are being started, and then there is room for one.                      *)
LEMMA ShellFits ==
    ASSUME SInv, Running, term_prog_counter[NextTerminal(cur_term_id)] = 0
    PROVE  /\ NextTerminal(cur_term_id) = cur_term_id + 1
           /\ cur_term_id + 1 \in Terminals
           /\ prog_counter = cur_term_id + 1
           /\ ~Refuses(0, prog_counter, status)
<1>1. cur_term_id \in Terminals /\ cur_term_id \in Nat
  BY RunningFacts, SizesAssumption DEF Terminals
<1>2. NextTerminal(cur_term_id) = IF cur_term_id + 1 = MAX_TERMINAL_NUM THEN 0
                                  ELSE cur_term_id + 1
  BY <1>1, NextTerminalValue
<1>3. NextTerminal(cur_term_id) \in Terminals
  BY <1>1, <1>2, SizesAssumption DEF Terminals
<1>4. /\ prog_counter = cur_term_id + 1
      /\ \A t \in Terminals : term_prog_counter[t] = IF t <= cur_term_id THEN 1 ELSE 0
  BY <1>3 DEF SInv, BootOrder, AllStarted
<1>5. ~(NextTerminal(cur_term_id) <= cur_term_id)
  BY <1>3, <1>4
<1>6. NextTerminal(cur_term_id) = cur_term_id + 1 /\ cur_term_id + 1 \in Terminals
  BY <1>1, <1>2, <1>3, <1>5
<1>7. prog_counter < MAX_PROGRAM_COUNT /\ prog_counter \in Nat
  BY <1>1, <1>4, <1>6, SizesAssumption, CapacityAssumption DEF Terminals
<1>8. \E p \in Pids : FreePcb(prog_counter, status, p)
  <2>1. status \in StatusTables /\ prog_counter = Cardinality(LiveIn(status))
    BY DEF SInv, TypeOK, StatusTables, CountersAgree, Live, LiveIn
  <2> QED BY <2>1, <1>7, FreePcbExists
<1>9. ~LimitReached(0, prog_counter)
  BY <1>7, SizesAssumption DEF LimitReached
<1> QED BY <1>4, <1>6, <1>8, <1>9 DEF Refuses

(* switch_process saves the interrupted process in its own PCB.            *)
LEMMA SaveStep ==
    ASSUME SInv, Running, NEW term \in Terminals, SwitchProcess(cur_term_id, term)
    PROVE  /\ cur_term_id' = term
           /\ term_ebp' \in PidFields
           /\ \A u \in Terminals :
                 term_prog_counter[u] > 0 => term_ebp'[Top(u)] = Top(u)
<1>1. cur_term_id \in Terminals /\ term_prog_counter[cur_term_id] > 0
      /\ esp0 = Top(cur_term_id) /\ esp0 \in Pids
  BY RunningFacts
<1>2. term_ebp' = [term_ebp EXCEPT ![Top(cur_term_id)] = Top(cur_term_id)]
  BY <1>1 DEF SwitchProcess, SaveSlot
<1>3. term_ebp \in PidFields
  BY DEF SInv, TypeOK, PidFields
<1>4. \A u \in Terminals : term_prog_counter[u] > 0 => Top(u) \in Pids
  BY TopFacts
<1>5. ASSUME NEW u \in Terminals, term_prog_counter[u] > 0
      PROVE  term_ebp'[Top(u)] = Top(u)
  <2>1. CASE u = cur_term_id
    BY <1>1, <1>2, <1>3, <2>1 DEF PidFields
  <2>2. CASE u # cur_term_id
    <3>1. Top(u) # Top(cur_term_id) /\ Top(u) \in Pids
      BY <1>1, <1>4, <1>5, <2>2, TopFacts, ZenonT(30)
    <3>2. term_ebp[Top(u)] = Top(u)
      BY <1>5, <2>2 DEF SInv, SavedContexts
    <3> QED BY <1>2, <1>3, <3>1, <3>2 DEF PidFields
  <2> QED BY <2>1, <2>2
<1>6. cur_term_id' = term
  BY DEF SwitchProcess
<1> QED BY <1>1, <1>2, <1>3, <1>5, <1>6 DEF PidFields

(* pit_handler, when it turns to a terminal that has no shell yet.         *)
LEMMA StartShellStep ==
    ASSUME SInv, Pit, Running, term_prog_counter[NextTerminal(cur_term_id)] = 0
    PROVE  SInv'
<1> DEFINE term == NextTerminal(cur_term_id)
<1>1. /\ term = cur_term_id + 1 /\ term \in Terminals
      /\ prog_counter = cur_term_id + 1 /\ ~Refuses(0, prog_counter, status)
  BY ShellFits
<1>2. prog_counter > 0 /\ SwitchProcess(cur_term_id, term)
      /\ UNCHANGED <<active_term_idx, video_mem_flag, program_exception_flag>>
      /\ ret' = NoReturn
  BY RunningFacts DEF Pit
<1>3. Launch(term, 0, prog_counter, status, parent, open_fds) /\ UNCHANGED vid
  BY <1>1, <1>2 DEF SwitchProcess, StartShell
<1>4. cur_term_id' = term /\ term_ebp' \in PidFields
      /\ \A u \in Terminals : term_prog_counter[u] > 0 => term_ebp'[Top(u)] = Top(u)
  BY <1>1, <1>2, SaveStep, ZenonT(30)
<1>5. /\ status \in StatusTables /\ parent \in PidFields
      /\ open_fds \in [Pids -> SUBSET Fds] /\ prog_counter \in Nat
      /\ prog_counter = Cardinality(LiveIn(status))
      /\ term_prog_counter \in Counters /\ cur_term_id \in Nat
  BY SizesAssumption
  DEF SInv, TypeOK, StatusTables, PidFields, CountersAgree, Live, LiveIn, Counters,
      Terminals
<1>6. [term_prog_counter EXCEPT ![term] = 0] = term_prog_counter
  BY <1>5 DEF Counters
<1>7. ~LimitReached(0, prog_counter) /\ 0 \in 0 .. MAX_PROG_NUM_PER_TERM
  BY <1>1, SizesAssumption DEF Refuses
<1>8. LaunchedTypes /\ LaunchedOnTop(term, 0) /\ LaunchedInOrder(prog_counter)
  <2>1. Stacked([term_prog_counter EXCEPT ![term] = 0], prog_pids, status)
        /\ Chained([term_prog_counter EXCEPT ![term] = 0], prog_pids, parent, ebp)
    BY <1>6 DEF SInv
  <2>2. TypeOK /\ ~(0 > 0)
    BY DEF SInv
  <2> HIDE DEF term
  <2> QED BY <2>1, <2>2, <1>1, <1>3, <1>5, <1>7, LaunchStep, ZenonT(30)
<1>9. term_prog_counter'[term] = 1
      /\ \A u \in Terminals \ {term} : term_prog_counter'[u] = term_prog_counter[u]
                                      /\ prog_pids'[u] = prog_pids[u]
  <2>1. 0 + 1 = 1
    OBVIOUS
  <2> HIDE DEF term
  <2> QED BY <1>8, <2>1, ZenonT(30) DEF LaunchedOnTop
<1>10. TypeOK'
  <2>1. cur_term_id' \in Terminals /\ term_ebp' \in PidFields
    BY <1>1, <1>4
  <2>2. TypeOK /\ UNCHANGED <<active_term_idx, video_mem_flag, program_exception_flag>>
        /\ UNCHANGED <<vid_present, vid_base>> /\ ret' = NoReturn
    BY <1>2, <1>3, ZenonT(30) DEF SInv, vid
  <2> HIDE DEF term
  <2> QED BY <1>8, <2>1, <2>2
          DEF TypeOK, LaunchedTypes, Counters, PidTables, StatusTables, PidFields, NoReturn
<1>11. ContextCoherent'
  <2>1. page' = cpu' /\ esp0' = cpu' /\ file_array' = cpu' /\ prog_pids'[term][0] = cpu'
    BY <1>8, ZenonT(30) DEF LaunchedOnTop
  <2>2. 1 > 0 /\ 1 - 1 = 0
    OBVIOUS
  <2>3. cur_term_id' = term /\ term_prog_counter'[term] = 1
    BY <1>4, <1>9, ZenonT(30)
  <2>4. term_prog_counter'[cur_term_id'] > 0
        /\ prog_pids'[cur_term_id'][term_prog_counter'[cur_term_id'] - 1] = cpu'
    BY <2>1, <2>2, <2>3, ZenonT(30)
  <2> QED BY <2>1, <2>4, ZenonT(30) DEF ContextCoherent, Top
<1>12. SavedContexts'
  <2> HIDE DEF term
  <2> QED BY <1>4, <1>9, ZenonT(30) DEF SavedContexts, Top
<1>13. BootOrder'
  <2>1. \A t \in Terminals : term_prog_counter[t] = IF t <= cur_term_id THEN 1 ELSE 0
    BY <1>1 DEF SInv, BootOrder, AllStarted
  <2>2. \A t \in Terminals : t \in Nat
    BY SizesAssumption DEF Terminals
  <2>3. \A t \in Terminals : term_prog_counter'[t] = IF t <= term THEN 1 ELSE 0
    BY <1>1, <1>5, <1>9, <2>1, <2>2
  <2>4. Running' /\ prog_counter' = term + 1
    BY <1>1, <1>8 DEF Running, LaunchedOnTop, LaunchedInOrder
  <2> HIDE DEF term
  <2> QED BY <1>4, <2>3, <2>4, ZenonT(30) DEF BootOrder
<1>14. CountersAgree'
  BY <1>8 DEF LaunchedInOrder, CountersAgree, Live, LiveIn
<1> QED BY <1>8, <1>10, <1>11, <1>12, <1>13, <1>14 DEF SInv, LaunchedInOrder

(* pit_handler, when it turns to a terminal that has programs.             *)
LEMMA ResumeStep ==
    ASSUME SInv, Pit, Running, term_prog_counter[NextTerminal(cur_term_id)] # 0
    PROVE  SInv'
<1> DEFINE term == NextTerminal(cur_term_id)
<1>1. term \in Terminals /\ cur_term_id \in Terminals
      /\ term = IF cur_term_id + 1 = MAX_TERMINAL_NUM THEN 0 ELSE cur_term_id + 1
  BY RunningFacts, NextTerminalValue, SizesAssumption DEF Terminals
<1>2. term_prog_counter[term] > 0
  BY <1>1 DEF SInv, TypeOK
<1>3. prog_counter > 0 /\ SwitchProcess(cur_term_id, term)
      /\ UNCHANGED <<active_term_idx, video_mem_flag, program_exception_flag>>
      /\ ret' = NoReturn
  BY RunningFacts DEF Pit
<1>4. Resume(term)
  BY <1>2, <1>3, ZenonT(30) DEF SwitchProcess
<1>5. cur_term_id' = term /\ term_ebp' \in PidFields
      /\ \A u \in Terminals : term_prog_counter[u] > 0 => term_ebp'[Top(u)] = Top(u)
  BY <1>1, <1>3, SaveStep
<1>6. Top(term) \in Pids
  BY <1>1, <1>2, TopFacts
<1>7. /\ cpu' = Top(term) /\ page' = cpu' /\ esp0' = cpu' /\ file_array' = cpu'
      /\ UNCHANGED <<term_prog_counter, prog_pids, prog_counter, status, parent, ebp,
                     open_fds>>
  BY <1>1, <1>2, <1>4, <1>5, <1>6, NullIsNoPid, ZenonT(30) DEF Resume
<1>8. vid_present' \in BOOLEAN /\ vid_base' \in 0 .. MAX_TERMINAL_NUM
  <2>1. ScreenPage(term) \in 0 .. MAX_TERMINAL_NUM
    BY <1>1, SizesAssumption DEF ScreenPage, Terminals
  <2> QED BY <1>4, <2>1, ZenonT(30) DEF Resume, VidBaseFor, vid, SInv, TypeOK
<1>9. TypeOK'
  BY <1>1, <1>3, <1>5, <1>6, <1>7, <1>8 DEF SInv, TypeOK, PidFields, NoReturn
<1>10. ContextCoherent'
  BY <1>2, <1>5, <1>7, ZenonT(30) DEF ContextCoherent, Top
<1>11. SavedContexts'
  BY <1>5, <1>7, ZenonT(30) DEF SavedContexts, Top
<1>12. BootOrder'
  <2>1. AllStarted
    <3> SUFFICES ASSUME ~AllStarted PROVE FALSE
      OBVIOUS
    <3>1. \A t \in Terminals : term_prog_counter[t] = IF t <= cur_term_id THEN 1 ELSE 0
      BY DEF SInv, BootOrder
    <3>2. term <= cur_term_id
      BY <1>1, <1>2, <3>1
    <3>3. cur_term_id + 1 = MAX_TERMINAL_NUM
      BY <1>1, <3>2, SizesAssumption DEF Terminals
    <3>4. \A t \in Terminals : t <= cur_term_id
      BY <3>3, <1>1, SizesAssumption DEF Terminals
    <3> QED BY <3>1, <3>4 DEF AllStarted
  <2>2. AllStarted'
    BY <2>1, <1>7 DEF AllStarted
  <2> QED BY <2>2, <1>6, <1>7, NullIsNoPid DEF BootOrder, Running
<1>13. CountersAgree'
  BY <1>7 DEF SInv, CountersAgree, Live
<1> QED BY <1>7, <1>9, <1>10, <1>11, <1>12, <1>13 DEF SInv
----------------------------------------------------------------------------
(* Every step of the kernel keeps the invariant, provided that no program  *)
(* calls execute before every terminal has its shell.                      *)
LEMMA NextSInv ==
    ASSUME EarlyExecute = FALSE, SInv, [Next]_vars
    PROVE  SInv'
<1>1. CASE StartTerminal0
  BY <1>1, StartTerminal0Step
<1>2. ASSUME NEW cmd \in {"NULL", "missing", "program"}, ExecuteRefused(cmd)
      PROVE  SInv'
  <2>1. RefusalValue(cmd) \in {-1, EXP_ERROR} \cup 0 .. 255
    BY DEF RefusalValue, PROG_LIMIT_REACHED
  <2>2. ret' \in Returns
    BY <1>2, <2>1 DEF ExecuteRefused, Returns
  <2>3. TypeOK'
    BY <1>2, <2>2, ZenonT(30)
    DEF ExecuteRefused, SInv, TypeOK, terms, pcbs, regs, vid, Returns
  <2> QED BY <1>2, <2>3, QuietStep, ZenonT(30) DEF ExecuteRefused, terms, pcbs, regs
<1>3. CASE Execute
  BY <1>3, ExecuteStep, ZenonT(30)
<1>4. ASSUME NEW s \in Statuses, Halt(s) PROVE SInv'
  BY <1>4, HaltWithStep, EnvironmentAssumption, ZenonT(30) DEF Halt, SInv, TypeOK
<1>5. CASE Exception
  BY <1>5, HaltWithStep DEF Exception
<1>6. CASE Open
  <2>1. TypeOK'
    <3>0. PICK fd \in Fds : open_fds' = [open_fds EXCEPT ![file_array] = @ \cup {fd}]
      BY <1>6, ZenonT(30) DEF Open
    <3>1. open_fds' \in [Pids -> SUBSET Fds] /\ ret' = NoReturn
      BY <1>6, <3>0, ZenonT(30) DEF Open, SInv, TypeOK
    <3>2. UNCHANGED <<terms, status, parent, ebp, term_ebp, video_mem_flag, regs, vid,
                      program_exception_flag>>
      BY <1>6, ZenonT(30) DEF Open
    <3> QED BY <3>1, <3>2, NoReturnTyped, ZenonT(30)
            DEF SInv, TypeOK, terms, regs, vid, Returns
  <2> QED BY <1>6, <2>1, QuietStep, ZenonT(30) DEF Open, terms, regs
<1>7. ASSUME NEW fd \in Fds, Close(fd) PROVE SInv'
  <2>1. TypeOK'
    <3>1. open_fds' \in [Pids -> SUBSET Fds] /\ ret' = NoReturn
      BY <1>7, ZenonT(30) DEF Close, SInv, TypeOK
    <3>2. UNCHANGED <<terms, status, parent, ebp, term_ebp, video_mem_flag, regs, vid,
                      program_exception_flag>>
      BY <1>7, ZenonT(30) DEF Close
    <3> QED BY <3>1, <3>2, NoReturnTyped, ZenonT(30)
            DEF SInv, TypeOK, terms, regs, vid, Returns
  <2> QED BY <1>7, <2>1, QuietStep, ZenonT(30) DEF Close, terms, regs
<1>8. CASE Vidmap
  <2>1. TypeOK'
    <3>1. video_mem_flag' \in [Pids -> {0, 1}] /\ vid_present' \in BOOLEAN
      BY <1>8, ZenonT(30) DEF Vidmap, SInv, TypeOK
    <3> QED BY <1>8, <3>1, NoReturnTyped, ZenonT(30)
            DEF Vidmap, SInv, TypeOK, terms, regs, Returns
  <2> QED BY <1>8, <2>1, QuietStep, ZenonT(30) DEF Vidmap, terms, regs
<1>9. CASE Pit
  BY <1>9, StartShellStep, ResumeStep DEF Pit
<1>10. ASSUME NEW t \in Terminals, SwitchTerminal(t) PROVE SInv'
  <2>1. TypeOK'
    BY <1>10, NoReturnTyped, ZenonT(30)
    DEF SwitchTerminal, SInv, TypeOK, pcbs, regs, vid, Returns
  <2> QED BY <1>10, <2>1, QuietStep, ZenonT(30) DEF SwitchTerminal, pcbs, regs
<1>11. CASE UNCHANGED vars
  <2>1. TypeOK'
    BY <1>11, ZenonT(30) DEF vars, SInv, TypeOK, terms, pcbs, regs, vid
  <2> QED BY <1>11, <2>1, QuietStep, ZenonT(30) DEF vars, terms, pcbs, regs
<1> QED BY <1>1, <1>2, <1>3, <1>4, <1>5, <1>6, <1>7, <1>8, <1>9, <1>10, <1>11 DEF Next

(* halt returns through the frame of the parent, which is a process.       *)
LEMMA ParentFacts ==
    ASSUME SInv, Running, parent[Top(cur_term_id)] # NULL
    PROVE  /\ parent[Top(cur_term_id)] \in Pids
           /\ ebp[Top(cur_term_id)] = parent[Top(cur_term_id)]
<1>1. cur_term_id \in Terminals /\ term_prog_counter[cur_term_id] > 0
      /\ Top(cur_term_id) \in Pids
  BY RunningFacts
<1>2. term_prog_counter[cur_term_id] - 1 \in Slots
  BY <1>1, TopFacts
<1>3. term_prog_counter[cur_term_id] \in Nat /\ parent \in [Pids -> Pids \cup {NULL}]
  BY <1>1, SizesAssumption DEF SInv, TypeOK
<1> QED BY <1>1, <1>2, <1>3 DEF SInv, Chained, Top

(* Once a program runs, some program always does.                          *)
LEMMA StaysRunning ==
    ASSUME SInv, [Next]_vars, Running \/ StartTerminal0
    PROVE  Running'
<1>1. ASSUME NEW t, NEW cnt, NEW n, NEW st, NEW par, NEW fds,
             Launch(t, cnt, n, st, par, fds)
      PROVE  Running'
  BY <1>1, NullIsNoPid DEF Launch, Running
<1>2. ASSUME Running, NEW flag, NEW how, NEW s, HaltWith(flag, how, s) PROVE Running'
  <2>1. CASE parent[Top(cur_term_id)] = NULL
    BY <1>1, <1>2, <2>1 DEF HaltWith, Relaunch
  <2>2. CASE parent[Top(cur_term_id)] # NULL
    BY <1>2, <2>2, ParentFacts, NullIsNoPid DEF HaltWith, ReturnToParent, Running
  <2> QED BY <2>1, <2>2
<1>3. CASE StartTerminal0
  BY <1>1, <1>3 DEF StartTerminal0
<1>4. CASE Execute
  BY <1>1, <1>4 DEF Execute
<1>5. CASE \E s \in Statuses : Halt(s)
  BY <1>2, <1>5 DEF Halt
<1>6. CASE Exception
  BY <1>2, <1>6 DEF Exception
<1>7. CASE Pit
  BY <1>1, <1>7 DEF Pit, SwitchProcess, StartShell, Resume, regs, Running
<1>8. CASE \/ \E cmd \in {"NULL", "missing", "program"} : ExecuteRefused(cmd)
           \/ Open \/ (\E fd \in Fds : Close(fd)) \/ Vidmap
           \/ \E t \in Terminals : SwitchTerminal(t)
  BY <1>8 DEF ExecuteRefused, Open, Close, Vidmap, SwitchTerminal, regs, Running
<1>9. CASE UNCHANGED vars
  BY <1>3, <1>9 DEF vars, regs, Running
<1> QED BY <1>3, <1>4, <1>5, <1>6, <1>7, <1>8, <1>9 DEF Next

(* The inductive invariant of processes and scheduling holds of every      *)
(* behaviour, for every number of terminals, programs and PCBs: what       *)
(* create_pcb, halt and switch_process each rely on of the others.         *)
THEOREM Invariance ==
    ASSUME EarlyExecute = FALSE
    PROVE  Spec => []IInv
<1>1. Init => SInv
  BY InitSInv
<1>2. SInv /\ [Next]_vars => SInv'
  BY NextSInv, ZenonT(30)
<1>3. SInv => IInv
  BY SInvIsIInv
<1> QED BY <1>1, <1>2, <1>3, PTL DEF Spec

(* Type correctness.                                                       *)
THEOREM TypeCorrect ==
    ASSUME EarlyExecute = FALSE
    PROVE  Spec => []TypeOK
<1>1. IInv => TypeOK
  BY DEF IInv
<1> QED BY <1>1, Invariance, PTL

(* get_active_pcb never hands out a PCB, kernel stack or program page that *)
(* a program in some terminal still uses.                                  *)
THEOREM NoPcbShared ==
    ASSUME EarlyExecute = FALSE
    PROVE  Spec => []PcbsExclusive
<1>1. IInv => PcbsExclusive
  BY DEF IInv
<1> QED BY <1>1, Invariance, PTL

(* halt returns to the parent's execute call, on the parent's stack.       *)
THEOREM HaltReturnsToParent ==
    ASSUME EarlyExecute = FALSE
    PROVE  Spec => []ParentChain
<1>1. IInv => ParentChain
  BY DEF IInv
<1> QED BY <1>1, Invariance, PTL

(* Page, kernel stack, descriptors and code always belong to one process,  *)
(* the top program of the scheduled terminal.                              *)
THEOREM ContextIsCoherent ==
    ASSUME EarlyExecute = FALSE
    PROVE  Spec => []ContextCoherent
<1>1. IInv => ContextCoherent
  BY DEF IInv
<1> QED BY <1>1, Invariance, PTL

(* switch_process never restores a frame that its process did not save.    *)
THEOREM ContextsAreSaved ==
    ASSUME EarlyExecute = FALSE
    PROVE  Spec => []SavedContexts
<1>1. IInv => SavedContexts
  BY DEF IInv
<1> QED BY <1>1, Invariance, PTL
============================================================================

--------------------------- MODULE TerminalProofs ---------------------------
(***************************************************************************)
(* Proofs about module Terminal, for the three terminals of the code and   *)
(* any sizes of the line buffer and the tab, any keys and any lengths of   *)
(* reads: the buffer is never overrun, no key changes a line that has been *)
(* entered, and the whole implements LineInput.                            *)
(***************************************************************************)
EXTENDS Terminal, TLAPS

Chars == 33 .. 126 \cup {SPACE}

(* The inductive invariant.                                                *)
TInv ==
    /\ TTypeOK /\ LineComplete
    /\ \A t \in Terminals : pc[t] # "user" => nbytes[t] \in Nbytes
----------------------------------------------------------------------------
(* The scancode tables hold printable characters and 0.                    *)
LEMMA Tables ==
    ASSUME NEW i \in 1 .. 58
    PROVE  /\ scancode_set_1[i] \in {0} \cup Chars
           /\ scancode_set_2[i] \in {0} \cup Chars
           /\ scancode_set_3[i] \in {0} \cup Chars
<1>1. scancode_set_1[i] \in {0} \cup Chars
  BY DEF scancode_set_1, Chars, SPACE
<1>2. scancode_set_2[i] \in {0} \cup Chars
  BY DEF scancode_set_2, Chars, SPACE
<1>3. scancode_set_3[i] \in {0} \cup Chars
  BY DEF scancode_set_3, Chars, SPACE
<1> QED BY <1>1, <1>2, <1>3

(* What scancode_handler returns.                                          *)
LEMMA Characters ==
    ASSUME NEW sc \in 0 .. 255, NEW f
    PROVE  Character(sc, f) \in {CTRL_L, -1, NEW_LINE, TAB} \cup F1_PRESS .. F3_PRESS \cup Chars
<1>1. sc < NUM_SCANCODE => TableEntry(sc, f) \in {0} \cup Chars
  BY Tables DEF NUM_SCANCODE, TableEntry
<1> QED BY <1>1 DEF Character

(* The type of the modifier flags.                                         *)
LEMMA Modifiers ==
    ASSUME TTypeOK, NEW sc
    PROVE  FlagsAfter(sc) \in [CAPS : BOOLEAN, L_SHIFT : BOOLEAN, R_SHIFT : BOOLEAN,
                               CTRL : BOOLEAN, ALT : BOOLEAN]
BY DEF TTypeOK, FlagsAfter, Held

(* The boot state: nobody reads.                                           *)
LEMMA InitTInv == TInit => TInv
BY TerminalAssumption DEF TInit, TInv, TTypeOK, LineComplete, Terminals, Reading, NoLine
----------------------------------------------------------------------------
(* Characters stored at buf_index stay in the buffer, and the other        *)
(* terminals' buffers are not touched.                                     *)
LEMMA PutTypes ==
    ASSUME TTypeOK, NEW t \in Terminals, NEW n \in Nat, NEW chars \in [1 .. n -> 0 .. 255],
           buf_index[t] + n <= KB_BUF_SIZE, Put(t, chars)
    PROVE  /\ keyboard_buf' \in [Terminals -> [0 .. KB_BUF_SIZE - 1 -> 0 .. 255]]
           /\ buf_index' \in [Terminals -> 0 .. KB_BUF_SIZE]
           /\ buf_index'[t] = buf_index[t] + n
           /\ \A i \in 0 .. KB_BUF_SIZE - 1 :
                 keyboard_buf'[t][i] = IF i - buf_index[t] + 1 \in 1 .. n
                                       THEN chars[i - buf_index[t] + 1] ELSE keyboard_buf[t][i]
           /\ \A u \in Terminals \ {t} : /\ keyboard_buf'[u] = keyboard_buf[u]
                                        /\ buf_index'[u] = buf_index[u]
<1>1. Len(chars) = n /\ DOMAIN chars = 1 .. n
  OBVIOUS
<1>2. keyboard_buf[t] \in [0 .. KB_BUF_SIZE - 1 -> 0 .. 255] /\ buf_index[t] \in Nat
  BY DEF TTypeOK
<1> DEFINE new == [i \in DOMAIN keyboard_buf[t] |->
                     IF i - buf_index[t] + 1 \in DOMAIN chars
                     THEN chars[i - buf_index[t] + 1] ELSE keyboard_buf[t][i]]
<1>3. new \in [0 .. KB_BUF_SIZE - 1 -> 0 .. 255]
  BY <1>1, <1>2
<1>4. keyboard_buf' = [keyboard_buf EXCEPT ![t] = new]
  BY DEF Put
<1>5. buf_index' = [buf_index EXCEPT ![t] = buf_index[t] + n]
  BY <1>1 DEF Put
<1>6. \A i \in 0 .. KB_BUF_SIZE - 1 :
          new[i] = IF i - buf_index[t] + 1 \in 1 .. n
                   THEN chars[i - buf_index[t] + 1] ELSE keyboard_buf[t][i]
  BY <1>1, <1>2
<1> HIDE DEF new
<1>7. keyboard_buf \in [Terminals -> [0 .. KB_BUF_SIZE - 1 -> 0 .. 255]]
  BY DEF TTypeOK
<1>8. buf_index \in [Terminals -> 0 .. KB_BUF_SIZE]
  BY DEF TTypeOK
<1>9. /\ keyboard_buf' \in [Terminals -> [0 .. KB_BUF_SIZE - 1 -> 0 .. 255]]
      /\ keyboard_buf'[t] = new
      /\ \A u \in Terminals \ {t} : keyboard_buf'[u] = keyboard_buf[u]
  BY <1>3, <1>4, <1>7
<1>10. /\ buf_index' \in [Terminals -> 0 .. KB_BUF_SIZE]
       /\ buf_index'[t] = buf_index[t] + n
       /\ \A u \in Terminals \ {t} : buf_index'[u] = buf_index[u]
  BY <1>5, <1>8, TerminalAssumption
<1> QED BY <1>6, <1>9, <1>10

(* keyboard_handler keeps the invariant: keys go only to a line that is    *)
(* being read, and each kind of key keeps room for the newline.            *)
LEMMA KeyStep ==
    ASSUME MAX_TERMINAL_NUM = 3, TInv, NEW sc \in Scancodes, KeyboardHandler(sc)
    PROVE  TInv'
<1> DEFINE f == FlagsAfter(sc)
           c == Character(sc, f)
           t == active_term_idx
<1>1. c \in {CTRL_L, -1, NEW_LINE, TAB} \cup F1_PRESS .. F3_PRESS \cup Chars
  BY Characters, TerminalAssumption
<1>2. /\ flags' = f /\ delivered' = NoLine /\ UNCHANGED <<cur_term_id, pc, nbytes>>
      /\ \/ SwitchKey(c, f) \/ EraseKey(t, sc) \/ KillKey(t, c) \/ EnterKey(t, c)
         \/ TabKey(t, c) \/ CharKey(t, c) \/ OtherKey(t, sc, c)
  BY DEF KeyboardHandler, readers
<1>3. flags' \in [CAPS : BOOLEAN, L_SHIFT : BOOLEAN, R_SHIFT : BOOLEAN, CTRL : BOOLEAN, ALT : BOOLEAN]
  BY <1>2, Modifiers DEF TInv
<1>4. t \in Terminals
  BY DEF TInv, TTypeOK
<1> HIDE DEF f, c
<1> USE DEF TInv
<1>5. CASE SwitchKey(c, f) \/ OtherKey(t, sc, c)
  <2>1. UNCHANGED input /\ active_term_idx' \in Terminals
    BY <1>4, <1>5 DEF SwitchKey, OtherKey, IsSwitchKey, Terminals, F1_PRESS, F3_PRESS
  <2> QED BY <1>2, <1>3, <2>1 DEF TTypeOK, LineComplete, input, Reading, NoLine
<1>6. CASE EraseKey(t, sc) \/ KillKey(t, c)
  <2>1. /\ UNCHANGED <<active_term_idx, keyboard_buf, TERMINAL_READ_FLAG>> /\ Reading(t)
        /\ \E k \in 0 .. buf_index[t] : buf_index' = [buf_index EXCEPT ![t] = k]
    BY <1>4, <1>6 DEF EraseKey, KillKey, TTypeOK
  <2>2. PICK k \in 0 .. buf_index[t] : buf_index' = [buf_index EXCEPT ![t] = k]
    BY <2>1
  <2>3. /\ buf_index' \in [Terminals -> 0 .. KB_BUF_SIZE]
        /\ \A u \in Terminals : buf_index'[u] <= buf_index[u]
        /\ \A u \in Terminals \ {t} : buf_index'[u] = buf_index[u]
    BY <1>4, <2>2, TerminalAssumption DEF TTypeOK
  <2>4. TTypeOK'
    BY <1>2, <1>3, <2>1, <2>3, TerminalAssumption DEF TTypeOK, Reading, NoLine
  <2>5. LineComplete'
    BY <1>2, <2>1, <2>3 DEF LineComplete, Reading
  <2> QED BY <1>2, <2>4, <2>5
<1>7. CASE EnterKey(t, c)
  <2>1. /\ UNCHANGED active_term_idx /\ Reading(t) /\ Put(t, <<NEW_LINE>>)
        /\ TERMINAL_READ_FLAG' = [TERMINAL_READ_FLAG EXCEPT ![t] = 0]
    BY <1>7 DEF EnterKey
  <2> DEFINE line == <<NEW_LINE>>
  <2>2. line \in [1 .. 1 -> 0 .. 255] /\ line[1] = NEW_LINE
    BY DEF NEW_LINE
  <2>3. buf_index[t] + 1 <= KB_BUF_SIZE
    BY <1>4, <2>1, TerminalAssumption DEF TTypeOK
  <2>4. Put(t, line)
    BY <2>1
  <2> HIDE DEF line
  <2>5. /\ keyboard_buf' \in [Terminals -> [0 .. KB_BUF_SIZE - 1 -> 0 .. 255]]
        /\ buf_index' \in [Terminals -> 0 .. KB_BUF_SIZE]
        /\ buf_index'[t] = buf_index[t] + 1
        /\ keyboard_buf'[t][buf_index[t]] = NEW_LINE
        /\ \A u \in Terminals \ {t} : /\ keyboard_buf'[u] = keyboard_buf[u]
                                     /\ buf_index'[u] = buf_index[u]
    <3>1. buf_index[t] \in 0 .. KB_BUF_SIZE - 1 /\ buf_index[t] - buf_index[t] + 1 = 1
      BY <1>4, <2>3, TerminalAssumption DEF TTypeOK
    <3>2. /\ keyboard_buf' \in [Terminals -> [0 .. KB_BUF_SIZE - 1 -> 0 .. 255]]
          /\ buf_index' \in [Terminals -> 0 .. KB_BUF_SIZE]
          /\ buf_index'[t] = buf_index[t] + 1
          /\ \A i \in 0 .. KB_BUF_SIZE - 1 :
                keyboard_buf'[t][i] = IF i - buf_index[t] + 1 \in 1 .. 1
                                      THEN line[i - buf_index[t] + 1] ELSE keyboard_buf[t][i]
          /\ \A u \in Terminals \ {t} : /\ keyboard_buf'[u] = keyboard_buf[u]
                                       /\ buf_index'[u] = buf_index[u]
      BY <1>4, <2>2, <2>3, <2>4, PutTypes
    <3>3. keyboard_buf'[t][buf_index[t]] = NEW_LINE
      BY <2>2, <3>1, <3>2
    <3> QED BY <3>2, <3>3
  <2>6. TERMINAL_READ_FLAG' \in [Terminals -> {0, 1}]
    BY <2>1 DEF TTypeOK
  <2>7. \A u \in Terminals : Reading(u)' => u # t /\ Reading(u)
    BY <1>4, <2>1 DEF TTypeOK, Reading
  <2>8. TTypeOK'
    BY <1>2, <1>3, <2>1, <2>5, <2>6, <2>7 DEF TTypeOK, NoLine
  <2>9. LineComplete'
    <3> SUFFICES ASSUME NEW u \in Terminals
                 PROVE  /\ Reading(u)' => pc'[u] = "spin"
                        /\ pc'[u] # "user" /\ ~Reading(u)' =>
                              buf_index'[u] > 0 /\ keyboard_buf'[u][buf_index'[u] - 1] = NEW_LINE
      BY DEF LineComplete
    <3>1. CASE u = t
      <4>1. buf_index[t] \in Nat /\ buf_index[t] + 1 > 0 /\ buf_index[t] + 1 - 1 = buf_index[t]
        BY <1>4 DEF TTypeOK
      <4> QED BY <2>5, <2>7, <3>1, <4>1
    <3>2. CASE u # t
      <4>1. Reading(u)' <=> Reading(u)
        BY <1>4, <2>1, <3>2 DEF TTypeOK, Reading
      <4> QED BY <1>2, <2>5, <3>2, <4>1 DEF LineComplete
    <3> QED BY <3>1, <3>2
  <2> QED BY <1>2, <2>8, <2>9
<1>8. CASE TabKey(t, c) \/ CharKey(t, c)
  <2>1. UNCHANGED <<active_term_idx, TERMINAL_READ_FLAG>> /\ Reading(t)
    BY <1>8 DEF TabKey, CharKey
  <2>2. PICK n \in Nat : \E chars \in [1 .. n -> 0 .. 255] :
           Put(t, chars) /\ buf_index[t] + n < KB_BUF_SIZE
    <3>1. CASE TabKey(t, c)
      <4>1. TabFill(t) \in Nat /\ buf_index[t] + TabFill(t) < KB_BUF_SIZE
        BY <1>4, <2>1, TerminalAssumption DEF TabFill, TTypeOK
      <4>2. [i \in 1 .. TabFill(t) |-> SPACE] \in [1 .. TabFill(t) -> 0 .. 255]
        BY DEF SPACE
      <4> QED BY <3>1, <4>1, <4>2 DEF TabKey
    <3>2. CASE CharKey(t, c)
      <4>1. c \in 0 .. 255 /\ <<c>> \in [1 .. 1 -> 0 .. 255]
        BY <1>1, <3>2 DEF CharKey, CTRL_L, NEW_LINE, TAB, F1_PRESS, F3_PRESS, Chars, SPACE
      <4>2. buf_index[t] + 1 < KB_BUF_SIZE
        BY <1>4, <3>2, TerminalAssumption DEF CharKey, Room, TTypeOK
      <4> QED BY <3>2, <4>1, <4>2 DEF CharKey
    <3> QED BY <1>8, <3>1, <3>2
  <2>3. /\ keyboard_buf' \in [Terminals -> [0 .. KB_BUF_SIZE - 1 -> 0 .. 255]]
        /\ buf_index' \in [Terminals -> 0 .. KB_BUF_SIZE]
        /\ buf_index'[t] = buf_index[t] + n
        /\ \A u \in Terminals \ {t} : /\ keyboard_buf'[u] = keyboard_buf[u]
                                     /\ buf_index'[u] = buf_index[u]
    <3>1. PICK chars \in [1 .. n -> 0 .. 255] : Put(t, chars) /\ buf_index[t] + n < KB_BUF_SIZE
      BY <2>2
    <3>2. buf_index[t] + n <= KB_BUF_SIZE
      BY <1>4, <3>1, TerminalAssumption DEF TTypeOK
    <3> QED BY <1>4, <3>1, <3>2, PutTypes
  <2>4. TTypeOK'
    BY <1>2, <1>3, <1>4, <2>1, <2>2, <2>3, TerminalAssumption DEF TTypeOK, Reading, NoLine
  <2>5. LineComplete'
    BY <1>2, <1>4, <2>1, <2>3 DEF LineComplete, Reading
  <2> QED BY <1>2, <2>4, <2>5
<1> QED BY <1>2, <1>5, <1>6, <1>7, <1>8

(* The other steps: the call, the two ends of the sti window, the timer.   *)
LEMMA NextTInv ==
    ASSUME MAX_TERMINAL_NUM = 3, TInv, [TNext]_tvars
    PROVE  TInv'
<1> USE DEF TInv
<1>0. cur_term_id \in Terminals
  BY DEF TTypeOK
<1>1. ASSUME NEW sc \in Scancodes, KeyboardHandler(sc) PROVE TInv'
  BY <1>1, KeyStep
<1>2. ASSUME NEW n \in Nbytes, TerminalRead(n) PROVE TInv'
  <2>1. n \in Nat
    BY <1>2, TerminalAssumption DEF TerminalRead
  <2>2. TTypeOK'
    BY <1>0, <1>2, <2>1, TerminalAssumption DEF TerminalRead, TTypeOK, Reading, NoLine
  <2>3. LineComplete'
    BY <1>0, <1>2 DEF TerminalRead, LineComplete, TTypeOK, Reading
  <2> QED BY <1>0, <1>2, <2>2, <2>3 DEF TerminalRead, TTypeOK
<1>3. ASSUME NEW n \in Nbytes, TerminalReadRefused(n) PROVE TInv'
  BY <1>0, <1>3 DEF TerminalReadRefused, TTypeOK, LineComplete, Reading, NoLine, input, readers
<1>4. CASE ReaderWakes
  <2>1. TTypeOK'
    BY <1>0, <1>4 DEF ReaderWakes, SpinExit, TTypeOK, Reading, NoLine, input
  <2>2. LineComplete'
    BY <1>0, <1>4 DEF ReaderWakes, SpinExit, LineComplete, TTypeOK, Reading, input
  <2> QED BY <1>0, <1>4, <2>1, <2>2 DEF ReaderWakes, SpinExit, TTypeOK
<1>5. CASE TerminalReadReturns
  <2>1. TTypeOK'
    BY <1>0, <1>5 DEF TerminalReadReturns, TTypeOK, Reading, input
  <2>2. LineComplete'
    BY <1>0, <1>5 DEF TerminalReadReturns, LineComplete, TTypeOK, Reading, input
  <2> QED BY <1>0, <1>5, <2>1, <2>2 DEF TerminalReadReturns, TTypeOK
<1>6. CASE TPit
  <2>1. cur_term_id' \in Terminals
    BY <1>0, <1>6 DEF TPit, Terminals
  <2> QED BY <1>6, <2>1 DEF TPit, TTypeOK, LineComplete, Reading, NoLine, input, readers
<1>7. CASE UNCHANGED tvars
  BY <1>7 DEF tvars, TTypeOK, LineComplete, Reading, input, readers
<1> QED BY <1>1, <1>2, <1>3, <1>4, <1>5, <1>6, <1>7 DEF TNext

(* The inductive invariant holds: a key never reaches a line that nobody   *)
(* reads, and a read that is past its loop holds an entered line.          *)
THEOREM TerminalInvariance ==
    ASSUME MAX_TERMINAL_NUM = 3
    PROVE  TSpec => []TInv
<1>1. TInv /\ [TNext]_tvars => TInv'
  BY NextTInv
<1> QED BY <1>1, InitTInv, PTL DEF TSpec

(* buf_index never passes the end of keyboard_buf, whatever keys come.     *)
THEOREM BufferNeverOverrun ==
    ASSUME MAX_TERMINAL_NUM = 3
    PROVE  TSpec => []TTypeOK
<1>1. TInv => TTypeOK
  BY DEF TInv
<1> QED BY <1>1, TerminalInvariance, PTL

(* No key of the sti window changes the line that ENTER has finished.      *)
THEOREM LinesAreComplete ==
    ASSUME MAX_TERMINAL_NUM = 3
    PROVE  TSpec => []LineComplete
<1>1. TInv => LineComplete
  BY DEF TInv
<1> QED BY <1>1, TerminalInvariance, PTL
----------------------------------------------------------------------------
(* terminal_read writes inside the caller's buffer, for programs that ask  *)
(* for at least one byte.                                                  *)
THEOREM ReadsFitBuffers ==
    ASSUME MAX_TERMINAL_NUM = 3, 0 \notin Nbytes
    PROVE  TSpec => []ReadFitsBuffer
<1>1. TInit => ReadFitsBuffer
  BY DEF TInit, ReadFitsBuffer, NoLine
<1>2. TInv /\ ReadFitsBuffer /\ [TNext]_tvars => ReadFitsBuffer'
  <2> SUFFICES ASSUME TInv, ReadFitsBuffer, [TNext]_tvars PROVE ReadFitsBuffer'
    OBVIOUS
  <2>1. CASE TerminalReadReturns
    <3> DEFINE t == cur_term_id
               end == LoopEnd(t)
    <3>1. t \in Terminals /\ pc[t] = "copy" /\ ~Reading(t)
      BY <2>1 DEF TInv, TTypeOK, LineComplete, TerminalReadReturns
    <3>2. buf_index[t] \in Nat \ {0} /\ nbytes[t] \in Nat \ {0}
      <4>1. pc[t] # "user"
        BY <3>1
      <4>2. nbytes[t] \in Nbytes /\ buf_index[t] > 0
        BY <3>1, <4>1 DEF TInv, LineComplete
      <4>3. nbytes[t] \in Nat /\ buf_index[t] \in 0 .. KB_BUF_SIZE
        BY <3>1 DEF TInv, TTypeOK
      <4> QED BY <4>2, <4>3, TerminalAssumption
    <3>3. end \in Nat \ {0} /\ end <= nbytes[t]
      BY <3>2 DEF LoopEnd
    <3>4. DOMAIN Copied(t, end) = 0 .. end - 1
      BY <3>3 DEF Copied
    <3>5. /\ delivered' = [term |-> t, buf |-> Copied(t, end), result |-> end]
          /\ nbytes' = nbytes
      BY <2>1 DEF TerminalReadReturns
    <3> HIDE DEF end
    <3> QED BY <3>2, <3>3, <3>4, <3>5 DEF ReadFitsBuffer
  <2>2. CASE UNCHANGED tvars
    BY <2>2 DEF tvars, readers, ReadFitsBuffer
  <2>3. CASE ~TerminalReadReturns /\ TNext
    <3>1. delivered' = NoLine \/ \E n \in Nbytes : TerminalReadRefused(n)
      BY <2>3 DEF TNext, KeyboardHandler, TerminalRead, ReaderWakes, TPit
    <3>2. delivered'.term = -1 \/ delivered'.result = -1
      <4>1. CASE delivered' = NoLine
        BY <4>1 DEF NoLine
      <4>2. ASSUME NEW n \in Nbytes, TerminalReadRefused(n) PROVE delivered'.result = -1
        BY <4>2 DEF TerminalReadRefused, NoLine
      <4> QED BY <3>1, <4>1, <4>2
    <3> QED BY <3>2 DEF ReadFitsBuffer
  <2> QED BY <2>1, <2>2, <2>3
<1> QED BY <1>1, <1>2, TerminalInvariance, PTL DEF TSpec
----------------------------------------------------------------------------
(* A line is a sequence of buf_index characters.                           *)
LEMMA TextTypes ==
    ASSUME TTypeOK, NEW t \in Terminals
    PROVE  /\ LineText[t] = [i \in 1 .. buf_index[t] |-> keyboard_buf[t][i - 1]]
           /\ LineText[t] \in [1 .. buf_index[t] -> 0 .. 255]
           /\ LineText[t] \in Seq(0 .. 255)
           /\ Len(LineText[t]) = buf_index[t]
           /\ buf_index[t] \in Nat
<1>1. buf_index[t] \in Nat /\ buf_index[t] <= KB_BUF_SIZE /\ KB_BUF_SIZE \in Nat
  BY TerminalAssumption DEF TTypeOK
<1>2. LineText[t] = [i \in 1 .. buf_index[t] |-> keyboard_buf[t][i - 1]]
  BY DEF LineText
<1>3. keyboard_buf[t] \in [0 .. KB_BUF_SIZE - 1 -> 0 .. 255]
  BY DEF TTypeOK
<1>4. \A i \in 1 .. buf_index[t] : i - 1 \in 0 .. KB_BUF_SIZE - 1
  BY <1>1
<1>5. \A i \in 1 .. buf_index[t] : keyboard_buf[t][i - 1] \in 0 .. 255
  BY <1>3, <1>4
<1>6. LineText[t] \in [1 .. buf_index[t] -> 0 .. 255]
  BY <1>2, <1>5
<1>7. LineText[t] \in Seq(0 .. 255) /\ Len(LineText[t]) = buf_index[t]
  <2> DEFINE s == LineText[t]
             n == buf_index[t]
  <2>1. n \in Nat /\ s \in [1 .. n -> 0 .. 255]
    BY <1>1, <1>6
  <2> HIDE DEF s, n
  <2>2. s \in Seq(0 .. 255) /\ Len(s) = n
    BY <2>1
  <2> QED BY <2>2 DEF s, n
<1> QED BY <1>1, <1>2, <1>6, <1>7

(* Steps that leave the buffer of a terminal alone, or what LineInput sees *)
(* of the readers, leave the abstract state alone.                         *)
LEMMA SameText ==
    ASSUME UNCHANGED <<keyboard_buf, buf_index>>
    PROVE  LineText' = LineText
BY DEF LineText

(* ... likewise for the mode,                                              *)
LEMMA SameMode ==
    ASSUME UNCHANGED <<pc, TERMINAL_READ_FLAG>>
    PROVE  LineMode' = LineMode
BY DEF LineMode, Reading

(* ... and a step that copies nothing to a user buffer delivers nothing.   *)
LEMMA NothingGot ==
    ASSUME \/ delivered'.term = -1 /\ delivered'.result = 0
           \/ delivered'.result = -1
    PROVE  LineGot' = Lines!Nothing
<1>1. LineGot'.term = -1 /\ LineGot'.text = <<>>
  BY DEF LineGot
<1> QED BY <1>1 DEF LineGot, Lines!Nothing

(* Put appends to the line.                                                *)
LEMMA PutText ==
    ASSUME TTypeOK, NEW t \in Terminals, NEW n \in Nat, NEW chars \in [1 .. n -> 0 .. 255],
           buf_index[t] + n <= KB_BUF_SIZE, Put(t, chars)
    PROVE  LineText' = [LineText EXCEPT ![t] = LineText[t] \o chars]
<1>1. /\ buf_index'[t] = buf_index[t] + n
      /\ \A i \in 0 .. KB_BUF_SIZE - 1 :
            keyboard_buf'[t][i] = IF i - buf_index[t] + 1 \in 1 .. n
                                  THEN chars[i - buf_index[t] + 1] ELSE keyboard_buf[t][i]
      /\ \A u \in Terminals \ {t} : /\ keyboard_buf'[u] = keyboard_buf[u]
                                   /\ buf_index'[u] = buf_index[u]
  BY PutTypes
<1>2. /\ LineText[t] = [i \in 1 .. buf_index[t] |-> keyboard_buf[t][i - 1]]
      /\ LineText[t] \in Seq(0 .. 255) /\ Len(LineText[t]) = buf_index[t] /\ buf_index[t] \in Nat
  BY TextTypes
<1>3. LineText'[t] = [i \in 1 .. buf_index[t] + n |-> keyboard_buf'[t][i - 1]]
  BY <1>1 DEF LineText
<1>4. chars \in Seq(0 .. 255) /\ Len(chars) = n
  OBVIOUS
<1>5. \A i \in 1 .. buf_index[t] + n :
         keyboard_buf'[t][i - 1] = IF i > buf_index[t] THEN chars[i - buf_index[t]]
                                   ELSE keyboard_buf[t][i - 1]
  <2> SUFFICES ASSUME NEW i \in 1 .. buf_index[t] + n
               PROVE  keyboard_buf'[t][i - 1] = IF i > buf_index[t] THEN chars[i - buf_index[t]]
                                                ELSE keyboard_buf[t][i - 1]
    OBVIOUS
  <2>1. i - 1 \in 0 .. KB_BUF_SIZE - 1 /\ (i - 1) - buf_index[t] + 1 = i - buf_index[t]
    BY <1>2, TerminalAssumption
  <2>2. i - buf_index[t] \in 1 .. n <=> i > buf_index[t]
    BY <1>2
  <2> QED BY <1>1, <2>1, <2>2
<1>6. LineText'[t] = LineText[t] \o chars
  <2> DEFINE new == LineText'[t]
             old == LineText[t]
             len == buf_index[t] + n
  <2>1. len \in Nat /\ len = Len(old) + Len(chars) /\ old \in Seq(0 .. 255)
    BY <1>2, <1>4
  <2>2. \A i \in 1 .. len : new[i] = keyboard_buf'[t][i - 1]
    BY <1>3
  <2>3. \A i \in 1 .. len : i > buf_index[t] \/ old[i] = keyboard_buf[t][i - 1]
    BY <1>2
  <2>4. \A i \in 1 .. len : new[i] = IF i > Len(old) THEN chars[i - Len(old)] ELSE old[i]
    BY <1>2, <1>5, <2>2, <2>3
  <2>5. \A i \in 1 .. len : new[i] \in 0 .. 255
    <3>1. keyboard_buf'[t] \in [0 .. KB_BUF_SIZE - 1 -> 0 .. 255]
      BY PutTypes
    <3>2. \A i \in 1 .. len : i - 1 \in 0 .. KB_BUF_SIZE - 1
      BY <1>2, TerminalAssumption
    <3> QED BY <2>2, <3>1, <3>2
  <2>6. new \in [1 .. len -> 0 .. 255]
    BY <1>3, <2>2, <2>5
  <2> HIDE DEF new, old, len
  <2>7. new = old \o chars
    <3>1. old \o chars \in Seq(0 .. 255) /\ Len(old \o chars) = len
      BY <1>4, <2>1
    <3>2. \A i \in 1 .. len : (old \o chars)[i] = new[i]
      BY <1>4, <2>1, <2>4
    <3> DEFINE cat == old \o chars
    <3>3. cat \in Seq(0 .. 255) /\ Len(cat) = len /\ \A i \in 1 .. len : cat[i] = new[i]
      BY <3>1, <3>2
    <3> HIDE DEF cat
    <3>4. cat = new
      BY <2>1, <2>6, <3>3
    <3> QED BY <3>4 DEF cat
  <2> QED BY <2>7 DEF new, old
<1>7. \A u \in Terminals \ {t} : LineText'[u] = LineText[u]
  BY <1>1 DEF LineText
<1>8. DOMAIN LineText = Terminals /\ DOMAIN LineText' = Terminals
      /\ LineText = [u \in Terminals |-> LineText[u]] /\ LineText' = [u \in Terminals |-> LineText'[u]]
  BY DEF LineText
<1> QED BY <1>6, <1>7, <1>8

(* A key that replaces the line of the displayed terminal by new.          *)
LEMMA EditStep ==
    ASSUME TInv, Reading(active_term_idx), NEW new,
           LineText' = [LineText EXCEPT ![active_term_idx] = new],
           UNCHANGED <<active_term_idx, TERMINAL_READ_FLAG, pc, nbytes>>, delivered' = NoLine
    PROVE  Lines!Edit(new)
<1>1. active_term_idx \in Terminals /\ pc[active_term_idx] = "spin"
  BY DEF TInv, TTypeOK, LineComplete
<1>2. LineMode[active_term_idx] = "edit"
  BY <1>1 DEF LineMode
<1>3. LineMode' = LineMode
  BY SameMode
<1>4. LineGot' = Lines!Nothing
  BY NothingGot DEF NoLine
<1> QED BY <1>2, <1>3, <1>4 DEF Lines!Edit

(* A step that LineInput does not see, or that displays a terminal.        *)
LEMMA ShowStep ==
    ASSUME active_term_idx' \in Terminals, UNCHANGED <<keyboard_buf, buf_index, nbytes>>,
           LineMode' = LineMode, LineGot' = Lines!Nothing
    PROVE  Lines!LNext
<1>1. Lines!Show(active_term_idx')
  BY SameText DEF Lines!Show
<1> QED BY <1>1 DEF Lines!LNext

(* keyboard_handler: each kind of key is an edit of LineInput.             *)
LEMMA KeyRefines ==
    ASSUME MAX_TERMINAL_NUM = 3, TInv, NEW sc \in Scancodes, KeyboardHandler(sc)
    PROVE  Lines!LNext
<1> DEFINE f == FlagsAfter(sc)
           c == Character(sc, f)
           t == active_term_idx
<1>1. c \in {CTRL_L, -1, NEW_LINE, TAB} \cup F1_PRESS .. F3_PRESS \cup Chars
  BY Characters, TerminalAssumption
<1>2. /\ delivered' = NoLine /\ UNCHANGED <<pc, nbytes>>
      /\ \/ SwitchKey(c, f) \/ EraseKey(t, sc) \/ KillKey(t, c) \/ EnterKey(t, c)
         \/ TabKey(t, c) \/ CharKey(t, c) \/ OtherKey(t, sc, c)
  BY DEF KeyboardHandler, readers
<1>3. t \in Terminals /\ TTypeOK
  BY DEF TInv, TTypeOK
<1>4. LineGot' = Lines!Nothing
  BY <1>2, NothingGot DEF NoLine
<1>5. /\ LineText[t] \in Seq(0 .. 255) /\ Len(LineText[t]) = buf_index[t] /\ buf_index[t] \in Nat
      /\ LineText[t] = [i \in 1 .. buf_index[t] |-> keyboard_buf[t][i - 1]]
  BY <1>3, TextTypes
<1> HIDE DEF f, c
<1>6. CASE SwitchKey(c, f) \/ OtherKey(t, sc, c)
  <2>1. UNCHANGED input /\ active_term_idx' \in Terminals
    BY <1>3, <1>6 DEF SwitchKey, OtherKey, IsSwitchKey, Terminals, F1_PRESS, F3_PRESS
  <2>2. LineMode' = LineMode
    BY <1>2, <2>1, SameMode DEF input
  <2> QED BY <1>2, <1>4, <2>1, <2>2, ShowStep DEF input
<1>7. CASE EraseKey(t, sc)
  <2>1. /\ UNCHANGED <<active_term_idx, keyboard_buf, TERMINAL_READ_FLAG>> /\ Reading(t)
        /\ buf_index[t] # 0 /\ buf_index' = [buf_index EXCEPT ![t] = @ - 1]
    BY <1>7 DEF EraseKey
  <2> DEFINE new == SubSeq(LineText[t], 1, Len(LineText[t]) - 1)
  <2>2. LineText'[t] = new
    <3> DEFINE s == LineText[t]
               r == LineText'[t]
               n == buf_index[t] - 1
    <3>1. n \in Nat /\ s \in Seq(0 .. 255) /\ Len(s) = n + 1
      BY <1>5, <2>1
    <3>2. r = [i \in 1 .. n |-> keyboard_buf[t][i - 1]]
      BY <1>3, <2>1 DEF LineText, TTypeOK
    <3>3. r = [i \in 1 .. n |-> s[i]]
      BY <1>5, <3>2
    <3> HIDE DEF s, r, n
    <3>4. SubSeq(s, 1, n) = [i \in 1 .. n |-> s[i]]
      BY <3>1
    <3>5. Len(s) - 1 = n
      BY <3>1
    <3> QED BY <3>3, <3>4, <3>5 DEF s, r
  <2>3. LineText' = [LineText EXCEPT ![t] = new]
    <3>1. \A u \in Terminals \ {t} : LineText'[u] = LineText[u]
      BY <1>3, <2>1 DEF LineText, TTypeOK
    <3> QED BY <1>3, <2>2, <3>1 DEF LineText
  <2>4. LineText[t] # <<>>
    BY <1>5, <2>1
  <2>5. Lines!Edit(new)
    BY <1>2, <2>1, <2>3, EditStep
  <2> QED BY <2>4, <2>5 DEF Lines!LNext, Lines!Erase
<1>8. CASE KillKey(t, c)
  <2>1. /\ UNCHANGED <<active_term_idx, keyboard_buf, TERMINAL_READ_FLAG>> /\ Reading(t)
        /\ buf_index' = [buf_index EXCEPT ![t] = 0]
    BY <1>8 DEF KillKey
  <2>2. LineText' = [LineText EXCEPT ![t] = <<>>]
    <3>1. LineText'[t] = <<>>
      <4>1. LineText'[t] = [i \in 1 .. 0 |-> keyboard_buf[t][i - 1]]
        BY <1>3, <2>1 DEF LineText, TTypeOK
      <4> QED BY <4>1
    <3>2. \A u \in Terminals \ {t} : LineText'[u] = LineText[u]
      BY <1>3, <2>1 DEF LineText, TTypeOK
    <3> QED BY <1>3, <3>1, <3>2 DEF LineText
  <2>3. Lines!Edit(<<>>)
    BY <1>2, <2>1, <2>2, EditStep
  <2> QED BY <2>3 DEF Lines!LNext, Lines!Kill
<1>9. CASE EnterKey(t, c)
  <2> DEFINE chars == <<NEW_LINE>>
  <2>1. /\ UNCHANGED active_term_idx /\ Reading(t) /\ Put(t, chars)
        /\ TERMINAL_READ_FLAG' = [TERMINAL_READ_FLAG EXCEPT ![t] = 0]
    BY <1>9 DEF EnterKey
  <2>2. chars \in [1 .. 1 -> 0 .. 255] /\ LineText[t] \o chars = Append(LineText[t], NEW_LINE)
    BY <1>5 DEF NEW_LINE
  <2>3. buf_index[t] + 1 <= KB_BUF_SIZE
    BY <1>3, <2>1, TerminalAssumption DEF TTypeOK
  <2> HIDE DEF chars
  <2>4. LineText' = [LineText EXCEPT ![t] = LineText[t] \o chars]
    BY <1>3, <2>1, <2>2, <2>3, PutText
  <2>5. pc[t] = "spin"
    BY <1>3, <2>1 DEF TInv, LineComplete
  <2>6. LineMode[t] = "edit"
    BY <1>3, <2>1, <2>5 DEF LineMode
  <2>7. LineMode' = [LineMode EXCEPT ![t] = "done"]
    <3>1. TERMINAL_READ_FLAG'[t] = 0 /\ \A u \in Terminals \ {t} : Reading(u)' <=> Reading(u)
      BY <1>3, <2>1 DEF Reading, TTypeOK
    <3>2. LineMode'[t] = "done"
      BY <1>2, <1>3, <2>5, <3>1 DEF LineMode, Reading
    <3>3. \A u \in Terminals \ {t} : LineMode'[u] = LineMode[u]
      BY <1>2, <3>1 DEF LineMode
    <3> QED BY <1>3, <3>2, <3>3 DEF LineMode
  <2> QED BY <1>2, <1>4, <2>1, <2>2, <2>4, <2>6, <2>7 DEF Lines!LNext, Lines!Enter
<1>10. CASE TabKey(t, c)
  <2> DEFINE k == TabFill(t)
             blanks == [i \in 1 .. k |-> SPACE]
  <2>1. UNCHANGED <<active_term_idx, TERMINAL_READ_FLAG>> /\ Reading(t) /\ Put(t, blanks)
    BY <1>10 DEF TabKey
  <2>2. /\ k \in 0 .. TAB_SPACE /\ k \in Nat
        /\ k = TAB_SPACE \/ buf_index[t] + k = KB_BUF_SIZE - 1
        /\ buf_index[t] + k <= KB_BUF_SIZE - 1 /\ buf_index[t] + k <= KB_BUF_SIZE
    BY <1>3, <2>1, TerminalAssumption DEF TabFill, TTypeOK
  <2>3. blanks \in [1 .. k -> 0 .. 255]
    BY DEF SPACE
  <2>4. LineText' = [LineText EXCEPT ![t] = LineText[t] \o blanks]
    <3> HIDE DEF k, blanks
    <3> QED BY <1>3, <2>1, <2>2, <2>3, PutText
  <2>5. Lines!Edit(LineText[t] \o blanks)
    <3> HIDE DEF k, blanks
    <3> QED BY <1>2, <2>1, <2>4, EditStep
  <2> HIDE DEF k
  <2> QED BY <1>5, <2>2, <2>5 DEF Lines!LNext, Lines!Tab
<1>11. CASE CharKey(t, c)
  <2> DEFINE chars == <<c>>
  <2>1. /\ UNCHANGED <<active_term_idx, TERMINAL_READ_FLAG>> /\ Reading(t) /\ Put(t, chars)
        /\ buf_index[t] < KB_BUF_SIZE - 1
    BY <1>11 DEF CharKey, Room
  <2>2. c \in 0 .. 255 /\ c \in 33 .. 126 \cup {SPACE}
    BY <1>1, <1>11 DEF CharKey, IsSwitchKey, CTRL_L, NEW_LINE, TAB, Chars, SPACE
  <2>3. chars \in [1 .. 1 -> 0 .. 255] /\ LineText[t] \o chars = Append(LineText[t], c)
    <3>1. chars \in [1 .. 1 -> 0 .. 255]
      BY <2>2
    <3> DEFINE s == LineText[t]
    <3>2. s \in Seq(0 .. 255)
      BY <1>5
    <3> HIDE DEF s
    <3>3. s \o <<c>> = Append(s, c)
      BY <2>2, <3>2
    <3> QED BY <3>1, <3>3 DEF s
  <2> HIDE DEF chars
  <2>4. LineText' = [LineText EXCEPT ![t] = LineText[t] \o chars]
    <3>1. buf_index[t] + 1 <= KB_BUF_SIZE
      BY <1>5, <2>1, TerminalAssumption
    <3> QED BY <1>3, <2>1, <2>3, <3>1, PutText
  <2>5. Lines!Edit(Append(LineText[t], c))
    BY <1>2, <2>1, <2>3, <2>4, EditStep
  <2>6. LineMode[t] = "edit"
    BY <2>5 DEF Lines!Edit
  <2> QED BY <1>5, <2>1, <2>2, <2>5, <2>6 DEF Lines!LNext, Lines!Type
<1> QED BY <1>2, <1>6, <1>7, <1>8, <1>9, <1>10, <1>11

(* The call of terminal_read.                                              *)
LEMMA ReadRefines ==
    ASSUME TInv, NEW n \in Nbytes, TerminalRead(n)
    PROVE  Lines!LNext
<1> DEFINE t == cur_term_id
<1>1. t \in Terminals /\ TTypeOK
  BY DEF TInv, TTypeOK
<1>2. LineGot' = Lines!Nothing
  BY NothingGot DEF TerminalRead, NoLine
<1>3. n \in Nbytes \cap Nat
  BY TerminalAssumption DEF TerminalRead
<1>4. LineMode[t] = "idle"
  BY <1>1 DEF TerminalRead, LineMode
<1>5. LineMode' = [LineMode EXCEPT ![t] = "edit"]
  <2>1. TERMINAL_READ_FLAG'[t] = 1 /\ pc'[t] = "spin"
    BY <1>1 DEF TerminalRead, Reading, TTypeOK
  <2>2. \A u \in Terminals \ {t} : (Reading(u)' <=> Reading(u)) /\ pc'[u] = pc[u]
    BY <1>1 DEF TerminalRead, Reading, TTypeOK
  <2>3. LineMode'[t] = "edit"
    BY <1>1, <2>1 DEF LineMode, Reading
  <2>4. \A u \in Terminals \ {t} : LineMode'[u] = LineMode[u]
    BY <2>2 DEF LineMode
  <2> QED BY <1>1, <2>3, <2>4 DEF LineMode
<1>6. LineText' = [LineText EXCEPT ![t] = <<>>]
  <2>1. LineText'[t] = <<>>
    <3>1. LineText'[t] = [i \in 1 .. 0 |-> keyboard_buf[t][i - 1]]
      BY <1>1 DEF TerminalRead, LineText, TTypeOK
    <3> QED BY <3>1
  <2>2. \A u \in Terminals \ {t} : LineText'[u] = LineText[u]
    BY <1>1 DEF TerminalRead, LineText, TTypeOK
  <2> QED BY <1>1, <2>1, <2>2 DEF LineText
<1>7. nbytes' = [nbytes EXCEPT ![t] = n] /\ UNCHANGED active_term_idx
  BY DEF TerminalRead
<1>8. Lines!Ask(t, n)
  BY <1>2, <1>4, <1>5, <1>6, <1>7 DEF Lines!Ask
<1> QED BY <1>1, <1>3, <1>8 DEF Lines!LNext

(* The copy after cli.                                                     *)
LEMMA ReturnRefines ==
    ASSUME TInv, TerminalReadReturns
    PROVE  Lines!LNext
<1> DEFINE t   == cur_term_id
           end == LoopEnd(t)
           s   == LineText[t]
<1>1. t \in Terminals /\ TTypeOK /\ pc[t] = "copy" /\ ~Reading(t)
  BY DEF TInv, TTypeOK, LineComplete, TerminalReadReturns
<1>2. /\ buf_index[t] > 0 /\ keyboard_buf[t][buf_index[t] - 1] = NEW_LINE
      /\ nbytes[t] \in Nat
  BY <1>1 DEF TInv, TTypeOK, LineComplete
<1>3. /\ delivered' = [term |-> t, buf |-> Copied(t, end), result |-> end]
      /\ pc' = [pc EXCEPT ![t] = "user"]
      /\ UNCHANGED <<active_term_idx, keyboard_buf, buf_index, TERMINAL_READ_FLAG, nbytes>>
  BY DEF TerminalReadReturns, input
<1>4. LineMode[t] = "done"
  BY <1>1 DEF LineMode
<1>5. LineMode' = [LineMode EXCEPT ![t] = "idle"]
  <2>1. pc'[t] = "user" /\ \A u \in Terminals \ {t} : (Reading(u)' <=> Reading(u)) /\ pc'[u] = pc[u]
    BY <1>1, <1>3 DEF Reading, TTypeOK
  <2>2. LineMode'[t] = "idle"
    BY <1>1, <2>1 DEF LineMode
  <2>3. \A u \in Terminals \ {t} : LineMode'[u] = LineMode[u]
    BY <2>1 DEF LineMode
  <2> QED BY <1>1, <2>2, <2>3 DEF LineMode
<1>6. LineText' = LineText
  BY <1>3, SameText
<1>7. /\ s = [i \in 1 .. buf_index[t] |-> keyboard_buf[t][i - 1]]
      /\ s \in [1 .. buf_index[t] -> 0 .. 255] /\ Len(s) = buf_index[t] /\ buf_index[t] \in Nat
  BY <1>1, TextTypes
<1>8. end \in Nat /\ end <= buf_index[t] /\ (end = nbytes[t] \/ end = buf_index[t])
      /\ (nbytes[t] < buf_index[t] <=> end # buf_index[t])
  BY <1>2, <1>7 DEF LoopEnd
<1>9. LineGot' = [term |-> t, text |-> [i \in 1 .. end |-> Copied(t, end)[i - 1]]]
  BY <1>3, <1>8 DEF LineGot
<1>10. \A i \in 1 .. end : Copied(t, end)[i - 1] = IF i = end THEN NEW_LINE ELSE s[i]
  <2> SUFFICES ASSUME NEW i \in 1 .. end
               PROVE  Copied(t, end)[i - 1] = IF i = end THEN NEW_LINE ELSE s[i]
    OBVIOUS
  <2>1. i - 1 \in (0 .. end - 2) \cup {end - 1} /\ (i - 1 = end - 1 <=> i = end)
    BY <1>8
  <2>2. i \in 1 .. buf_index[t] /\ s[i] = keyboard_buf[t][i - 1]
    BY <1>7, <1>8
  <2> QED BY <2>1, <2>2 DEF Copied
<1>11. [i \in 1 .. end |-> Copied(t, end)[i - 1]] = Lines!Cut(s, nbytes[t])
  <2>1. [i \in 1 .. end |-> Copied(t, end)[i - 1]] = [i \in 1 .. end |-> IF i = end THEN NEW_LINE ELSE s[i]]
    BY <1>10
  <2>2. CASE nbytes[t] < buf_index[t]
    BY <1>7, <1>8, <2>1, <2>2 DEF Lines!Cut
  <2>3. CASE ~(nbytes[t] < buf_index[t])
    <3>1. end = buf_index[t] /\ s[end] = NEW_LINE
      BY <1>2, <1>7, <1>8, <2>3
    <3>2. s = [i \in 1 .. end |-> IF i = end THEN NEW_LINE ELSE s[i]]
      BY <1>7, <3>1
    <3> QED BY <1>7, <2>1, <2>3, <3>2 DEF Lines!Cut
  <2> QED BY <2>2, <2>3
<1>12. LineGot' = [term |-> t, text |-> Lines!Cut(LineText[t], nbytes[t])]
  BY <1>9, <1>11
<1>13. Lines!Deliver(t)
  BY <1>3, <1>4, <1>5, <1>6, <1>12 DEF Lines!Deliver
<1> QED BY <1>1, <1>13 DEF Lines!LNext

(* keyboard_handler and terminal_read implement LineInput: each program    *)
(* gets exactly the line typed to its terminal while it waited, cut to the *)
(* length it asked for.                                                    *)
THEOREM TerminalsImplementLineInput ==
    ASSUME MAX_TERMINAL_NUM = 3
    PROVE  TSpec => ImplementsLineInput
<1>1. TInit => Lines!LInit
  <2> SUFFICES ASSUME TInit PROVE Lines!LInit
    OBVIOUS
  <2>1. active_term_idx \in Terminals /\ nbytes \in [Terminals -> Nat]
    BY DEF TInit, Terminals
  <2>2. LineMode = [t \in Terminals |-> "idle"]
    BY DEF TInit, LineMode
  <2>3. LineText = [t \in Terminals |-> <<>>]
    <3>1. \A t \in Terminals : LineText[t] = <<>>
      <4> SUFFICES ASSUME NEW t \in Terminals PROVE LineText[t] = <<>>
        OBVIOUS
      <4>1. LineText[t] = [i \in 1 .. 0 |-> keyboard_buf[t][i - 1]]
        BY DEF TInit, LineText
      <4> QED BY <4>1
    <3> QED BY <3>1 DEF LineText
  <2>4. LineGot = Lines!Nothing
    <3>1. LineGot.term = -1 /\ LineGot.text = <<>>
      BY DEF TInit, NoLine, LineGot
    <3> QED BY <3>1 DEF LineGot, Lines!Nothing
  <2> QED BY <2>1, <2>2, <2>3, <2>4 DEF Lines!LInit
<1>2. TInv /\ [TNext]_tvars => [Lines!LNext]_(Lines!lvars)
  <2> SUFFICES ASSUME TInv, [TNext]_tvars PROVE Lines!LNext \/ UNCHANGED Lines!lvars
    OBVIOUS
  <2>0. cur_term_id \in Terminals /\ active_term_idx \in Terminals
    BY DEF TInv, TTypeOK
  <2>1. ASSUME NEW sc \in Scancodes, KeyboardHandler(sc) PROVE Lines!LNext
    BY <2>1, KeyRefines
  <2>2. ASSUME NEW n \in Nbytes, TerminalRead(n) PROVE Lines!LNext
    BY <2>2, ReadRefines
  <2>3. ASSUME NEW n \in Nbytes, TerminalReadRefused(n) PROVE Lines!LNext
    <3>1. LineGot' = Lines!Nothing
      BY <2>3, NothingGot DEF TerminalReadRefused, NoLine
    <3>2. LineMode' = LineMode
      BY <2>3, SameMode DEF TerminalReadRefused, input, readers
    <3> QED BY <2>0, <2>3, <3>1, <3>2, ShowStep DEF TerminalReadRefused, input, readers
  <2>4. CASE ReaderWakes
    <3>1. LineGot' = Lines!Nothing
      BY <2>4, NothingGot DEF ReaderWakes, NoLine
    <3>2. LineMode' = LineMode
      BY <2>0, <2>4 DEF ReaderWakes, SpinExit, LineMode, Reading, input, TInv, TTypeOK
    <3> QED BY <2>0, <2>4, <3>1, <3>2, ShowStep DEF ReaderWakes, input
  <2>5. CASE TerminalReadReturns
    BY <2>5, ReturnRefines
  <2>6. CASE TPit
    <3>1. LineGot' = Lines!Nothing
      BY <2>6, NothingGot DEF TPit, NoLine
    <3>2. LineMode' = LineMode
      BY <2>6, SameMode DEF TPit, input, readers
    <3> QED BY <2>0, <2>6, <3>1, <3>2, ShowStep DEF TPit, input, readers
  <2>7. CASE UNCHANGED tvars
    <3>1. LineText' = LineText /\ LineMode' = LineMode
      BY <2>7, SameText, SameMode DEF tvars, input, readers
    <3>2. LineGot' = LineGot
      BY <2>7 DEF tvars, LineGot
    <3> QED BY <2>7, <3>1, <3>2 DEF tvars, readers, Lines!lvars
  <2> QED BY <2>1, <2>2, <2>3, <2>4, <2>5, <2>6, <2>7 DEF TNext
<1> QED BY <1>1, <1>2, TerminalInvariance, PTL DEF TSpec, ImplementsLineInput, Lines!LSpec
============================================================================

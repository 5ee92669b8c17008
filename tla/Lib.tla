-------------------------------- MODULE Lib --------------------------------
(***************************************************************************)
(* The memory, string and number routines of student-distrib/lib.c, and    *)
(* those the user programs are linked with (syscalls/ece391support.c).     *)
(*                                                                         *)
(* Memory is a function from addresses to bytes; df is the processor's     *)
(* direction flag, which the string instructions obey and which the        *)
(* routines leave behind for each other.  A character array is a sequence  *)
(* that contains a NUL; numbers have BITS bits.                            *)
(***************************************************************************)
EXTENDS Integers, SequencesExt, FiniteSetsExt

CONSTANTS BITS, HEX_DIGITS      \* HEX_DIGITS = BITS / 4: what %#x prints

ASSUME WidthAssumption == BITS \in Nat \ {0} /\ HEX_DIGITS * 4 = BITS

NUL == 0
----------------------------------------------------------------------------
(* rep stos and rep movs, count elements of size bytes; df = 1 runs        *)
(* downwards.                                                              *)
Delta(df, size) == IF df = 1 THEN -size ELSE size

rep_stos(mem, edi, count, size, df, c) ==
    [a \in DOMAIN mem |->
        IF \E k \in 0 .. count - 1 : a - (edi + k * Delta(df, size)) \in 0 .. size - 1
        THEN c ELSE mem[a]]

rep_movs(mem, edi, esi, count, size, df) ==
    LET after[k \in 0 .. count] ==
            IF k = 0 THEN mem
            ELSE LET m == after[k - 1]
                     d == edi + (k - 1) * Delta(df, size)
                 IN  [a \in DOMAIN mem |->
                        IF a - d \in 0 .. size - 1 THEN m[a - edi + esi] ELSE m[a]]
    IN  after[count]

\* Mutant: the direction flag is taken as it was left.
df_as_found(df) == df

cld(df) == 0

(* Bytes stored one at a time before the destination is aligned.           *)
HeadLength(edi, n) == Min({n, (4 - (edi % 4)) % 4})

(* memset: bytes up to alignment, then double words, then up to 3 bytes.   *)
(* A call that ends before alignment does not reach the cld.               *)
memset(mem, df, s, c, n) ==
    LET h    == HeadLength(s, n)
        head == rep_stos(mem, s, h, 1, 0, c)
        d    == cld(df)
        q    == (n - h) \div 4
        body == rep_stos(head, s + h, q, 4, d, c)
    IN  IF h = n THEN [mem |-> head, df |-> df]
        ELSE [mem |-> rep_stos(body, s + h + q * Delta(d, 4), (n - h) % 4, 1, 0, c),
              df |-> d]

memset_word(mem, df, s, c, n) ==
    [mem |-> rep_stos(mem, s, n, 2, cld(df), c), df |-> cld(df)]

memset_dword(mem, df, s, c, n) ==
    [mem |-> rep_stos(mem, s, n, 4, cld(df), c), df |-> cld(df)]

memcpy(mem, df, dest, src, n) ==
    LET h    == HeadLength(dest, n)
        head == rep_movs(mem, dest, src, h, 1, 0)
        d    == cld(df)
        q    == (n - h) \div 4
        at   == h + q * Delta(d, 4)
        body == rep_movs(head, dest + h, src + h, q, 4, d)
    IN  IF h = n THEN [mem |-> head, df |-> df]
        ELSE [mem |-> rep_movs(body, dest + at, src + at, (n - h) % 4, 1, 0), df |-> d]

(* memmove copies downwards, and leaves the flag set, if src < dest.       *)
memmove(mem, df, dest, src, n) ==
    IF src >= dest
    THEN [mem |-> rep_movs(mem, dest, src, n, 1, cld(df)), df |-> cld(df)]
    ELSE [mem |-> rep_movs(mem, dest + n - 1, src + n - 1, n, 1, 1), df |-> 1]
----------------------------------------------------------------------------
(* The string in an array: what precedes its first NUL.                    *)
strlen(s) == Min({i \in DOMAIN s : s[i] = NUL}) - 1

strncmp(s1, s2, n) ==
    LET stop == {i \in 1 .. n : s1[i] # s2[i] \/ s1[i] = NUL}
    IN  IF stop = {} THEN 0 ELSE s1[Min(stop)] - s2[Min(stop)]

strcpy(dest, src) ==
    [i \in DOMAIN dest |-> IF i <= strlen(src) + 1 THEN src[i] ELSE dest[i]]

strncpy(dest, src, n) ==
    [i \in DOMAIN dest |->
        IF i > n THEN dest[i] ELSE IF i <= strlen(src) THEN src[i] ELSE NUL]

(* strrev: characters swapped from both ends until the ends meet.          *)
strrev(s) ==
    LET len == strlen(s)
        swap[beg \in 0 .. len] ==
            IF beg = 0 THEN s
            ELSE LET t == swap[beg - 1]
                     end == len + 1 - beg
                 IN  IF beg < end THEN [t EXCEPT ![beg] = t[end], ![end] = t[beg]] ELSE t
    IN  swap[len]

(* lookup[]: the character of a digit.                                     *)
Digit(i) == IF i < 10 THEN 48 + i ELSE 55 + i

(* itoa: digits from the lowest up, a NUL, then strrev.                    *)
itoa(value, radix) ==
    LET low[v \in 0 .. value] ==
            IF v = 0 THEN <<>> ELSE <<Digit(v % radix)>> \o low[v \div radix]
    IN  IF value = 0 THEN <<Digit(0), NUL>> ELSE strrev(Append(low[value], NUL))

(* puts: the characters it hands to putc.                                  *)
puts(s) == SubSeq(s, 1, strlen(s))
----------------------------------------------------------------------------
(* printf and printf_direct                                                *)
WORDS == 2 ^ BITS

Signed(v) == IF v >= WORDS \div 2 THEN v - WORDS ELSE v

(* %#x: the digits are put at conv_buf[8], the places from conv_buf[len]   *)
(* to conv_buf[7] filled with '0', and conv_buf printed from len on.       *)
PaddedHex(v) ==
    LET digits == itoa(v, 16)
        len == strlen(digits)
    IN  [i \in 1 .. HEX_DIGITS - len |-> Digit(0)] \o puts(digits)

Specifiers == {120, 117, 100, 99, 115}      \* x, u, d, c, s

Convert(spec, alternate, v) ==
    CASE spec = 120 -> IF alternate THEN PaddedHex(v) ELSE puts(itoa(v, 16))
      [] spec = 117 -> puts(itoa(v, 10))
      [] spec = 100 -> IF Signed(v) < 0
                       THEN <<45>> \o puts(itoa((-Signed(v)) % WORDS, 10))
                       ELSE puts(itoa(v, 10))
      [] spec = 99  -> <<v % 256>>
      [] spec = 115 -> puts(v)
      [] spec = 37  -> <<37>>
      [] OTHER      -> <<>>

(* What '%' does: a new directive, not alternate.                          *)
Directive(p) == [p EXCEPT !.in = TRUE, !.alternate = FALSE]

(* One character of the format: text, or a part of a directive.  A format  *)
(* does not end inside a directive.                                        *)
FormatChar(p, ch) ==
    IF ~p.in THEN IF ch = 37 THEN Directive(p) ELSE [p EXCEPT !.out = Append(@, ch)]
    ELSE IF ch = 35 THEN [p EXCEPT !.alternate = TRUE]
    ELSE [p EXCEPT !.in = FALSE,
                   !.out = @ \o Convert(ch, p.alternate, IF p.args = <<>> THEN 0 ELSE Head(p.args)),
                   !.args = IF ch \in Specifiers THEN Tail(@) ELSE @]

printf(format, args) ==
    FoldLeft(FormatChar, [in |-> FALSE, alternate |-> FALSE, out |-> <<>>, args |-> args],
             format).out

printf_direct(format, args) == printf(format, args)
----------------------------------------------------------------------------
(* ece391support.c                                                         *)
ece391_strlen(s) == Min({i \in DOMAIN s : s[i] = NUL}) - 1

ece391_strcpy(dst, src) ==
    [i \in DOMAIN dst |-> IF i <= ece391_strlen(src) + 1 THEN src[i] ELSE dst[i]]

(* The first place where the loop of strcmp or strncmp stops.              *)
ece391_strcmp(s1, s2) ==
    LET i == Min({j \in DOMAIN s1 : s1[j] # s2[j] \/ s1[j] = NUL})
    IN  s1[i] - s2[i]

ece391_strncmp(s1, s2, n) ==
    LET i == Min({j \in DOMAIN s1 : s1[j] # s2[j] \/ s1[j] = NUL \/ j = n})
    IN  IF n = 0 THEN 0 ELSE s1[i] - s2[i]

ece391_strrev(s) == IF ece391_strlen(s) <= 1 THEN s ELSE strrev(s)

ece391_itoa(value, radix) ==
    LET low[v \in 0 .. value] ==
            IF v = 0 THEN <<>> ELSE <<Digit(v % radix)>> \o low[v \div radix]
    IN  IF value = 0 THEN <<Digit(0), NUL>> ELSE ece391_strrev(Append(low[value], NUL))
============================================================================

------------------------------ MODULE LibCalls ------------------------------
(***************************************************************************)
(* Calls of the routines of Lib, and what each is supposed to compute.     *)
(***************************************************************************)
EXTENDS Lib

CONSTANTS
    Addresses,      \* the bytes of a small memory, 0 .. n
    Arrays,         \* character arrays, each with a NUL
    Values,         \* numbers
    Formats         \* pairs of characters and directives of printf

VARIABLE lib        \* the last call: routine, arguments, result; and df

Pattern == [a \in Addresses |-> a + 1]      \* every byte different
Fill == 99

LInit == lib = [fn |-> "none", df |-> 0]

\* The memory routines, called with the direction flag a call before left.
Result(fn, x, y, n) ==
    CASE fn = "memset"       -> memset(Pattern, lib.df, x, Fill, n)
      [] fn = "memset_word"  -> memset_word(Pattern, lib.df, x, Fill, n)
      [] fn = "memset_dword" -> memset_dword(Pattern, lib.df, x, Fill, n)
      [] fn = "memcpy"       -> memcpy(Pattern, lib.df, x, y, n)
      [] fn = "memmove"      -> memmove(Pattern, lib.df, x, y, n)

Size(fn) == CASE fn = "memset_word" -> 2 [] fn = "memset_dword" -> 4 [] OTHER -> 1

InMemory(a, n) == a .. a + n - 1 \subseteq Addresses

(* memcpy is called on areas that do not overlap.                          *)
Fits(fn, x, y, n) ==
    /\ InMemory(x, n * Size(fn)) /\ InMemory(y, n)
    /\ fn \in {"memcpy", "memmove"} \/ y = x
    /\ fn = "memcpy" => x + n <= y \/ y + n <= x

MemoryCall ==
    /\ lib.fn \in {"none", "memmove"}
    /\ \E fn \in {"memset", "memset_word", "memset_dword", "memcpy", "memmove"},
          x, y \in Addresses, n \in 0 .. Cardinality(Addresses) :
          /\ Fits(fn, x, y, n)
          /\ LET r == Result(fn, x, y, n)
             IN  lib' = [fn |-> fn, x |-> x, y |-> y, n |-> n, mem |-> r.mem, df |-> r.df]

StringCall ==
    /\ lib.fn = "none"
    /\ \E a, b \in Arrays, n \in 0 .. 3 :
          lib' = [fn |-> "string", a |-> a, b |-> b, n |-> n, df |-> lib.df,
                  compared |-> <<strncmp(a, b, n), ece391_strncmp(a, b, n), ece391_strcmp(a, b)>>,
                  copied   |-> <<strcpy(a, b), strncpy(a, b, n), ece391_strcpy(a, b)>>,
                  reversed |-> <<strrev(a), ece391_strrev(a)>>]

NumberCall ==
    /\ lib.fn = "none"
    /\ \E v \in Values, radix \in {2, 10, 16} :
          lib' = [fn |-> "number", v |-> v, radix |-> radix, df |-> lib.df,
                  kernel |-> itoa(v, radix), user |-> ece391_itoa(v, radix)]

(* A directive is a pair: whether it has a #, and its specifier.           *)
Written(item) ==
    IF Len(item) = 1 THEN item ELSE IF item[1] THEN <<37, 35, item[2]>> ELSE <<37, item[2]>>

ArgumentFor(item, v) ==
    IF Len(item) = 1 THEN <<>> ELSE IF item[2] = 115 THEN <<itoa(v, 10)>>
    ELSE IF item[2] \in Specifiers THEN <<v>> ELSE <<>>

PrintfCall ==
    /\ lib.fn = "none"
    /\ \E f \in Formats, v \in Values :
          LET format == FlattenSeq([i \in DOMAIN f |-> Written(f[i])])
              args   == FlattenSeq([i \in DOMAIN f |-> ArgumentFor(f[i], v)])
          IN  lib' = [fn |-> "printf", f |-> f, v |-> v, df |-> lib.df,
                      out |-> <<printf(format, args), printf_direct(format, args)>>]

LNext == MemoryCall \/ StringCall \/ NumberCall \/ PrintfCall
----------------------------------------------------------------------------
(* memset, memset_word, memset_dword, memcpy and memmove write exactly the *)
(* area they are given, whatever its alignment, its length and the         *)
(* direction flag left by the call before; memmove also when source and    *)
(* destination overlap.                                                    *)
MemoryExact ==
    lib.fn \in {"memset", "memset_word", "memset_dword", "memcpy", "memmove"} =>
        \A a \in Addresses :
            lib.mem[a] = IF a \notin lib.x .. lib.x + lib.n * Size(lib.fn) - 1 THEN Pattern[a]
                         ELSE IF lib.fn \in {"memcpy", "memmove"} THEN Pattern[a - lib.x + lib.y]
                         ELSE Fill

Str(s) == SubSeq(s, 1, strlen(s))

Order(s1, s2) ==
    LET differ == {i \in 1 .. Min({Len(s1), Len(s2)}) : s1[i] # s2[i]}
    IN  IF s1 = s2 THEN 0
        ELSE IF differ # {} THEN IF s1[Min(differ)] > s2[Min(differ)] THEN 1 ELSE -1
        ELSE IF Len(s1) > Len(s2) THEN 1 ELSE -1

Sign(x) == IF x > 0 THEN 1 ELSE IF x < 0 THEN -1 ELSE 0

(* The kernel's and the programs' string routines agree with each other    *)
(* and with the order and the copies their comments describe: strncmp      *)
(* compares the first n characters, strncpy pads with NULs and never       *)
(* writes beyond n, strrev reverses in place.                              *)
StringsExact ==
    lib.fn = "string" =>
        LET n == lib.n
            cut(s) == SubSeq(Str(s), 1, Min({n, strlen(s)}))
            upTo(k) == SubSeq(lib.a, k + 1, Len(lib.a))
        IN  /\ Sign(lib.compared[1]) = Order(cut(lib.a), cut(lib.b))
            /\ Sign(lib.compared[2]) = Order(cut(lib.a), cut(lib.b))
            /\ Sign(lib.compared[3]) = Order(Str(lib.a), Str(lib.b))
            /\ lib.copied[1] = Append(Str(lib.b), NUL) \o upTo(strlen(lib.b) + 1)
            /\ lib.copied[3] = lib.copied[1]
            /\ lib.copied[2] = cut(lib.b) \o [i \in 1 .. n - Len(cut(lib.b)) |-> NUL] \o upTo(n)
            /\ \A i \in 1 .. 2 :
                  lib.reversed[i] = Reverse(Str(lib.a)) \o upTo(strlen(lib.a))

DigitValue(ch) == IF ch < 58 THEN ch - 48 ELSE ch - 55

Value(s, radix) == FoldLeft(LAMBDA acc, ch : acc * radix + DigitValue(ch), 0, s)

(* s is the numeral of v: its digits have that value, and it has no        *)
(* leading zero.                                                           *)
Numeral(s, v, radix) ==
    s # <<>> /\ Value(s, radix) = v /\ (Len(s) > 1 => s[1] # 48)

(* itoa writes the numeral of its argument, for every radix the kernel     *)
(* uses, and ends it with one NUL.                                         *)
NumbersExact ==
    lib.fn = "number" =>
        /\ Numeral(Str(lib.kernel), lib.v, lib.radix)
        /\ Len(lib.kernel) = strlen(lib.kernel) + 1
        /\ lib.user = lib.kernel

(* A directive's part of the output.                                       *)
Renders(item, s, v) ==
    CASE Len(item) = 1 -> s = item
      [] Len(item) = 2 /\ item[2] = 120 ->
            IF item[1] THEN Len(s) = HEX_DIGITS /\ Value(s, 16) = v ELSE Numeral(s, v, 16)
      [] Len(item) = 2 /\ item[2] \in {117, 115} -> Numeral(s, v, 10)
      [] Len(item) = 2 /\ item[2] = 100 ->
            IF v < WORDS \div 2 THEN Numeral(s, v, 10)
            ELSE s # <<>> /\ Head(s) = 45 /\ Numeral(Tail(s), WORDS - v, 10)
      [] Len(item) = 2 /\ item[2] = 99 -> s = <<v % 256>>
      [] Len(item) = 2 /\ item[2] = 37 -> s = <<37>>
      [] OTHER -> s = <<>>

(* What printf prints can be cut into the parts its directives ask for:    *)
(* "%#x" always HEX_DIGITS digits ("print 8 hexadecimal digits,            *)
(* zero-padded on the left"), "%d" a minus sign for a negative number, and *)
(* each directive takes its own argument.                                  *)
PrintfExact ==
    lib.fn = "printf" =>
        \A o \in {lib.out[1], lib.out[2]} :
            \E k \in 0 .. Len(o) :
                /\ Renders(lib.f[1], SubSeq(o, 1, k), lib.v)
                /\ Renders(lib.f[2], SubSeq(o, k + 1, Len(o)), lib.v)

(* Every routine of lib.c and ece391support.c computes what its comment    *)
(* says, for every alignment, overlap, length and direction flag.          *)
RoutinesExact == MemoryExact /\ StringsExact /\ NumbersExact /\ PrintfExact
============================================================================

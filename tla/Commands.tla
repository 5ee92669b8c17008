------------------------------ MODULE Commands ------------------------------
(***************************************************************************)
(* A command line on its way from the shell to the program it names:       *)
(* syscalls/ece391shell.c, parse_command of student-distrib/file_system.c  *)
(* and getargs of system_call.c; and the same way under the emulator that  *)
(* lets the programs run on Linux (syscalls/ece391emulate.c).  Strings are *)
(* sequences of characters without their NUL.                              *)
(***************************************************************************)
EXTENDS FileSystem

CONSTANT PARAM_LENGTH       \* the size of params, in _execute and in the PCB

SPC == 32
LF  == 10

(* Where a scan of s from i on stops; Len(s) + 1 is its NUL.               *)
SkipWhile(s, i, skip) == Min({j \in i .. Len(s) + 1 : j = Len(s) + 1 \/ s[j] \notin skip})
SkipUntil(s, i, stop) == Min({j \in i .. Len(s) + 1 : j = Len(s) + 1 \/ s[j] \in stop})

\* Mutant: the spaces between the name and the arguments are kept.
ArgumentsAt(command, i) == i

(* Where the arguments begin, for a name that ends before i.               *)
ParamsStart(command, i) == SkipWhile(command, i, {SPC})

parse_command(command) ==
    LET first == SkipWhile(command, 1, {SPC})
        end   == SkipUntil(command, first, {SPC, LF})
        from  == ParamsStart(command, end)
        word  == SubSeq(command, first, end - 1)
    IN  [filename |-> SubSeq(word, 1, Min({Len(word), NAME_LENGTH_MAX})),
         params   |-> SubSeq(command, from, SkipUntil(command, from, {LF}) - 1)]

(* getargs, for nbytes >= 0: the comparison is unsigned.                   *)
getargs(params, nbytes) ==
    IF nbytes < Len(params) + 1 \/ params = <<>>
    THEN [val |-> -1, buf |-> <<>>] ELSE [val |-> 0, buf |-> params]

(* The command the shell makes of the line it has read.                    *)
ShellCommand(line) == IF line # <<>> /\ Last(line) = LF THEN Front(line) ELSE line
----------------------------------------------------------------------------
(* The emulator's ece391_execute: argv[1], argv[2], ...                    *)
RECURSIVE EmulatorWords(_, _)
EmulatorWords(command, i) ==
    LET from == SkipWhile(command, i, {SPC})
        to   == SkipUntil(command, from, {SPC, LF})
    IN  IF from = Len(command) + 1 \/ command[from] = LF THEN <<>>
        ELSE <<SubSeq(command, from, to - 1)>> \o EmulatorWords(command, Min({to + 1, Len(command) + 1}))

ece391_execute(command) ==
    LET end == SkipUntil(command, 1, {SPC, LF})
    IN  IF end = Len(command) + 1 THEN <<>> ELSE EmulatorWords(command, end + 1)

Joined(words) ==
    FlattenSeq([i \in DOMAIN words |->
                   IF i < Len(words) THEN Append(words[i], SPC) ELSE words[i]])

(* The emulator's ece391_getargs: each word and each space is checked      *)
(* against what is left of the buffer, and at the end the NUL.             *)
ece391_getargs(words, nbytes) ==
    LET used(k) == Len(Joined(SubSeq(words, 1, k)))
        fits == /\ \A k \in DOMAIN words : used(k) <= nbytes
                /\ \A k \in 1 .. Len(words) - 1 : used(k) < nbytes
                /\ used(Len(words)) < nbytes
    IN  IF fits THEN [val |-> 0, buf |-> Joined(words)] ELSE [val |-> -1, buf |-> <<>>]
============================================================================

---------------------------- MODULE MCPrograms -----------------------------
(***************************************************************************)
(* An image, and the programs that are run on it.  Blocks have two bytes,  *)
(* names at most two characters, the programs' buffers four bytes.         *)
(***************************************************************************)
EXTENDS Programs

Head12 == <<11, 12>>        \* stands for 0x7f 'E' 'L' 'F'

D(name, type, inode) == [name |-> name, type |-> type, inode_idx |-> inode]
Block(a, b) == [i \in {0, 1} |-> IF i = 0 THEN a ELSE b]
Idx(a, b, c, d) == [i \in 0 .. 3 |-> CASE i = 0 -> a [] i = 1 -> b [] i = 2 -> c [] i = 3 -> d]

Dot == <<46>>
P   == <<80>>
TT  == <<84, 84>>
R   == <<82>>
E   == <<69>>
L   == <<76>>

(* A program that fills its blocks exactly and holds a NUL, a text of      *)
(* three lines in scattered blocks with a space and without a newline at   *)
(* its end, an empty file, and a text with a line longer than the buffers; *)
(* unused block numbers are 0, as in filesys_img.                          *)
GoodDentries ==
    << D(Dot, "dir", 0), D(P, "file", 1), D(TT, "file", 2), D(R, "rtc", 0), D(E, "file", 3),
       D(L, "file", 4) >>
GoodInodes ==
    [n \in 0 .. 4 |-> CASE n = 1 -> [length |-> 4, block_idx |-> Idx(3, 1, 0, 0)]
                        [] n = 2 -> [length |-> 7, block_idx |-> Idx(4, 0, 2, 5)]
                        [] n = 4 -> [length |-> 7, block_idx |-> Idx(6, 7, 8, 9)]
                        [] OTHER -> [length |-> 0, block_idx |-> Idx(0, 0, 0, 0)]]
GoodBlocks ==
    [b \in 0 .. 9 |-> CASE b = 0 -> Block(10, 98) [] b = 1 -> Block(0, 97)
                        [] b = 2 -> Block(97, 10) [] b = 3 -> Block(11, 12)
                        [] b = 4 -> Block(97, 32) [] b = 5 -> Block(97, 99)
                        [] b = 6 -> Block(97, 97) [] b = 7 -> Block(97, 98)
                        [] b = 8 -> Block(97, 10) [] b = 9 -> Block(98, 98)]

GoodNames == {Dot, P, TT, R, E, L, <<>>, <<88>>, <<84>>, <<80, 80>>, <<80, 84>>, <<84, 80>>, <<84, 84, 84>>}
ReadCounts == {-1, 0, 1, 3, 4}

Patterns == {<<>>, <<97>>, <<98, 97>>, <<97, 97>>, <<32>>, <<99>>}
Frames == {P, TT, E}

AllTasks ==
    {[name |-> n] : n \in {"any", "lib", "ls", "pingpong", "shell"}}
    \cup {[name |-> "cat", arg |-> a] : a \in GoodNames}
    \cup {[name |-> "grep", arg |-> a] : a \in Patterns}
    \cup {[name |-> "syserr", arg |-> a] : a \in 0 .. 9}
    \cup {[name |-> "fish", arg |-> a, arg2 |-> b] : a, b \in Frames}

TTT == <<84, 84, 84>>
T   == <<84>>
NegFd == -1073741823
BigFd == 1073741823
Exit == <<84, 80>>

(* Every line of spaces and the letters P and T that fits the line buffer. *)
Lines == {Append(s, 10) : s \in UNION {[1 .. n -> {32, 80, 84}] : n \in 0 .. 5}}
ArgSizes == {0, 2, 3, 6}
Statuses == {0, 3, 256}

Memory == 0 .. 9
CharArrays == {<<a, b, c, 0>> : a, b, c \in {0, 1, 2}}
Items == { <<97>>, <<TRUE, 120>>, <<FALSE, 120>>, <<FALSE, 100>>, <<TRUE, 100>>, <<FALSE, 115>>,
           <<FALSE, 37>>, <<FALSE, 117>>, <<FALSE, 99>>, <<FALSE, 113>> }
FormatPairs == [1 .. 2 -> Items]
Numbers == {0, 1, 9, 10, 16, 127, 128, 200, 255}
============================================================================

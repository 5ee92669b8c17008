---------------------------- MODULE FileSystem -----------------------------
(***************************************************************************)
(* The read-only file system and the descriptors through which a program   *)
(* uses it: student-distrib/file_system.c and open, read, write and close  *)
(* of system_call.c, with the part of execute that finds, checks and loads *)
(* a program.                                                              *)
(*                                                                         *)
(* The image is a constant.  The variables are the file_array of one       *)
(* process and a record of the last call; Process shows that the arrays of *)
(* two processes are never confused, Terminal and Rtc model the devices.   *)
(***************************************************************************)
EXTENDS Integers, FiniteSetsExt, SequencesExt

CONSTANTS
    NAME_LENGTH_MAX, DATA_LENGTH, FILE_LIMIT,
    WORD,           \* 2^32: file_position and the loop counter are uint32_t
    EXEC_HEAD,      \* the bytes an executable begins with
    dentries,       \* the boot block: [name, type, inode_idx]
    inodes,         \* [length, block_idx], numbered from 0
    blocks,         \* bytes, numbered from 0
    Names, Counts   \* what programs pass to open and execute, and to read

inode_num == Cardinality(DOMAIN inodes)
block_num == Cardinality(DOMAIN blocks)

ASSUME ImageAssumption ==
    /\ DATA_LENGTH \in Nat \ {0} /\ FILE_LIMIT \in Nat /\ FILE_LIMIT > 2
    /\ DOMAIN inodes = 0 .. inode_num - 1 /\ DOMAIN blocks = 0 .. block_num - 1
    /\ \A b \in DOMAIN blocks : DOMAIN blocks[b] = 0 .. DATA_LENGTH - 1
    /\ \A i \in DOMAIN dentries : Len(dentries[i].name) <= NAME_LENGTH_MAX
    /\ \A n \in DOMAIN inodes :
          0 .. inodes[n].length \div DATA_LENGTH \subseteq DOMAIN inodes[n].block_idx

Fds   == 2 .. FILE_LIMIT - 1
AnyFd == -1 .. FILE_LIMIT
Std   == {0, 1}                     \* always the terminal

VARIABLES
    file_array,     \* [op_ptr, inode_idx, file_position, flags] of each descriptor
    ret             \* the last call: what it was, its nbytes, the bytes it stored
                    \* in the caller's memory and the value it returned

fvars == <<file_array, ret>>

Returns(call, fd, n, copied, val) ==
    ret' = [call |-> call, fd |-> fd, n |-> n, copied |-> copied, val |-> val]

(* create_pcb                                                              *)
FInit ==
    /\ file_array = [fd \in Fds |-> [op_ptr |-> "none", inode_idx |-> 0,
                                     file_position |-> 0, flags |-> 0]]
    /\ ret = [call |-> "none", fd |-> 0, n |-> 0, copied |-> <<>>, val |-> 0]
----------------------------------------------------------------------------
(* read_dentry_by_name; 0 if there is none.                                *)
read_dentry_by_name(fname) ==
    LET found == {i \in DOMAIN dentries : dentries[i].name = fname}
    IN  IF Len(fname) > NAME_LENGTH_MAX \/ found = {} THEN 0 ELSE Min(found)

\* Mutant: the loop runs once more.
LoopStopLate(offset, length) == (offset + length + 1) % WORD

LoopStop(offset, length) == (offset + length) % WORD

(* read_data: what it stores in buf and what it returns.  The test for the *)
(* end of the file comes after the copy.                                   *)
read_data(inode, offset, length) ==
    LET node == inodes[inode]
        stop == LoopStop(offset, length)
        from[i \in offset .. stop] ==
            LET block_idx == node.block_idx[i \div DATA_LENGTH]
                data == <<blocks[block_idx][i % DATA_LENGTH]>>
            IN  IF i = stop THEN [copied |-> <<>>, val |-> i - offset]
                ELSE IF block_idx >= block_num
                     THEN [copied |-> <<>>, val |-> i - offset - 1]
                ELSE IF i = node.length
                     THEN [copied |-> data, val |-> i - offset]
                ELSE [from[i + 1] EXCEPT !.copied = data \o @]
    IN  IF inode >= inode_num \/ length < 0 THEN [copied |-> <<>>, val |-> -1]
        ELSE IF offset >= stop THEN [copied |-> <<>>, val |-> 0]
        ELSE from[offset]

\* Mutant: the entry keeps the position of the file it was used for before.
OpenedKeepsPosition(entry, type) == entry

(* file_open, directory_open and rtc_open, which keeps its ratio in        *)
(* file_position.                                                          *)
Opened(entry, type) ==
    CASE type = "file" -> [entry EXCEPT !.file_position = 0]
      [] type = "dir"  -> [entry EXCEPT !.file_position = 0, !.inode_idx = 0]
      [] type = "rtc"  -> [entry EXCEPT !.file_position = 256, !.inode_idx = 0]

(* open.  For a type it does not know it returns with the entry half made. *)
Open(fname) ==
    LET free  == {fd \in Fds : file_array[fd].flags = 0}
        fd    == Min(free)
        d     == read_dentry_by_name(fname)
        type  == dentries[d].type
        taken == [file_array[fd] EXCEPT !.inode_idx = dentries[d].inode_idx, !.flags = 1]
    IN  IF free = {} \/ d = 0
        THEN Returns("open", 0, 0, <<>>, -1) /\ UNCHANGED file_array
        ELSE IF type \notin {"rtc", "dir", "file"}
        THEN /\ file_array' = [file_array EXCEPT ![fd] = taken]
             /\ Returns("open", 0, 0, <<>>, -1)
        ELSE /\ file_array' = [file_array EXCEPT ![fd] =
                                  Opened([taken EXCEPT !.op_ptr = type], type)]
             /\ Returns("open", fd, 0, <<>>, fd)

Usable(fd) == fd \in Fds /\ file_array[fd].flags # 0

(* close, with file_close; the other devices' close does nothing.          *)
Close(fd) ==
    IF ~Usable(fd)
    THEN Returns("close", fd, 0, <<>>, -1) /\ UNCHANGED file_array
    ELSE /\ file_array' = [file_array EXCEPT ![fd].flags = 0,
              ![fd].file_position = IF file_array[fd].op_ptr = "file" THEN 0 ELSE @]
         /\ Returns("close", fd, 0, <<>>, 0)

(* read, refused before it reaches the file.                               *)
ReadRefused(fd, n) ==
    /\ fd \notin Std
    /\ ~Usable(fd) \/ n < 0
    /\ Returns("read", fd, n, <<>>, -1)
    /\ UNCHANGED file_array

\* Mutant: the position is moved by the number of bytes asked for.
AdvancedByNbytes(pos, n, val) == (pos + n) % WORD

Advanced(pos, n, val) == (pos + val) % WORD

(* read of a regular file: file_read.                                      *)
FileRead(fd, n) ==
    /\ Usable(fd) /\ n >= 0 /\ file_array[fd].op_ptr = "file"
    /\ LET r == read_data(file_array[fd].inode_idx, file_array[fd].file_position, n)
       IN  /\ file_array' = [file_array EXCEPT ![fd].file_position = Advanced(@, n, r.val)]
           /\ Returns("read", fd, n, r.copied, r.val)

(* read of a directory: directory_read.  strncpy pads the name with zeros. *)
DirectoryRead(fd, n) ==
    LET pos == file_array[fd].file_position
        name == dentries[pos + 1].name
    IN  /\ Usable(fd) /\ n >= 0 /\ file_array[fd].op_ptr = "dir"
        /\ IF pos = Len(dentries)
           THEN Returns("readdir", fd, n, <<>>, 0) /\ UNCHANGED file_array
           ELSE /\ file_array' = [file_array EXCEPT ![fd].file_position = @ + 1]
                /\ Returns("readdir", fd, n,
                           [i \in 1 .. NAME_LENGTH_MAX |-> IF i <= Len(name) THEN name[i] ELSE 0],
                           Len(name))

(* file_write and directory_write.                                         *)
Write(fd) ==
    /\ fd \notin Std
    /\ Usable(fd) => file_array[fd].op_ptr \in {"file", "dir"}
    /\ Returns("write", fd, 0, <<>>, -1)
    /\ UNCHANGED file_array

(* The rest of check_validity.  A file that ends early leaves the rest of  *)
(* magic_buf as it was on the stack, so the comparison may go either way.  *)
HeaderMatches(inode, valid) ==
    LET magic_buf == read_data(inode, 0, Len(EXEC_HEAD)).copied
        prefix == IsPrefix(magic_buf, EXEC_HEAD)
    IN  IF Len(magic_buf) = Len(EXEC_HEAD) THEN valid = prefix ELSE valid => prefix

(* execute, as far as the file system goes: the program is looked up,      *)
(* checked and loaded; what program_loader returns is not looked at.       *)
Execute(fname) ==
    LET d == read_dentry_by_name(fname)
        inode == dentries[d].inode_idx
        regular == d # 0 /\ dentries[d].type = "file"
    IN  /\ \E valid \in BOOLEAN :
              /\ IF regular THEN HeaderMatches(inode, valid) ELSE ~valid
              /\ IF valid
                 THEN Returns("execute", 0, 0, read_data(inode, 0, inodes[inode].length).copied, 0)
                 ELSE Returns("execute", 0, 0, <<>>, -1)
        /\ UNCHANGED file_array

FNext ==
    \/ \E fname \in Names : Open(fname) \/ Execute(fname)
    \/ \E fd \in AnyFd : Close(fd) \/ Write(fd)
    \/ \E fd \in AnyFd, n \in Counts :
          ReadRefused(fd, n) \/ FileRead(fd, n) \/ DirectoryRead(fd, n)

FSpec == FInit /\ [][FNext]_fvars
----------------------------------------------------------------------------
(* A position is never beyond the end of what is being read, so the next   *)
(* read looks only at block numbers the inode has and entries the boot     *)
(* block has.                                                              *)
FTypeOK ==
    \A fd \in Fds :
        /\ file_array[fd].flags \in {0, 1} /\ file_array[fd].inode_idx \in DOMAIN inodes
        /\ CASE ~Usable(fd) -> file_array[fd].file_position \in 0 .. WORD - 1
             [] file_array[fd].op_ptr = "file" ->
                  file_array[fd].file_position \in 0 .. inodes[file_array[fd].inode_idx].length
             [] file_array[fd].op_ptr = "dir" ->
                  file_array[fd].file_position \in 0 .. Len(dentries)
             [] OTHER -> file_array[fd].op_ptr = "rtc"

(* The bytes of a file, straight from the image.                           *)
Bytes ==
    [n \in DOMAIN inodes |->
        [i \in 1 .. inodes[n].length |->
            blocks[inodes[n].block_idx[(i - 1) \div DATA_LENGTH]][(i - 1) % DATA_LENGTH]]]

Listing == [i \in DOMAIN dentries |-> dentries[i].name]

ContentOf(type, inode) ==
    CASE type = "file" -> Bytes[inode] [] type = "dir" -> Listing [] OTHER -> <<>>

Entry(name) == {i \in DOMAIN dentries : dentries[i].name = name}

KindOf == [n \in Names |-> IF Entry(n) = {} THEN "none" ELSE dentries[Min(Entry(n))].type]

Contents ==
    [n \in Names |-> IF Entry(n) = {} THEN <<>>
                     ELSE ContentOf(KindOf[n], dentries[Min(Entry(n))].inode_idx)]

Left(e) == LET c == ContentOf(e.op_ptr, e.inode_idx)
           IN  SubSeq(c, e.file_position + 1, Len(c))

(* An open descriptor is a stream of the file's bytes or of the            *)
(* directory's names, independent of the other descriptors and of what its *)
(* slot was used for before; execute loads whole executables only.         *)
Streams == INSTANCE FileStreams WITH
    Kind    <- KindOf,
    Content <- Contents,
    Magic   <- EXEC_HEAD,
    stream  <- [fd \in Fds |-> IF Usable(fd)
                               THEN [kind |-> file_array[fd].op_ptr, left |-> Left(file_array[fd])]
                               ELSE [kind |-> "none", left |-> <<>>]],
    reply   <- [call |-> ret.call, val  |-> ret.val,
                data |-> IF ret.call \in {"read", "readdir"}
                         THEN SubSeq(ret.copied, 1, ret.val) ELSE ret.copied]
ImplementsStreams == Streams!SSpec
============================================================================

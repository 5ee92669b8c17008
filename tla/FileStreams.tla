---------------------------- MODULE FileStreams ----------------------------
(***************************************************************************)
(* What the file system promises a program: an open file is a stream that  *)
(* hands over its bytes once and in order, an open directory hands over    *)
(* its names in the same way, descriptors do not affect each other, and    *)
(* only an executable is loaded, whole.                                    *)
(***************************************************************************)
EXTENDS Integers, Sequences

CONSTANTS
    Fds,            \* the descriptors open may return
    AnyFd,          \* what a program may pass as one
    Names,          \* what it may pass as a name
    Counts,         \* what it may pass as a number of bytes
    Kind,           \* of a name: "file", "dir", "rtc" or "none"
    Content,        \* of a name: its bytes, the names it lists, or <<>>
    Magic           \* how an executable begins

VARIABLES
    stream,         \* of a descriptor: its kind and what is left to read
    reply           \* to the last call

Closed == [kind |-> "none", left |-> <<>>]
IsOpen(fd) == fd \in Fds /\ stream[fd] # Closed

Answer(call, val, data) == reply' = [call |-> call, val |-> val, data |-> data]
Failure(call) == Answer(call, -1, <<>>) /\ UNCHANGED stream

SInit == /\ stream = [fd \in Fds |-> Closed]
         /\ reply = [call |-> "none", val |-> 0, data |-> <<>>]

(* An error only if there is no such name or no descriptor left.           *)
Open(name) ==
    IF Kind[name] = "none" \/ \A fd \in Fds : IsOpen(fd)
    THEN Failure("open")
    ELSE \E fd \in Fds :
            /\ ~IsOpen(fd)
            /\ stream' = [stream EXCEPT ![fd] = [kind |-> Kind[name], left |-> Content[name]]]
            /\ Answer("open", fd, <<>>)

Close(fd) ==
    IF IsOpen(fd)
    THEN stream' = [stream EXCEPT ![fd] = Closed] /\ Answer("close", 0, <<>>)
    ELSE Failure("close")

BadRead(fd, n) == (~IsOpen(fd) \/ n < 0) /\ Failure("read")

(* The next n bytes, or as many as there are; 0 bytes only at the end.     *)
Read(fd, n) ==
    /\ IsOpen(fd) /\ n >= 0 /\ stream[fd].kind = "file"
    /\ LET k == IF n < Len(stream[fd].left) THEN n ELSE Len(stream[fd].left)
       IN  /\ stream' = [stream EXCEPT ![fd].left = SubSeq(@, k + 1, Len(@))]
           /\ Answer("read", k, SubSeq(stream[fd].left, 1, k))

(* The next name, whatever n is; 0 bytes only at the end.                  *)
ReadDir(fd, n) ==
    /\ IsOpen(fd) /\ n >= 0 /\ stream[fd].kind = "dir"
    /\ IF stream[fd].left = <<>>
       THEN Answer("readdir", 0, <<>>) /\ UNCHANGED stream
       ELSE /\ stream' = [stream EXCEPT ![fd].left = Tail(@)]
            /\ Answer("readdir", Len(Head(stream[fd].left)), Head(stream[fd].left))

Executable(name) ==
    /\ Kind[name] = "file" /\ Len(Content[name]) >= Len(Magic)
    /\ SubSeq(Content[name], 1, Len(Magic)) = Magic

Run(name) ==
    IF Executable(name)
    THEN Answer("execute", 0, Content[name]) /\ UNCHANGED stream
    ELSE Failure("execute")

SNext ==
    \/ reply'.call = "open" /\ \E name \in Names : Open(name)
    \/ reply'.call = "execute" /\ \E name \in Names : Run(name)
    \/ reply'.call = "close" /\ \E fd \in AnyFd : Close(fd)
    \/ reply'.call = "read" /\ \E fd \in AnyFd, n \in Counts : Read(fd, n) \/ BadRead(fd, n)
    \/ reply'.call = "readdir" /\ \E fd \in Fds, n \in Counts : ReadDir(fd, n)
    \/ Failure("write")

SSpec == SInit /\ [][SNext]_<<stream, reply>>
============================================================================

------------------------------ MODULE FileStore ------------------------------
(***************************************************************************)
(* What programs may rely on when they use files through fs/vfs.c, without *)
(* the directory, the sectors and the nodes: a store to which whole files  *)
(* are added.  A file is complete or it is not, at one moment, and then    *)
(* keeps its content until the disk is formatted.  A name stands for the   *)
(* oldest file that has it, complete or not.                               *)
(***************************************************************************)
EXTENDS Naturals, Sequences, FiniteSetsExt

CONSTANTS
  Names, Stored, Fold,  \* the names asked for, as stored, and up to case
  GreetingName,         \* the file of a disk that was just formatted,
  GreetingContent,      \* and what is in it
  Content,              \* what programs write
  Entry,                \* how many files there may be: 1 .. the most
  Fds,                  \* the descriptors
  ReadSizes             \* the sizes that are read

VARIABLES
  files,    \* by age: the name, the size, and the content once it is complete
  writing,  \* the file that is being completed, and what will be in it
  open,     \* for each descriptor the name, and the offset it reads from
  got       \* what was read of each since it was opened, or the last format

store == <<files, writing, open, got>>

None == [file |-> 0]
Shut == [name |-> ""]

Begun(name, content) ==
  [name |-> name, size |-> Len(content), done |-> Len(content) = 0, content |-> << >>]
Completed(f, content) ==
  [name |-> f.name, size |-> f.size, done |-> TRUE, content |-> content]

Init ==
  /\ files = << >>
  /\ writing = None
  /\ open = [fd \in Fds |-> Shut]
  /\ got = [fd \in Fds |-> << >>]

-----------------------------------------------------------------------------
Open(fd, n) ==
  /\ writing = None /\ open[fd] = Shut
  /\ open' = [open EXCEPT ![fd] = [name |-> n, offset |-> 0]]
  /\ got' = [got EXCEPT ![fd] = << >>]
  /\ UNCHANGED <<files, writing>>

Close(fd) ==
  /\ writing = None /\ open[fd] # Shut
  /\ open' = [open EXCEPT ![fd] = Shut]
  /\ UNCHANGED <<files, writing, got>>

(* A new file, younger than all others, under the name that is stored.     *)
Write(fd, content) ==
  /\ writing = None /\ open[fd] # Shut
  /\ \E i \in Entry :
       /\ \A j \in DOMAIN files : j < i
       /\ files' = [j \in DOMAIN files \union {i} |->
                      IF j = i THEN Begun(Stored[open[fd].name], content) ELSE files[j]]
       /\ writing' = IF Len(content) = 0 THEN None ELSE [file |-> i, content |-> content]
  /\ UNCHANGED <<open, got>>

(* All of it is there at once. *)
Complete ==
  /\ writing # None
  /\ files' = [files EXCEPT ![writing.file] = Completed(@, writing.content)]
  /\ writing' = None
  /\ UNCHANGED <<open, got>>

(* The next bytes of the oldest file of that name.  Of a file that was     *)
(* never completed anything may be read, but no more than its size.        *)
Called(n) == {i \in DOMAIN files : Fold[files[i].name] = Fold[n]}

Following(fd, file, n) ==
  IF file.done THEN [b \in 1 .. n |-> file.content[open[fd].offset + b]]
               ELSE [b \in 1 .. n |-> got'[fd][Len(got[fd]) + b]]

Read(fd, size) ==
  /\ writing = None /\ open[fd] # Shut
  /\ Called(open[fd].name) # {}
  /\ LET file == files[Min(Called(open[fd].name))]
         left == file.size - open[fd].offset
         n == IF size > left THEN left ELSE size
     IN /\ open[fd].offset < file.size /\ n > 0
        /\ open' = [open EXCEPT ![fd].offset = @ + n]
        /\ got' = [got EXCEPT ![fd] = @ \o Following(fd, file, n)]
  /\ UNCHANGED <<files, writing>>

(* Only here a file goes. *)
Format ==
  /\ writing = None
  /\ files' = [i \in {1} |-> Begun(GreetingName, GreetingContent)]
  /\ writing' = [file |-> 1, content |-> GreetingContent]
  /\ got' = [fd \in Fds |-> IF open[fd] = Shut THEN got[fd] ELSE << >>]
  /\ UNCHANGED open

(* The power goes: the file being written will never be complete.          *)
PowerLoss ==
  /\ writing # None
  /\ writing' = None
  /\ open' = [fd \in Fds |-> Shut]
  /\ got' = [fd \in Fds |-> << >>]
  /\ UNCHANGED files

Step ==
  \/ \E fd \in Fds : \/ \E n \in Names : Open(fd, n)
                     \/ \E content \in Content : Write(fd, content)
                     \/ \E size \in ReadSizes : Read(fd, size)
                     \/ Close(fd)
  \/ Complete \/ Format \/ PowerLoss

Spec == Init /\ [][Step]_store
=============================================================================

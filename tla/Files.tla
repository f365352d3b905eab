------------------------------- MODULE Files -------------------------------
(***************************************************************************)
(* Open files (os/src/fs/inode.rs, os/src/syscall/fs.rs) composed with the *)
(* processes that share them: every TCB has a table of descriptors, fork   *)
(* clones its Arcs, and the OSInode behind them keeps the one offset of an *)
(* open.  Files are what FileStore says easy-fs provides.                  *)
(***************************************************************************)
EXTENDS Process, FiniteSetsExt, Loops

CONSTANTS
  Handle,     \* heap addresses an OSInode can have: the bound on open files
  Name,       \* file names
  Flags,      \* the sets of OpenFlags that programs pass to open; {} is RDONLY
  Fd,         \* the descriptors that programs pass
  Shapes,     \* a user buffer: the lengths of the slices its pages cut it into
  MaxSize,    \* bound on the size of a file
  MaxOps      \* bound on the opens, reads and writes that succeed

ASSUME FilesAssumption ==
  /\ Handle \cap Task = {}
  /\ Handle \cap {None, "Stdin", "Stdout"} = {}
  /\ \A s \in Shapes : s \in Seq(Nat \ {0}) /\ s # <<>>

VARIABLES
  fd_table,   \* of every TCB; descriptor fd is at fd + 1
  os_inode,   \* the OSInode at an address, Closed where there is none
  files,      \* from the names that exist to the units of the file
  request,    \* what the last step asked of easy-fs
  ops

fileVars == <<fd_table, os_inode, files, request, ops>>
filesVars == <<vars, fileVars>>

Store == INSTANCE FileStore WITH Zero <- <<0, 0, 0>>,
                                 panicked <- IF machine = "panic" THEN "yes" ELSE "no"

Closed == [name |-> None, readable |-> FALSE, writable |-> FALSE, offset |-> 0, opened |-> 0]
Held(table) == Handle \cap UNION {Range(table[t]) : t \in Task}
Open == Held(fd_table)

FilesInit ==
  /\ Init
  /\ fd_table = [t \in Task |-> IF t = INITPROC THEN <<"Stdin", "Stdout", "Stdout">> ELSE <<>>]
  /\ os_inode = [h \in Handle |-> Closed]
  /\ Store!Init
  /\ request = [op |-> "none"]
  /\ ops = 0

(* A table changes; an OSInode whose last Arc went with it is dropped. *)
SetTables(table) ==
  /\ fd_table' = table
  /\ os_inode' = [h \in Handle |-> IF h \in Held(table) THEN os_inode[h] ELSE Closed]

(* A system call that stays with the current task and returns r. *)
Returns(r) ==
  /\ UserMode
  /\ ret' = r
  /\ UNCHANGED <<tcbs, in_read, ready_queue, current, pids, kstacks, xstate, machine>>

NoRequest == request' = [op |-> "none"] /\ UNCHANGED files
NoFileCall == NoRequest /\ UNCHANGED <<fd_table, os_inode, ops>>
Counted == ops < MaxOps /\ ops' = ops + 1

-----------------------------------------------------------------------------
read_write(flags) ==
  IF flags = {} THEN [readable |-> TRUE, writable |-> FALSE]
  ELSE IF "WRONLY" \in flags THEN [readable |-> FALSE, writable |-> TRUE]
  ELSE [readable |-> TRUE, writable |-> TRUE]

(* Fault: the table is only ever extended over the last descriptor. *)
alloc_fd_last(table) == Max({Len(table), 1})

(* The lowest descriptor that is None, else a new one at the end. *)
alloc_fd(table) ==
  IF None \in Range(table) THEN Min({i \in DOMAIN table : table[i] = None}) ELSE Len(table) + 1

(* What open_file does to the file: CREATE makes it or clears it, TRUNC    *)
(* clears it, and otherwise it is only found.                              *)
open_file(name, flags) ==
  \/ /\ "CREATE" \in flags
     /\ name \notin DOMAIN files
     /\ request' = [op |-> "create", name |-> name]
     /\ files' = [n \in DOMAIN files \cup {name} |-> IF n = name THEN <<>> ELSE files[n]]
  \/ /\ flags \cap {"CREATE", "TRUNC"} # {}
     /\ name \in DOMAIN files
     /\ request' = [op |-> "clear", name |-> name]
     /\ files' = [files EXCEPT ![name] = <<>>]
  \/ /\ flags \cap {"CREATE", "TRUNC"} = {}
     /\ name \in DOMAIN files
     /\ NoRequest

(* The new OSInode goes into the descriptor that alloc_fd returns. *)
sys_open(name, flags) ==
  \E h \in Handle \ Open :
    LET table == fd_table[current]
        i == alloc_fd(table)
    IN /\ Counted
       /\ open_file(name, flags)
       /\ Returns(i - 1)
       /\ fd_table' = [fd_table EXCEPT ![current] =
                         [k \in DOMAIN table \cup {i} |-> IF k = i THEN h ELSE table[k]]]
       /\ os_inode' = [os_inode EXCEPT ![h] =
                         [name |-> name, offset |-> 0, opened |-> ops + 1,
                          readable |-> read_write(flags).readable,
                          writable |-> read_write(flags).writable]]

sys_open_missing(name, flags) ==
  /\ "CREATE" \notin flags
  /\ name \notin DOMAIN files
  /\ Returns(-1)
  /\ NoFileCall

(* The file behind a descriptor, None when it is out of range or closed. *)
file(fd) == IF fd + 1 \in DOMAIN fd_table[current] THEN fd_table[current][fd + 1] ELSE None

sys_close(fd) ==
  \/ /\ file(fd) = None
     /\ Returns(-1)
     /\ NoFileCall
  \/ /\ Returns(0)
     /\ file(fd) # None
     /\ SetTables([fd_table EXCEPT ![current][fd + 1] = None])
     /\ NoRequest /\ UNCHANGED ops

-----------------------------------------------------------------------------
(* Inode::read_at as FileStore has it: what there is of len units at pos. *)
ReadOut(data, pos, len) == Store!ReadOut(data, pos, len)

(* Fault: the offset moves by the length of the slice. *)
read_slice_by_length(data, r, len) ==
  LET got == ReadOut(data, r.offset, len)
  IN IF r.done \/ got = <<>> THEN [r EXCEPT !.done = TRUE]
     ELSE [r EXCEPT !.buf = @ \o got, !.offset = @ + len]

(* The loop of OSInode::read over the slices, left when one reads nothing. *)
read_slice(data, r, len) ==
  LET got == ReadOut(data, r.offset, len)
  IN IF r.done \/ got = <<>> THEN [r EXCEPT !.done = TRUE]
     ELSE [r EXCEPT !.buf = @ \o got, !.offset = @ + Len(got)]

read_slices(data, offset, shape) ==
  ForEach(LAMBDA r, len : read_slice(data, r, len),
          [buf |-> <<>>, offset |-> offset, done |-> FALSE, panicked |-> "no"], shape)

(* Fault: the offset does not move with the slice. *)
write_slice_in_place(w, slice) == [w EXCEPT !.data = Store!Written(@, w.offset, slice)]

(* The loop of OSInode::write. *)
write_slice(w, slice) ==
  [w EXCEPT !.data = Store!Written(@, w.offset, slice), !.offset = @ + Len(slice)]

write_slices(data, offset, slices) ==
  ForEach(write_slice, [data |-> data, offset |-> offset, panicked |-> "no"], slices)

(* Where the slices of a buffer end, and UserBuffer::len. *)
Ends(shape) ==
  LET end[j \in 0 .. Len(shape)] == IF j = 0 THEN 0 ELSE end[j - 1] + shape[j] IN end
BufferLen(shape) == Ends(shape)[Len(shape)]

(* What the program has in its buffer: units that tell apart the opens     *)
(* they are written through, the operations, and their places.  The pages  *)
(* cut the buffer into slices.                                             *)
Opened(unit) == unit[1]
Buffer(len, opened) == [k \in 1 .. len |-> <<opened, ops + 1, k>>]
Slices(buf, shape) ==
  [j \in DOMAIN shape |-> SubSeq(buf, Ends(shape)[j - 1] + 1, Ends(shape)[j])]

sys_read(fd, shape) ==
  LET h == file(fd)
      data == files[os_inode[h].name]
      r == read_slices(data, os_inode[h].offset, shape)
  IN /\ h \in Handle
     /\ os_inode[h].readable
     /\ Counted
     /\ Returns(Len(r.buf))
     /\ request' = [op |-> "read", name |-> os_inode[h].name, pos |-> os_inode[h].offset,
                    len |-> BufferLen(shape), buf |-> r.buf]
     /\ os_inode' = [os_inode EXCEPT ![h].offset = r.offset]
     /\ UNCHANGED <<fd_table, files>>

sys_write(fd, shape) ==
  LET h == file(fd)
      buf == Buffer(BufferLen(shape), os_inode[h].opened)
      w == write_slices(files[os_inode[h].name], os_inode[h].offset, Slices(buf, shape))
  IN /\ h \in Handle
     /\ os_inode[h].writable
     /\ w.offset <= MaxSize
     /\ Counted
     /\ Returns(w.offset - os_inode[h].offset)
     /\ request' = [op |-> "write", name |-> os_inode[h].name, pos |-> os_inode[h].offset,
                    buf |-> buf]
     /\ files' = [files EXCEPT ![os_inode[h].name] = w.data]
     /\ os_inode' = [os_inode EXCEPT ![h].offset = w.offset]
     /\ UNCHANGED fd_table

sys_write_stdout(fd, shape) ==
  /\ file(fd) = "Stdout"
  /\ Returns(BufferLen(shape))
  /\ NoFileCall

(* The checks that end sys_read and sys_write early. *)
sys_read_refused(fd) ==
  /\ \/ file(fd) \in {None, "Stdout"}
     \/ file(fd) \in Handle /\ ~os_inode[file(fd)].readable
  /\ Returns(-1)
  /\ NoFileCall

sys_write_refused(fd) ==
  /\ \/ file(fd) \in {None, "Stdin"}
     \/ file(fd) \in Handle /\ ~os_inode[file(fd)].writable
  /\ Returns(-1)
  /\ NoFileCall

(* Stdin::read is one of Process; getchar asks for the one unit it takes. *)
read_stdin ==
  /\ current # None
  /\ current \in in_read \/ "Stdin" \in Range(fd_table[current])
  /\ sys_read_stdin
  /\ NoFileCall

-----------------------------------------------------------------------------
(* Fault: the child gets OSInodes of its own. *)
fork_copies_inodes ==
  /\ sys_fork
  /\ \E child \in Task, h, c \in Handle :
       /\ status[child] = "Free" /\ status'[child] = "Ready"
       /\ h \in Range(fd_table[current]) /\ c \notin Open
       /\ fd_table' = [fd_table EXCEPT ![child] =
                         [i \in DOMAIN fd_table[current] |->
                            IF fd_table[current][i] = h THEN c ELSE fd_table[current][i]]]
       /\ os_inode' = [os_inode EXCEPT ![c] = os_inode[h]]
  /\ NoRequest /\ UNCHANGED ops

(* fork clones every Arc of the table. *)
fork_table ==
  /\ sys_fork
  /\ \E child \in Task :
       /\ status[child] = "Free" /\ status'[child] = "Ready"
       /\ SetTables([fd_table EXCEPT ![child] = fd_table[current]])
  /\ NoRequest /\ UNCHANGED ops

(* exit leaves the table alone: it goes with the TCB, when that is dropped. *)
drop_tables ==
  /\ SetTables([t \in Task |-> IF status'[t] = "Free" THEN <<>> ELSE fd_table[t]])
  /\ NoRequest /\ UNCHANGED ops

(* initproc never exits; a fault of another application ends it the way    *)
(* sys_exit does.                                                          *)
end_or_wait ==
  /\ \/ current # INITPROC /\ sys_exit
     \/ \E want \in -1 .. pid_current : sys_waitpid(want)
  /\ drop_tables

(* Programs keep their standard descriptors. *)
StdFd == {0, 1, 2}

file_call ==
  \/ \E name \in Name, flags \in Flags : sys_open(name, flags) \/ sys_open_missing(name, flags)
  \/ \E fd \in Fd \ StdFd : sys_close(fd)
  \/ \E fd \in Fd : sys_read_refused(fd) \/ sys_write_refused(fd)
  \/ \E fd \in Fd, shape \in Shapes :
       sys_read(fd, shape) \/ sys_write(fd, shape) \/ sys_write_stdout(fd, shape)

FilesNext ==
  \/ (run_tasks \/ sys_yield \/ timer_interrupt) /\ NoFileCall
  \/ read_stdin
  \/ fork_table
  \/ end_or_wait
  \/ UserMode /\ file_call

FilesSpec == FilesInit /\ [][FilesNext]_filesVars

-----------------------------------------------------------------------------
(* The open files implement the store: however the pages of the user cut a *)
(* buffer, a read returns the units from the offset up to its length or    *)
(* the end of the file, and a write puts its units there in one piece,     *)
(* behind a gap of zeros when another open has truncated the file.         *)
FilesImplementStore == Store!Spec

(* Descriptors that stem from one open, in whichever processes fork and    *)
(* exit have left them, never overwrite each other's units: they share one *)
(* offset, which OSInode advances within the call that uses it.            *)
SameOpenNeverOverwrites ==
  [][\A n \in DOMAIN files : \A k \in DOMAIN files[n] \cap DOMAIN files'[n] :
       \/ files'[n][k] = files[n][k]
       \/ Opened(files'[n][k]) # Opened(files[n][k])]_filesVars

(* An offset moves only in a read or write of the running task through a   *)
(* descriptor of its own, and by the number that call returns, at the end  *)
(* of the file as well; open by another process never moves it.            *)
OffsetMovesByResult ==
  [][\A h \in Open : os_inode'[h].offset # os_inode[h].offset /\ os_inode'[h] # Closed =>
       /\ h \in Range(fd_table[current])
       /\ os_inode'[h].offset = os_inode[h].offset + ret']_filesVars

(* A table is changed by its own process only, one descriptor at a time:   *)
(* open takes the lowest one that was free and never one in use, and       *)
(* nothing a child closes, and no exit, closes a descriptor of another     *)
(* process; the table goes when waitpid or exit drops the TCB.             *)
TablesPrivate ==
  [][\A t \in Alive : fd_table'[t] # fd_table[t] =>
       \/ status'[t] = "Free"
       \/ /\ t = current
          /\ \E i \in DOMAIN fd_table'[t] :
               /\ \A k \in DOMAIN fd_table[t] \ {i} : fd_table'[t][k] = fd_table[t][k]
               /\ \/ fd_table'[t][i] = None
                  \/ /\ ret' = i - 1
                     /\ i \notin DOMAIN fd_table[t] \/ fd_table[t][i] = None
                     /\ \A k \in 1 .. i - 1 : fd_table[t][k] # None]_filesVars
============================================================================

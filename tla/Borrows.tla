------------------------------ MODULE Borrows ------------------------------
(***************************************************************************)
(* The UPSafeCells of the kernel (os/src/sync/up.rs).  A cell is a RefCell *)
(* that is only borrowed mutably, so a second borrow while a RefMut is     *)
(* alive panics; a RefMut that a kernel stack still holds when it leaves   *)
(* the processor in __switch stays alive meanwhile.  Every action of       *)
(* Process is extended by the borrows and drops its code makes on the way, *)
(* in their order.                                                         *)
(***************************************************************************)
EXTENDS Process

VARIABLES
  borrowed,   \* the cells whose RefMut is alive between two steps
  doubly      \* the cells that an exclusive_access has met borrowed

borrowVars == <<vars, borrowed, doubly>>

(* The cells are the statics by name, a TCB for the cell in it, and        *)
(* OSInode for that of the one open file a call works on.                  *)
Statics == {"PROCESSOR", "TASK_MANAGER", "PID_ALLOCATOR", "KERNEL_SPACE", "FRAME_ALLOCATOR",
            "VirtIOBlock", "OSInode"}

ASSUME BorrowsAssumption == Task \cap Statics = {}

(* A stretch of code by the cells it borrows, those whose RefMut it leaves *)
(* alive, and those that an exclusive_access in it finds borrowed by it.   *)
Nothing == [uses |-> {}, holds |-> {}, twice |-> {}]

(* let inner = cell.exclusive_access(), alive to the end and beyond. *)
Hold(cell) == [uses |-> {cell}, holds |-> {cell}, twice |-> {}]

(* One stretch after the other. *)
a ++ b ==
  [uses |-> a.uses \cup b.uses,
   holds |-> a.holds \cup b.holds,
   twice |-> a.twice \cup b.twice \cup (a.holds \cap b.uses)]

(* The cell is held while the body runs and dropped behind it.  Touch: the *)
(* RefMut is a temporary; Each: one temporary after the other.             *)
Scope(cell, body) ==
  [uses |-> body.uses \cup {cell},
   holds |-> body.holds \ {cell},
   twice |-> body.twice \cup (body.uses \cap {cell})]

Touch(cell) == Scope(cell, Nothing)
Each(cells) == [uses |-> cells, holds |-> {}, twice |-> {}]

(* The step runs this code. *)
Borrowing(code) ==
  /\ borrowed' = borrowed \cup code.holds
  /\ doubly' = doubly \cup code.twice \cup (borrowed \cap code.uses)

-----------------------------------------------------------------------------
(* Functions that several paths call. *)
current_task == Touch("PROCESSOR")
current_trap_cx(t) == current_task ++ Touch(t)
current_user_token(t) == current_task ++ Touch(t)

(* MemorySet and KernelStack allocate and free frames; the second does so  *)
(* inside KERNEL_SPACE.                                                    *)
user_frames == Touch("FRAME_ALLOCATOR")
kernel_stack == Scope("KERNEL_SPACE", Touch("FRAME_ALLOCATOR"))

(* The drop of a TCB: PidHandle, KernelStack, then the user space. *)
drop_task == Touch("PID_ALLOCATOR") ++ kernel_stack ++ user_frames

(* A block is read or written; virt_to_phys asks for kernel_token. *)
block_io == Scope("VirtIOBlock", Touch("KERNEL_SPACE"))

trap_return(t) == current_user_token(t)
syscall_enter(t) == current_trap_cx(t)
syscall_leave(t) == current_trap_cx(t) ++ trap_return(t)

(* suspend_current_and_run_next up to __switch. *)
suspend_trace(t) ==
  Touch("PROCESSOR") ++ Touch(t) ++ Touch("TASK_MANAGER") ++ Touch("PROCESSOR")

-----------------------------------------------------------------------------
BorrowsInit == Init /\ borrowed = {} /\ doubly = {}

(* The idle flow holds PROCESSOR while it fetches.  The task it switches   *)
(* to returns to U-mode unless it is inside Stdin::read.                   *)
run_tasks_borrows ==
  /\ run_tasks
  /\ LET task == Head(ready_queue)
     IN Borrowing(Scope("PROCESSOR", Touch("TASK_MANAGER") ++ Touch(task))
                  ++ IF task \in in_read THEN Nothing ELSE syscall_leave(task))

sys_yield_borrows ==
  sys_yield /\ Borrowing(syscall_enter(current) ++ suspend_trace(current))

timer_interrupt_borrows ==
  timer_interrupt /\ Borrowing(suspend_trace(current))

(* Fault: inner is not dropped before file.read. *)
sys_read_prefix_held(t) ==
  syscall_enter(t) ++ current_user_token(t) ++ current_task ++ Hold(t)

(* sys_read up to file.read: the TCB is dropped manually. *)
sys_read_prefix(t) ==
  syscall_enter(t) ++ current_user_token(t) ++ current_task ++ Touch(t)

(* Stdin::read is entered or resumed, and leaves by suspending or returning. *)
sys_read_borrows ==
  /\ sys_read_stdin
  /\ Borrowing((IF current \in in_read THEN Nothing ELSE sys_read_prefix(current))
               ++ (IF current' = None THEN suspend_trace(current) ELSE syscall_leave(current)))

(* fork holds the parent's cell while it builds the child. *)
sys_fork_borrows ==
  /\ sys_fork
  /\ LET child == Last(children'[current])
     IN Borrowing(syscall_enter(current) ++ current_task
                  ++ Scope(current, user_frames ++ Touch("PID_ALLOCATOR") ++ kernel_stack ++ Touch(child))
                  ++ Touch(child) ++ Touch("TASK_MANAGER")
                  ++ syscall_leave(current))

(* exit: the own cell over that of INITPROC over those of the children.    *)
(* Pid 0 ends the machine before any of them.                              *)
exit_trace(t) ==
  Touch("PROCESSOR") ++
  IF pid[t] = IDLE_PID THEN Nothing
  ELSE Scope(t, Scope(INITPROC, Each(Range(children[t]))) ++ user_frames) ++ Touch("PROCESSOR")

sys_exit_borrows == sys_exit /\ Borrowing(syscall_enter(current) ++ exit_trace(current))
page_fault_borrows == page_fault /\ Borrowing(current_trap_cx(current) ++ exit_trace(current))
illegal_instruction_borrows == illegal_instruction /\ Borrowing(exit_trace(current))

(* waitpid holds its own cell to the end, also over the drop of the child. *)
sys_waitpid_borrows(want) ==
  /\ sys_waitpid(want)
  /\ LET ch == children[current]
         found == CHOOSE i \in DOMAIN ch : FirstZombie(want, i)
         looked == CASE ret' = -1 -> {}
                     [] ret' = -2 -> Range(ch)
                     [] OTHER     -> {ch[k] : k \in 1 .. found}
         reaped == IF ret' < 0 THEN Nothing ELSE Touch(ch[found]) ++ drop_task
     IN Borrowing(syscall_enter(current) ++ current_task
                  ++ Scope(current, Each(looked) ++ reaped)
                  ++ syscall_leave(current))

(* Calls that leave the processes as they are.  A count or a descriptor    *)
(* that they return is taken to be 0.                                      *)
StaysCurrent(result) ==
  /\ UserMode
  /\ ret' = result
  /\ UNCHANGED <<tcbs, in_read, ready_queue, current, pids, kstacks, xstate, machine>>

(* exec reads the file, builds the new space, then replaces the old one    *)
(* and its trap context under the own cell.                                *)
sys_exec_borrows ==
  /\ StaysCurrent(0)
  /\ Borrowing(syscall_enter(current) ++ current_user_token(current)
               ++ block_io ++ Scope("OSInode", block_io)
               ++ current_task ++ user_frames
               ++ Scope(current, user_frames ++ Touch("KERNEL_SPACE"))
               ++ syscall_leave(current))

(* sys_open looks the file up before it borrows the own cell. *)
sys_open_borrows ==
  /\ StaysCurrent(0)
  /\ Borrowing(syscall_enter(current) ++ current_task ++ current_user_token(current)
               ++ block_io ++ Touch(current) ++ syscall_leave(current))

(* sys_read and sys_write of an OSInode. *)
file_io_borrows ==
  /\ StaysCurrent(0)
  /\ Borrowing(sys_read_prefix(current) ++ Scope("OSInode", block_io) ++ syscall_leave(current))

(* exec and open of a file that is not there. *)
not_found_borrows ==
  /\ StaysCurrent(-1)
  /\ Borrowing(syscall_enter(current) ++ current_task ++ current_user_token(current)
               ++ block_io ++ syscall_leave(current))

(* A read or write that is refused, and Stdout::write, which has no cell. *)
no_file_io_borrows(result) ==
  /\ StaysCurrent(result)
  /\ Borrowing(sys_read_prefix(current) ++ syscall_leave(current))

(* sys_close borrows the own cell, on every path. *)
sys_close_borrows(result) ==
  /\ StaysCurrent(result)
  /\ Borrowing(syscall_enter(current) ++ current_task ++ Touch(current) ++ syscall_leave(current))

(* sys_getpid.  sys_get_time borrows no cell but those of entry and exit. *)
sys_getpid_borrows ==
  /\ StaysCurrent(pid[current])
  /\ Borrowing(syscall_enter(current) ++ current_task ++ syscall_leave(current))

BorrowsNext ==
  \/ run_tasks_borrows
  \/ sys_yield_borrows
  \/ timer_interrupt_borrows
  \/ sys_read_borrows
  \/ sys_fork_borrows
  \/ sys_exit_borrows
  \/ page_fault_borrows
  \/ illegal_instruction_borrows
  \/ \E want \in -1 .. pid_current : sys_waitpid_borrows(want)
  \/ sys_exec_borrows
  \/ sys_open_borrows
  \/ file_io_borrows
  \/ not_found_borrows
  \/ \E result \in {-1, 0} : no_file_io_borrows(result) \/ sys_close_borrows(result)
  \/ sys_getpid_borrows
  \/ Halted /\ UNCHANGED <<borrowed, doubly>>

BorrowsSpec == BorrowsInit /\ [][BorrowsNext]_borrowVars

-----------------------------------------------------------------------------
(* No exclusive_access panics: whichever tasks share the processor and     *)
(* whatever family they form, no path borrows a cell that it, or a task    *)
(* that was suspended inside the kernel, still holds.                      *)
NoDoubleBorrow == doubly = {}
============================================================================
